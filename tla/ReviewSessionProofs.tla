------------------------- MODULE ReviewSessionProofs -------------------------
(***************************************************************************)
(* ReviewSession, for every number of requests, sessions, texts and        *)
(* follow-ups: first what the card lock and the account lock guarantee     *)
(* about its handlers, then that the transcript a learner sees is what was *)
(* said, then that the schedule is what SM-2 was told.                     *)
(***************************************************************************)
EXTENDS ReviewSessionRefinement, FiniteSetTheorems, SequenceTheorems, TLAPS

------------------------------------------------------------------------------
(* The inductive invariant.                                                   *)

\* A handler past its first stage has its session; one that scores has a text.
HasTarget(r) ==
  /\ pc[r] # "idle" => req[r].op \in Ops
  /\ pc[r] # "idle" /\ req[r].op # "start" => req[r].session \in Sessions
  /\ pc[r] = "resume" => req[r].session \in Sessions
  /\ pc[r] # "idle" /\ req[r].op \in {"answer", "reattempt", "coaching"} =>
       req[r].text \in Texts
RequestHasTarget == \A r \in Requests : HasTarget(r)

\* The locks a handler holds at each stage, and what the account lock protects.
HoldsLocks(r) ==
  /\ pc[r] \in {"provider", "write"} => cardLock = r
  /\ pc[r] \in {"card", "provider", "write", "generate"} =>
       accountLock = r /\ consent
LocksHeld == \A r \in Requests : HoldsLocks(r)

\* What the scorer was told is still the session when its result is written.
ScoresCurrent(r) ==
  pc[r] \in {"provider", "write"} /\ req[r].op = "answer" =>
    LET s == req[r].session IN
    /\ status[s] \in Live
    /\ work[r].status = status[s]
    /\ work[r].probes = probes[s]
    /\ ExpectedTurn(work[r]) = probes[s]
    /\ pc[r] = "write" /\ work[r].verdict = "follow_up" =>
         probes[s] < MaxFollowUps
ScorerIsCurrent == \A r \in Requests : ScoresCurrent(r)

\* Only a waiting session has a probe to answer, and it has one.
ProbesMatchStatus ==
  \A s \in Sessions :
    /\ status[s] \in {"none", "open"} => probes[s] = 0
    /\ status[s] = "awaiting" => probes[s] > 0

IInv ==
  /\ TypeOK
  /\ RequestHasTarget
  /\ LocksHeld
  /\ ScorerIsCurrent
  /\ ProbesMatchStatus
  /\ OneLiveSession
  /\ NoRecallWhileHeld

------------------------------------------------------------------------------
(* Lemmas about the records and the way a request ends.                       *)

\* The empty record of each kind has its type.
LEMMA NullRecords ==
  /\ NoWork \in Works
  /\ NoRequest \in RequestRecords
  /\ \A kind \in ReplyKinds : Reply(kind) \in Replies
  BY BoundsAssumption DEF NoWork, Works, NoRequest, RequestRecords, Reply,
     Replies, Turns, Drafts, Questions, ReplyKinds

\* Ending a request keeps the types of the locks and of the requests.
LEMMA EndTypes ==
  ASSUME LockTypes, RequestTypes, NEW r \in Requests, NEW rep \in Replies,
         End(r, rep)
  PROVE  LockTypes' /\ RequestTypes'
  BY NullRecords DEF LockTypes, RequestTypes, End, GoTo, Remember, Release,
     Unlocked, Stages

\* Ending a request takes nothing from the others.
LEMMA EndFrame ==
  ASSUME LockTypes, RequestTypes, NEW r \in Requests, NEW rep, End(r, rep)
  PROVE  /\ pc'[r] = "idle"
         /\ \A q \in Requests \ {r} :
              /\ pc'[q] = pc[q] /\ req'[q] = req[q] /\ work'[q] = work[q]
              /\ cardLock = q => cardLock' = q
              /\ accountLock = q => accountLock' = q
  BY DEF LockTypes, RequestTypes, End, GoTo, Remember, Release, Unlocked


\* Init establishes the inductive invariant.
LEMMA InitIInv == Init => IInv
  <1> SUFFICES ASSUME Init PROVE IInv
    OBVIOUS
  <1>1. CardTypes /\ consent \in BOOLEAN
    <2>1. recallHeld \in BOOLEAN /\ consent \in BOOLEAN
      BY DEF Init
    <2>2. schedule \in Seq(Qualities)
      BY DEF Init
    <2>3. question \in Questions /\ inputs \in 0 .. MaxEdits
      BY BoundsAssumption DEF Init, Questions
    <2> QED
      BY <2>1, <2>2, <2>3 DEF Init, CardTypes
  <1>2. RowTypes
    BY BoundsAssumption DEF Init, RowTypes, Setups, Questions, Drafts, Turns, Live
  <1>3. LockTypes /\ RequestTypes
    BY NullRecords DEF Init, LockTypes, RequestTypes, Stages, ReplyKinds
  <1>4. RequestHasTarget /\ LocksHeld /\ ScorerIsCurrent
    BY DEF Init, RequestHasTarget, HasTarget, LocksHeld, HoldsLocks, ScorerIsCurrent, ScoresCurrent
  <1>5. ProbesMatchStatus /\ OneLiveSession /\ NoRecallWhileHeld
    BY DEF Init, ProbesMatchStatus, OneLiveSession, NoRecallWhileHeld,
       LiveSessions, Live
  <1> QED
    BY <1>1, <1>2, <1>3, <1>4, <1>5 DEF IInv, TypeOK

------------------------------------------------------------------------------
(* Types.  A handler that ends keeps them by EndTypes, so only what else it   *)
(* writes has to be looked at.                                                *)

\* What a step leaves alone keeps its type.
LEMMA KeepTypes ==
  /\ CardTypes /\ UNCHANGED cardVars => CardTypes'
  /\ RowTypes /\ UNCHANGED rowVars => RowTypes'
  /\ LockTypes /\ UNCHANGED lockVars => LockTypes'
  BY DEF CardTypes, RowTypes, LockTypes, cardVars, rowVars, lockVars

\* A call of a well-typed request, entering a stage, keeps the requests typed.
LEMMA CallRequestTypes ==
  ASSUME RequestTypes, NEW r \in Requests, NEW q \in RequestRecords,
         NEW stage \in Stages, Call(r, q, stage), work' \in [Requests -> Works]
  PROVE  RequestTypes'
  BY NullRecords DEF RequestTypes, Call, GoTo, ReplyKinds

\* Every call of a handler keeps the types.
LEMMA CallTypes ==
  ASSUME TypeOK, NEW r \in Requests, Calls(r)
  PROVE  TypeOK'
  <1> USE DEF Ops, Stages
  <1>1. CASE StartCall(r)
    <2>1. PICK practice \in BOOLEAN :
            Call(r, [NoRequest EXCEPT !.op = "start", !.practice = practice], "read")
      BY <1>1 DEF StartCall
    <2>2. [NoRequest EXCEPT !.op = "start", !.practice = practice] \in RequestRecords
      BY NullRecords DEF RequestRecords
    <2>3. RequestTypes'
      BY <1>1, <2>1, <2>2, CallRequestTypes DEF StartCall, TypeOK, RequestTypes
    <2> QED
      BY <1>1, <2>3, KeepTypes DEF StartCall, TypeOK
  <1>2. CASE DraftCall(r)
    <2>1. PICK s \in Sessions, t \in TurnIndices :
            /\ Call(r, [NoRequest EXCEPT !.op = "draft", !.session = s, !.turn = t],
                    "draft")
            /\ rowLock' = [rowLock EXCEPT ![s] = r]
            /\ UNCHANGED <<cardVars, rowVars, accountLock, cardLock, consent, work>>
      BY <1>2 DEF DraftCall
    <2>2. [NoRequest EXCEPT !.op = "draft", !.session = s, !.turn = t]
            \in RequestRecords
      BY NullRecords, InputAssumption DEF RequestRecords, Turns
    <2>3. RequestTypes'
      BY <2>1, <2>2, CallRequestTypes DEF TypeOK, RequestTypes
    <2>4. LockTypes'
      BY <2>1 DEF TypeOK, LockTypes
    <2> QED
      BY <2>1, <2>3, <2>4, KeepTypes DEF TypeOK
  <1>3. CASE AbandonCall(r)
    <2>1. PICK s \in Sessions :
            Call(r, [NoRequest EXCEPT !.op = "abandon", !.session = s], "abandon")
      BY <1>3 DEF AbandonCall
    <2>2. [NoRequest EXCEPT !.op = "abandon", !.session = s] \in RequestRecords
      BY NullRecords DEF RequestRecords
    <2>3. RequestTypes'
      BY <1>3, <2>1, <2>2, CallRequestTypes DEF AbandonCall, TypeOK, RequestTypes
    <2> QED
      BY <1>3, <2>3, KeepTypes DEF AbandonCall, TypeOK
  <1>4. CASE AnswerCall(r)
    <2>1. PICK s \in Sessions, t \in TurnIndices, x \in Texts :
            /\ Call(r, [NoRequest EXCEPT !.op = "answer", !.session = s,
                                         !.turn = t, !.text = x], "probes")
            /\ Remember(r, [NoWork EXCEPT !.status = status[s],
                                          !.answer[0] = answer[s][0]])
      BY <1>4 DEF AnswerCall
    <2>2. [NoRequest EXCEPT !.op = "answer", !.session = s, !.turn = t, !.text = x]
            \in RequestRecords
      BY NullRecords, InputAssumption DEF RequestRecords, Turns
    <2>3. work' \in [Requests -> Works]
      <3>1. 0 \in Turns
        BY BoundsAssumption DEF Turns
      <3>2. answer[s][0] \in Texts \cup {None} /\ status[s] \in Live \cup {"none", "complete", "abandoned"}
        BY <3>1 DEF TypeOK, RowTypes
      <3>3. [NoWork EXCEPT !.status = status[s], !.answer[0] = answer[s][0]] \in Works
        BY <3>2, NullRecords DEF Works
      <3> QED
        BY <2>1, <3>3 DEF TypeOK, RequestTypes, Remember
    <2>4. RequestTypes'
      BY <2>1, <2>2, <2>3, CallRequestTypes DEF TypeOK
    <2> QED
      BY <1>4, <2>4, KeepTypes DEF AnswerCall, TypeOK
  <1>5. ASSUME NEW op \in Ops, NEW done \in [Sessions -> Texts \cup {None}],
               AfterScore(r, op, done)
        PROVE  TypeOK'
    <2>1. PICK s \in Sessions, x \in Texts, stage \in {"account", "replay"} :
            Call(r, [NoRequest EXCEPT !.op = op, !.session = s, !.text = x], stage)
      BY <1>5 DEF AfterScore
    <2>2. [NoRequest EXCEPT !.op = op, !.session = s, !.text = x] \in RequestRecords
      BY NullRecords DEF RequestRecords
    <2>3. RequestTypes'
      BY <1>5, <2>1, <2>2, CallRequestTypes DEF AfterScore, TypeOK, RequestTypes
    <2> QED
      BY <1>5, <2>3, KeepTypes DEF AfterScore, TypeOK
  <1> QED
    BY <1>1, <1>2, <1>3, <1>4, <1>5
       DEF Calls, ReattemptCall, CoachingCall, TypeOK, RowTypes

\* What a handler reads again, and the turn it expects from it, are well typed.
LEMMA WorkTypes ==
  ASSUME RowTypes, NEW w \in Works
  PROVE  /\ ExpectedTurn(w) \in Turns
         /\ \A s \in Sessions : Reloaded(w, s) \in Works
  <1>1. ExpectedTurn(w) \in Turns
    BY BoundsAssumption DEF Works, ExpectedTurn, Turns
  <1>2. ASSUME NEW s \in Sessions PROVE Reloaded(w, s) \in Works
    <2>1. [t \in Turns |-> IF t \in 1 .. w.probes THEN w.answer[t] ELSE answer[s][t]]
            \in [Turns -> Texts \cup {None}]
      BY DEF RowTypes, Works
    <2> QED
      BY <2>1 DEF RowTypes, Works, Reloaded
  <1> QED
    BY <1>1, <1>2

\* What a response leaves typed.
Replied == LockTypes /\ RequestTypes

\* Every response a handler gives is well typed, and so is the released state.
LEMMA ReplyTypes ==
  ASSUME LockTypes, RequestTypes, CardTypes, NEW r \in Requests
  PROVE  /\ Refuse(r) => Replied'
         /\ \A kind \in ReplyKinds : End(r, Reply(kind)) => Replied'
         /\ \A turn \in Turns, f \in BOOLEAN, d \in Drafts :
              Resume(r, turn, f, d) => Replied'
         /\ \A turn \in Turns : AskAgain(r, turn) => Replied'
         /\ Report(r) => Replied'
  <1>1. \A turn \in Turns, f \in BOOLEAN, d \in Drafts :
          [Reply("resumed") EXCEPT !.turn = turn, !.isFollowUp = f, !.draft = d]
            \in Replies
    BY NullRecords DEF Replies, ReplyKinds
  <1>2. \A turn \in Turns : [Reply("follow_up") EXCEPT !.turn = turn] \in Replies
    BY NullRecords DEF Replies, ReplyKinds
  <1>3. [Reply("completed") EXCEPT !.schedule = schedule] \in Replies
    BY NullRecords DEF Replies, ReplyKinds, CardTypes
  <1>4. \A kind \in ReplyKinds : Reply(kind) \in Replies
    BY NullRecords
  <1>5. \A rep \in Replies : End(r, rep) => Replied'
    BY EndTypes DEF Replied
  <1> QED
    BY <1>1, <1>2, <1>3, <1>4, <1>5
       DEF Refuse, Resume, AskAgain, Report, ReplyKinds

\* Entering a stage with well-typed working data keeps the requests typed.
LEMMA MoveTypes ==
  ASSUME RequestTypes, NEW r \in Requests, NEW stage \in Stages, GoTo(r, stage),
         work' \in [Requests -> Works], req' \in [Requests -> RequestRecords],
         UNCHANGED reply
  PROVE  RequestTypes'
  BY DEF RequestTypes, GoTo

\* Resuming the live session, or refusing to, keeps locks and requests typed.
LEMMA ResumeLiveTypes ==
  ASSUME TypeOK, NEW r \in Requests, NEW account \in Requests \cup {None},
         ResumeLive(r, account)
  PROVE  Replied'
  <1>1. PICK s \in Sessions : s \in LiveSessions /\
          IF setup[s].practice # req[r].practice THEN Refuse(r)
          ELSE IF status[s] = "open" THEN Resume(r, 0, FALSE, draft[s])
          ELSE /\ GoTo(r, "resume")
               /\ Remember(r, [work[r] EXCEPT !.status = "awaiting",
                                              !.draft = draft[s]])
               /\ req' = [req EXCEPT ![r].session = s]
               /\ accountLock' = account
               /\ UNCHANGED <<cardLock, rowLock, reply>>
    BY DEF ResumeLive, LiveSessions
  <1>2. CASE Refuse(r)
    BY <1>2, ReplyTypes DEF TypeOK
  <1>3. CASE Resume(r, 0, FALSE, draft[s])
    <2>1. 0 \in Turns /\ draft[s] \in Drafts
      BY BoundsAssumption DEF Turns, TypeOK, RowTypes
    <2> QED
      BY <1>3, <2>1, ReplyTypes DEF TypeOK
  <1>4. CASE /\ GoTo(r, "resume")
             /\ Remember(r, [work[r] EXCEPT !.status = "awaiting",
                                            !.draft = draft[s]])
             /\ req' = [req EXCEPT ![r].session = s]
             /\ accountLock' = account
             /\ UNCHANGED <<cardLock, rowLock, reply>>
    <2>1. work' \in [Requests -> Works]
      <3>1. work[r] \in Works /\ draft[s] \in Drafts
        BY DEF TypeOK, RowTypes, RequestTypes
      <3>2. [work[r] EXCEPT !.status = "awaiting", !.draft = draft[s]] \in Works
        BY <3>1 DEF Works, Live
      <3> QED
        BY <1>4, <3>2 DEF TypeOK, RequestTypes, Remember
    <2>2. req' \in [Requests -> RequestRecords]
      BY <1>4 DEF TypeOK, RequestTypes, RequestRecords
    <2>3. RequestTypes'
      BY <1>4, <2>1, <2>2, MoveTypes DEF TypeOK, Stages
    <2> QED
      BY <1>4, <2>3 DEF Replied, TypeOK, LockTypes
  <1> QED
    BY <1>1, <1>2, <1>3, <1>4

\* The steps of start_session up to the card lock keep the types.
LEMMA StartTypes ==
  ASSUME TypeOK, RequestHasTarget, NEW r \in Requests,
         StartRead(r) \/ ResumeRead(r) \/ StartTakeAccount(r) \/ GenerateQuestion(r)
  PROVE  Replied'
  <1> USE DEF Stages
  <1>0. Refuse(r) => Replied'
    BY ReplyTypes DEF TypeOK
  <1>1. CASE StartRead(r)
    <2>1. CASE ResumeLive(r, accountLock)
      BY <2>1, ResumeLiveTypes DEF TypeOK, LockTypes
    <2>2. CASE /\ GoTo(r, IF CardIsCached(r) \/ question = None THEN "account"
                                                             ELSE "insert")
               /\ UNCHANGED <<lockVars, req, work, reply>>
      <3>1. PICK stage \in Stages : GoTo(r, stage)
        BY <2>2
      <3> QED
        BY <2>2, <3>1, MoveTypes, KeepTypes DEF TypeOK, RequestTypes, Replied
    <2> QED
      BY <1>0, <1>1, <2>1, <2>2 DEF StartRead
  <1>2. CASE ResumeRead(r)
    <2> DEFINE seen == [Reloaded(work[r], req[r].session)
                          EXCEPT !.status = work[r].status]
    <2>1. req[r].session \in Sessions /\ work[r] \in Works
      BY <1>2 DEF ResumeRead, At, RequestHasTarget, HasTarget, TypeOK, RequestTypes
    <2>2. Reloaded(work[r], req[r].session) \in Works
      BY <2>1, WorkTypes DEF TypeOK
    <2>3. seen \in Works
      BY <2>1, <2>2 DEF Works
    <2>4. ExpectedTurn(seen) \in Turns /\ work[r].draft \in Drafts
      BY <2>1, <2>3, WorkTypes DEF TypeOK, Works
    <2>5. Resume(r, ExpectedTurn(seen), TRUE, work[r].draft)
      BY <1>2 DEF ResumeRead
    <2> QED
      BY <2>4, <2>5, ReplyTypes DEF TypeOK
  <1>3. CASE StartTakeAccount(r)
    <2>1. CASE ResumeLive(r, r)
      BY <2>1, ResumeLiveTypes
    <2>2. CASE /\ EnterAccount(r)
               /\ GoTo(r, IF question = None THEN "generate" ELSE "insert")
               /\ Remember(r, [work[r] EXCEPT !.generated =
                                 IF question = None THEN inputs ELSE None])
               /\ UNCHANGED <<req, reply>>
      <3>1. PICK stage \in Stages : GoTo(r, stage)
        BY <2>2
      <3>2. (IF question = None THEN inputs ELSE None) \in Questions
        BY DEF TypeOK, CardTypes, Questions
      <3>3. work' \in [Requests -> Works]
        <4>1. \A g \in Questions : [work[r] EXCEPT !.generated = g] \in Works
          BY DEF TypeOK, RequestTypes, Works
        <4> QED
          BY <2>2, <3>2, <4>1 DEF TypeOK, RequestTypes, Remember
      <3>4. RequestTypes'
        BY <2>2, <3>1, <3>3, MoveTypes DEF TypeOK, RequestTypes
      <3> QED
        BY <2>2, <3>4 DEF TypeOK, LockTypes, EnterAccount, Replied
    <2> QED
      BY <1>0, <1>3, <2>1, <2>2 DEF StartTakeAccount, RefusedConsent
  <1>4. CASE GenerateQuestion(r)
    <2>1. CASE GoTo(r, "insert") /\ UNCHANGED <<lockVars, req, work, reply>>
      BY <2>1, MoveTypes, KeepTypes DEF TypeOK, RequestTypes, Replied
    <2> QED
      BY <1>0, <1>4, <2>1 DEF GenerateQuestion
  <1> QED
    BY <1>1, <1>2, <1>3, <1>4

\* The step of start_session under the card lock keeps the types.
LEMMA InsertTypes ==
  ASSUME TypeOK, NEW r \in Requests, StartInsert(r)
  PROVE  TypeOK'
  <1> USE DEF ReplyKinds
  <1>1. CASE Replied' /\ UNCHANGED <<cardVars, rowVars>>
    BY <1>1, KeepTypes DEF StartInsert, TypeOK, Replied
  <1>2. Refuse(r) \/ End(r, Reply("lost")) => Replied'
    BY ReplyTypes DEF TypeOK
  <1>3. ASSUME NEW s \in LiveSessions,
               Resume(r, IF status[s] = "open" THEN 0 ELSE probes[s],
                      status[s] = "awaiting", draft[s])
        PROVE  Replied'
    <2>0. s \in Sessions
      BY DEF LiveSessions
    <2>1. (IF status[s] = "open" THEN 0 ELSE probes[s]) \in Turns
      BY <2>0, BoundsAssumption DEF TypeOK, RowTypes, Turns
    <2>2. (status[s] = "awaiting") \in BOOLEAN /\ draft[s] \in Drafts
      BY DEF TypeOK, RowTypes, LiveSessions
    <2> QED
      BY <1>3, <2>1, <2>2, ReplyTypes DEF TypeOK
  <1>4. ASSUME GoTo(r, "read"), Remember(r, [NoWork EXCEPT !.stale = 1]),
               Release(r), UNCHANGED <<req, reply>>
        PROVE  Replied'
    <2>1. work' \in [Requests -> Works]
      <3>1. [NoWork EXCEPT !.stale = 1] \in Works
        BY NullRecords DEF Works
      <3> QED
        BY <1>4, <3>1 DEF TypeOK, RequestTypes, Remember
    <2>2. RequestTypes'
      BY <1>4, <2>1, MoveTypes DEF TypeOK, RequestTypes, Stages
    <2> QED
      BY <1>4, <2>2 DEF TypeOK, LockTypes, Release, Unlocked, Replied
  <1>5. CASE InsertSession(r)
    <2>1. PICK s \in Sessions, contract \in Contracts :
            /\ question' = IF question = None THEN work[r].generated ELSE question
            /\ status' = [status EXCEPT ![s] = "open"]
            /\ setup' = [setup EXCEPT ![s] = [practice |-> req[r].practice,
                                              contract |-> contract,
                                              asked |-> question']]
            /\ End(r, Reply("ok"))
            /\ UNCHANGED <<lifecycle, inputs, recallHeld, schedule, lastReviewed,
                           mastery, clock, answer, probes, draft, accuracy,
                           endedAt, focus, reattempt, coaching>>
      BY <1>5 DEF InsertSession
    <2>2. question' \in Questions
      BY <2>1 DEF TypeOK, CardTypes, RequestTypes, Works
    <2>3. CardTypes'
      BY <2>1, <2>2 DEF TypeOK, CardTypes
    <2>4. [practice |-> req[r].practice, contract |-> contract, asked |-> question']
            \in Setups
      BY <2>2, InputAssumption DEF TypeOK, RequestTypes, RequestRecords, Setups
    <2>5. RowTypes'
      BY <2>1, <2>4 DEF TypeOK, RowTypes, Live
    <2>6. Replied'
      BY <2>1, ReplyTypes DEF TypeOK
    <2> QED
      BY <1>5, <2>3, <2>5, <2>6 DEF StartInsert, TypeOK, Replied
  <1> QED
    BY <1>1, <1>2, <1>3, <1>4, <1>5 DEF StartInsert

\* save_draft and abandon_session keep the types.
LEMMA DraftAbandonTypes ==
  ASSUME TypeOK, NEW r \in Requests, DraftWrite(r) \/ AbandonCommit(r)
  PROVE  TypeOK'
  <1> USE DEF ReplyKinds
  <1>1. CASE DraftWrite(r)
    <2>1. req[r].turn \in Drafts
      BY DEF TypeOK, RequestTypes, RequestRecords, Drafts
    <2>2. RowTypes'
      BY <1>1, <2>1 DEF DraftWrite, TypeOK, RowTypes
    <2>3. Replied'
      BY <1>1, ReplyTypes DEF DraftWrite, TypeOK
    <2> QED
      BY <1>1, <2>2, <2>3, KeepTypes DEF DraftWrite, TypeOK, Replied
  <1>2. CASE AbandonCommit(r)
    <2>1. Replied'
      BY <1>2, ReplyTypes DEF AbandonCommit, TypeOK
    <2>2. CardTypes' /\ RowTypes'
      <3>1. clock' \in Nat /\ recallHeld' = recallHeld
        BY <1>2 DEF AbandonCommit, TypeOK, CardTypes
      <3>2. CardTypes'
        BY <1>2, <3>1 DEF AbandonCommit, TypeOK, CardTypes
      <3>3. status' \in [Sessions -> Live \cup {"none", "complete", "abandoned"}]
        BY <1>2 DEF AbandonCommit, TypeOK, RowTypes
      <3>4. endedAt' \in [Sessions -> Nat]
        <4>1. clock + 1 \in Nat
          BY DEF TypeOK, CardTypes
        <4>2. \/ endedAt' = endedAt
              \/ endedAt' = [endedAt EXCEPT ![req[r].session] = clock + 1]
          BY <1>2 DEF AbandonCommit
        <4> QED
          BY <4>1, <4>2 DEF TypeOK, RowTypes
      <3>5. RowTypes'
        BY <1>2, <3>3, <3>4 DEF AbandonCommit, TypeOK, RowTypes
      <3> QED
        BY <3>2, <3>5
    <2> QED
      BY <1>2, <2>1, <2>2 DEF AbandonCommit, TypeOK, Replied
  <1> QED
    BY <1>1, <1>2

\* Calling the scorer under the card lock keeps locks and requests typed.
LEMMA ScoreUnderCardTypes ==
  ASSUME TypeOK, NEW r \in Requests, NEW w \in Works, ScoreUnderCard(r, w)
  PROVE  Replied'
  <1>1. CASE Refuse(r)
    BY <1>1, ReplyTypes DEF TypeOK
  <1>2. CASE /\ cardLock' = r
             /\ GoTo(r, "provider") /\ Remember(r, w)
             /\ UNCHANGED <<accountLock, rowLock, req, reply>>
    <2>1. RequestTypes'
      BY <1>2, MoveTypes DEF TypeOK, RequestTypes, Remember, Stages
    <2> QED
      BY <1>2, <2>1 DEF TypeOK, LockTypes, Replied
  <1> QED
    BY <1>1, <1>2 DEF ScoreUnderCard

\* The probe that a repeated turn is answered with is a turn.
LEMMA ProbeAfterTypes ==
  ASSUME NEW w \in Works, NEW q \in RequestRecords, RepeatsTurn(w, q)
  PROVE  ProbeAfter(w, q) \in Turns
  BY BoundsAssumption
     DEF RepeatsTurn, AnsweredTurn, ProbeAfter, Works, RequestRecords, Turns

\* submit_answer keeps the types up to the account lock.
LEMMA AnswerReadTypes ==
  ASSUME TypeOK, RequestHasTarget, NEW r \in Requests,
         AnswerReadProbes(r) \/ AnswerReplay(r) \/ ScorerTakeAccount(r)
  PROVE  Replied'
  <1> USE DEF ReplyKinds, Stages
  <1>1. /\ Refuse(r) => Replied'
        /\ Report(r) => Replied'
        /\ End(r, Reply("mismatch")) => Replied'
    BY ReplyTypes DEF TypeOK
  <1>2. CASE AnswerReadProbes(r)
    <2> DEFINE s == req[r].session
               w == [work[r] EXCEPT !.probes = probes[s],
                        !.answer = [answer[s] EXCEPT ![0] = work[r].answer[0]]]
    <2>1. s \in Sessions /\ work[r] \in Works /\ req[r] \in RequestRecords
      BY <1>2 DEF AnswerReadProbes, At, RequestHasTarget, HasTarget, TypeOK, RequestTypes
    <2>2. work[r].answer[0] \in Texts \cup {None}
      BY <2>1, BoundsAssumption DEF Works, Turns
    <2>3. [answer[s] EXCEPT ![0] = work[r].answer[0]] \in [Turns -> Texts \cup {None}]
      BY <2>1, <2>2 DEF TypeOK, RowTypes
    <2>4. w \in Works
      BY <2>1, <2>3 DEF TypeOK, RowTypes, Works
    <2>5. RepeatsTurn(w, req[r]) => ProbeAfter(w, req[r]) \in Turns
      BY <2>1, <2>4, ProbeAfterTypes
    <2>6. RepeatsTurn(w, req[r]) /\ AskAgain(r, ProbeAfter(w, req[r])) => Replied'
      BY <2>5, ReplyTypes DEF TypeOK
    <2>7. ASSUME NEW stage \in Stages, GoTo(r, stage), Remember(r, w),
                 UNCHANGED <<lockVars, req, reply>>
          PROVE  Replied'
      <3>1. work' \in [Requests -> Works]
        BY <2>4, <2>7 DEF TypeOK, RequestTypes, Remember
      <3> QED
        BY <2>7, <3>1, MoveTypes, KeepTypes DEF TypeOK, RequestTypes, Replied
    <2> QED
      BY <1>1, <1>2, <2>6, <2>7 DEF AnswerReadProbes
  <1>3. CASE AnswerReplay(r)
    BY <1>1, <1>3 DEF AnswerReplay, ReportOrRefuse
  <1>4. CASE ScorerTakeAccount(r)
    <2>1. CASE EnterAccount(r) /\ GoTo(r, "card") /\ UNCHANGED <<req, work, reply>>
      BY <2>1, MoveTypes
         DEF TypeOK, RequestTypes, LockTypes, EnterAccount, Replied
    <2> QED
      BY <1>1, <1>4, <2>1 DEF ScorerTakeAccount, RefusedConsent
  <1> QED
    BY <1>2, <1>3, <1>4

\* submit_answer keeps the types from the card lock to the scorer's answer.
LEMMA AnswerScoreTypes ==
  ASSUME TypeOK, RequestHasTarget, NEW r \in Requests,
         AnswerTakeCard(r) \/ AnswerScored(r)
  PROVE  Replied'
  <1> USE DEF ReplyKinds, Stages
  <1>0. work[r] \in Works /\ req[r] \in RequestRecords
    BY DEF TypeOK, RequestTypes
  <1>1. /\ Refuse(r) => Replied'
        /\ Report(r) => Replied'
        /\ End(r, Reply("mismatch")) => Replied'
    BY ReplyTypes DEF TypeOK
  <1>2. CASE AnswerTakeCard(r)
    <2> DEFINE w == Reloaded(work[r], req[r].session)
    <2>1. req[r].session \in Sessions
      BY <1>2 DEF AnswerTakeCard, At, RequestHasTarget, HasTarget
    <2>2. w \in Works
      BY <1>0, <2>1, WorkTypes DEF TypeOK
    <2> HIDE DEF w
    <2>3. RepeatsTurn(w, req[r]) => ProbeAfter(w, req[r]) \in Turns
      BY <1>0, <2>2, ProbeAfterTypes
    <2>4. RepeatsTurn(w, req[r]) /\ AskAgain(r, ProbeAfter(w, req[r])) => Replied'
      BY <2>3, ReplyTypes DEF TypeOK
    <2>5. CASE ScoreUnderCard(r, w)
      BY <2>2, <2>5, ScoreUnderCardTypes
    <2> QED
      BY <1>1, <1>2, <2>4, <2>5 DEF AnswerTakeCard, ReportOrRefuse, w
  <1>3. CASE AnswerScored(r)
    <2>1. ASSUME NEW verdict \in Qualities \cup {"follow_up"},
                 GoTo(r, "write"),
                 Remember(r, [work[r] EXCEPT !.verdict = verdict]),
                 UNCHANGED <<lockVars, req, reply>>
          PROVE  Replied'
      <3>1. [work[r] EXCEPT !.verdict = verdict] \in Works
        BY <1>0 DEF Works
      <3>2. work' \in [Requests -> Works]
        BY <2>1, <3>1 DEF TypeOK, RequestTypes, Remember
      <3> QED
        BY <2>1, <3>2, MoveTypes, KeepTypes DEF TypeOK, RequestTypes, Replied
    <2> QED
      BY <1>1, <1>3, <2>1 DEF AnswerScored
  <1> QED
    BY <1>2, <1>3

\* The commit of a scored answer keeps the types: a probe is written only below
\* the follow-up cap.
LEMMA AnswerCommitTypes ==
  ASSUME TypeOK, RequestHasTarget, ScorerIsCurrent, NEW r \in Requests,
         AnswerCommitFollowUp(r) \/ AnswerCommitComplete(r)
  PROVE  TypeOK'
  <1> DEFINE s == req[r].session
             t == ExpectedTurn(work[r])
  <1>0. /\ s \in Sessions /\ work[r] \in Works /\ req[r].text \in Texts
        /\ t \in Turns
    BY WorkTypes DEF AnswerCommitFollowUp, AnswerCommitComplete, At,
       RequestHasTarget, HasTarget, TypeOK, RequestTypes
  <1>1. [answer EXCEPT ![s][t] = req[r].text]
          \in [Sessions -> [Turns -> Texts \cup {None}]]
    BY <1>0 DEF TypeOK, RowTypes
  <1>2. CASE AnswerCommitFollowUp(r)
    <2>1. work[r].probes = probes[s] /\ probes[s] < MaxFollowUps
      BY <1>2 DEF AnswerCommitFollowUp, At, ScorerIsCurrent, ScoresCurrent
    <2>2. work[r].probes + 1 \in Turns
      BY <1>0, <2>1, BoundsAssumption DEF TypeOK, RowTypes, Turns
    <2>3. RowTypes'
      BY <1>0, <1>1, <1>2, <2>2
         DEF AnswerCommitFollowUp, TypeOK, RowTypes, Live, Drafts
    <2>4. Replied'
      BY <1>2, <2>2, ReplyTypes DEF AnswerCommitFollowUp, TypeOK
    <2> QED
      BY <1>2, <2>3, <2>4, KeepTypes DEF AnswerCommitFollowUp, TypeOK, Replied
  <1>3. CASE AnswerCommitComplete(r)
    <2>1. work[r].verdict \in Qualities
      BY <1>3 DEF AnswerCommitComplete
    <2>2. schedule' \in Seq(Qualities)
      BY <1>3, <2>1 DEF AnswerCommitComplete, NextSchedule, TypeOK, CardTypes
    <2>3. clock + 1 \in Nat
      BY DEF TypeOK, CardTypes
    <2>4. CardTypes'
      BY <1>0, <1>3, <2>2, <2>3 DEF AnswerCommitComplete, TypeOK, CardTypes
    <2>5. NextFocus(s, work[r].verdict) \in Nat
      <3>1. Cardinality({q \in Sessions : Coached(q)}) % 2 \in Nat
        <4>1. IsFiniteSet({q \in Sessions : Coached(q)})
          BY FiniteAssumption, FS_Subset
        <4> QED
          BY <4>1, FS_CardinalityType
      <3> QED
        BY <1>0, <3>1 DEF NextFocus, TypeOK, RowTypes
    <2>6. RowTypes'
      BY <1>0, <1>1, <1>3, <2>1, <2>3, <2>5
         DEF AnswerCommitComplete, TypeOK, RowTypes, Drafts
    <2>7. [Reply("completed") EXCEPT !.schedule = schedule'] \in Replies
      BY <2>2, NullRecords DEF Replies, ReplyKinds
    <2>8. Replied'
      BY <1>3, <2>7, EndTypes DEF AnswerCommitComplete, TypeOK, Replied
    <2> QED
      BY <1>3, <2>4, <2>6, <2>8 DEF AnswerCommitComplete, TypeOK, Replied
  <1> QED
    BY <1>2, <1>3

\* The steps of the re-attempt and of the coaching turn keep the types.
LEMMA CoachTypes ==
  ASSUME TypeOK, RequestHasTarget, NEW r \in Requests,
         \/ ReattemptReplay(r) \/ ReattemptTakeCard(r) \/ CoachingTakeCard(r)
         \/ CoachScored(r) \/ ReattemptCommit(r) \/ CoachingCommit(r)
  PROVE  TypeOK'
  <1> USE DEF ReplyKinds, Stages
  <1>0. work[r] \in Works
    BY DEF TypeOK, RequestTypes
  <1>1. Refuse(r) \/ End(r, Reply("ok")) => Replied'
    BY ReplyTypes DEF TypeOK
  <1>2. ScoreUnderCard(r, work[r]) => Replied'
    BY <1>0, ScoreUnderCardTypes
  <1>3. CASE ReattemptReplay(r) \/ ReattemptTakeCard(r) \/ CoachingTakeCard(r)
    <2>1. Replied'
      BY <1>1, <1>2, <1>3 DEF ReattemptReplay, ReattemptTakeCard,
         CoachingTakeCard, OkUnlessReviewedSince
    <2> QED
      BY <1>3, <2>1, KeepTypes DEF ReattemptReplay, ReattemptTakeCard,
         CoachingTakeCard, TypeOK, Replied
  <1>4. CASE CoachScored(r)
    <2>1. GoTo(r, "write") /\ UNCHANGED <<lockVars, req, work, reply>> => Replied'
      BY MoveTypes, KeepTypes DEF TypeOK, RequestTypes, Replied
    <2> QED
      BY <1>1, <1>4, <2>1, KeepTypes DEF CoachScored, TypeOK, Replied
  <1>5. CASE ReattemptCommit(r) \/ CoachingCommit(r)
    <2>1. req[r].session \in Sessions /\ req[r].text \in Texts
      BY <1>5 DEF ReattemptCommit, CoachingCommit, At, RequestHasTarget, HasTarget
    <2>2. CardTypes'
      BY <1>5, <2>1, KeepTypes
         DEF ReattemptCommit, CoachingCommit, TypeOK, CardTypes
    <2>3. RowTypes'
      BY <1>5, <2>1 DEF ReattemptCommit, CoachingCommit, TypeOK, RowTypes, Drafts
    <2> QED
      BY <1>1, <1>5, <2>2, <2>3 DEF ReattemptCommit, CoachingCommit, TypeOK, Replied
  <1> QED
    BY <1>3, <1>4, <1>5

\* The handlers of one critical section keep the types.
LEMMA EnvironmentTypes ==
  ASSUME TypeOK, Environment
  PROVE  TypeOK'
  <1>1. LockTypes' /\ RequestTypes'
    BY DEF Environment, OpenLearning, RecallHoldEnds, EditGrounding, ArchiveCard,
       RestoreCard, RecordConsent, KeepRequests, lockVars, reqVars, TypeOK,
       LockTypes, RequestTypes
  <1>2. RowTypes'
    BY KeepTypes DEF Environment, OpenLearning, RecallHoldEnds, EditGrounding,
       ArchiveCard, RestoreCard, RecordConsent, TypeOK
  <1>3. question' \in Questions /\ inputs' \in 0 .. MaxEdits
    <2>1. CASE EditGrounding
      <3>1. inputs' \in 0 .. MaxEdits
        BY <2>1, BoundsAssumption DEF EditGrounding, TypeOK, CardTypes
      <3> QED
        BY <2>1, <3>1 DEF EditGrounding, TypeOK, CardTypes, Questions
    <2>2. CASE UNCHANGED <<question, inputs>>
      BY <2>2 DEF TypeOK, CardTypes
    <2> QED
      BY <2>1, <2>2 DEF Environment, OpenLearning, RecallHoldEnds, ArchiveCard,
         RestoreCard, RecordConsent, cardVars
  <1>4. recallHeld' \in BOOLEAN /\ consent' \in BOOLEAN
    BY Zenon DEF Environment, OpenLearning, RecallHoldEnds, EditGrounding,
       ArchiveCard, RestoreCard, RecordConsent, cardVars, TypeOK, CardTypes
  <1>5. /\ lifecycle' \in {"active", "archived"}
        /\ UNCHANGED <<schedule, lastReviewed, mastery, clock>>
    BY DEF Environment, OpenLearning, RecallHoldEnds, EditGrounding, ArchiveCard,
       RestoreCard, RecordConsent, cardVars, TypeOK, CardTypes
  <1> QED
    BY <1>1, <1>2, <1>3, <1>4, <1>5 DEF TypeOK, CardTypes

\* Every step of a handler, and its crash, keeps the types.
LEMMA StepTypes ==
  ASSUME TypeOK, RequestHasTarget, ScorerIsCurrent, NEW r \in Requests,
         Step(r) \/ Crash(r)
  PROVE  TypeOK'
  <1>1. CASE Replied' /\ UNCHANGED <<cardVars, rowVars, consent>>
    BY <1>1, KeepTypes DEF TypeOK, Replied
  <1>2. CASE \/ StartRead(r) \/ ResumeRead(r) \/ StartTakeAccount(r)
             \/ GenerateQuestion(r)
    BY <1>1, <1>2, StartTypes
       DEF StartRead, ResumeRead, StartTakeAccount, GenerateQuestion
  <1>3. CASE AnswerReadProbes(r) \/ AnswerReplay(r) \/ ScorerTakeAccount(r)
    BY <1>1, <1>3, AnswerReadTypes
       DEF AnswerReadProbes, AnswerReplay, ScorerTakeAccount
  <1>4. CASE AnswerTakeCard(r) \/ AnswerScored(r)
    BY <1>1, <1>4, AnswerScoreTypes DEF AnswerTakeCard, AnswerScored
  <1>5. CASE Crash(r)
    BY <1>1, <1>5, ReplyTypes DEF Crash, ReplyKinds, TypeOK
  <1> QED
    BY <1>2, <1>3, <1>4, <1>5, InsertTypes, DraftAbandonTypes, AnswerCommitTypes,
       CoachTypes DEF Step

------------------------------------------------------------------------------
(* Frames.  A handler disturbs neither the progress nor the locks of another, *)
(* and while one handler holds the card lock no other one writes a session's   *)
(* status or probes.                                                           *)

Undisturbed(q) ==
  /\ pc'[q] = pc[q] /\ req'[q] = req[q] /\ work'[q] = work[q]
  /\ cardLock = q => cardLock' = q
  /\ accountLock = q => accountLock' = q
OthersUndisturbed(r) == \A q \in Requests \ {r} : Undisturbed(q)

\* Entering a stage, with or without new working data, leaves the others alone;
\* so does taking a lock that nobody holds.
LEMMA MoveFrame ==
  ASSUME TypeOK, NEW r \in Requests, NEW stage, GoTo(r, stage),
         work' = work \/ (\E w : Remember(r, w)),
         req' = req \/ (\E q : req' = [req EXCEPT ![r] = q]),
         cardLock' = cardLock \/ ~Held(cardLock) \/ Release(r),
         accountLock' = accountLock \/ ~Held(accountLock) \/ Release(r)
  PROVE  OthersUndisturbed(r)
  BY NullAssumption DEF OthersUndisturbed, Undisturbed, GoTo, Remember, Held,
     Release, Unlocked, TypeOK, RequestTypes, LockTypes

\* Every way of ending a request leaves the others alone.
LEMMA EndUndisturbed ==
  ASSUME TypeOK, NEW r \in Requests
  PROVE  /\ \A rep : End(r, rep) => OthersUndisturbed(r)
         /\ Refuse(r) \/ Report(r) \/ ReportOrRefuse(r)
              \/ OkUnlessReviewedSince(r) \/ RefusedConsent(r)
              => OthersUndisturbed(r)
         /\ \A turn, f, d : Resume(r, turn, f, d) => OthersUndisturbed(r)
         /\ \A turn : AskAgain(r, turn) => OthersUndisturbed(r)
  <1>1. ASSUME NEW rep, End(r, rep) PROVE OthersUndisturbed(r)
    BY <1>1, EndFrame DEF OthersUndisturbed, Undisturbed, TypeOK
  <1> QED
    BY <1>1 DEF Refuse, Report, ReportOrRefuse, OkUnlessReviewedSince,
       RefusedConsent, Resume, AskAgain

\* A new call, too, concerns only its own slot.
LEMMA CallFrame ==
  ASSUME TypeOK, NEW r \in Requests, Calls(r)
  PROVE  OthersUndisturbed(r)
  <1> USE DEF Call, GoTo, OthersUndisturbed, Undisturbed, TypeOK, RequestTypes,
              lockVars
  <1>1. CASE StartCall(r)
    BY <1>1 DEF StartCall
  <1>2. CASE DraftCall(r)
    BY <1>2 DEF DraftCall
  <1>3. CASE AbandonCall(r)
    BY <1>3 DEF AbandonCall
  <1>4. CASE AnswerCall(r)
    BY <1>4 DEF AnswerCall, Remember
  <1>5. CASE ReattemptCall(r) \/ CoachingCall(r)
    BY <1>5 DEF ReattemptCall, CoachingCall, AfterScore
  <1> QED
    BY <1>1, <1>2, <1>3, <1>4, <1>5 DEF Calls

\* The steps of start_session, save_draft and abandon_session.
LEMMA StartFrame ==
  ASSUME TypeOK, NEW r \in Requests,
         \/ StartRead(r) \/ ResumeRead(r) \/ StartTakeAccount(r)
         \/ GenerateQuestion(r) \/ StartInsert(r)
         \/ DraftWrite(r) \/ AbandonCommit(r)
  PROVE  OthersUndisturbed(r)
  <1>0. ASSUME NEW account, ResumeLive(r, account),
               account = accountLock \/ ~Held(accountLock)
        PROVE  OthersUndisturbed(r)
    <2>1. PICK s \in LiveSessions :
            IF setup[s].practice # req[r].practice THEN Refuse(r)
            ELSE IF status[s] = "open" THEN Resume(r, 0, FALSE, draft[s])
            ELSE /\ GoTo(r, "resume")
                 /\ Remember(r, [work[r] EXCEPT !.status = "awaiting",
                                                !.draft = draft[s]])
                 /\ req' = [req EXCEPT ![r].session = s]
                 /\ accountLock' = account
                 /\ UNCHANGED <<cardLock, rowLock, reply>>
      BY <1>0 DEF ResumeLive
    <2> QED
      BY <1>0, <2>1, EndUndisturbed, MoveFrame
  <1>1. CASE StartRead(r)
    <2>1. CASE /\ GoTo(r, IF CardIsCached(r) \/ question = None THEN "account"
                                                             ELSE "insert")
               /\ UNCHANGED <<lockVars, req, work, reply>>
      BY <2>1, MoveFrame DEF lockVars
    <2>2. CASE ResumeLive(r, accountLock)
      BY <1>0, <2>2
    <2> QED
      BY <1>1, <2>1, <2>2, EndUndisturbed DEF StartRead
  <1>2. CASE ResumeRead(r)
    BY <1>2, EndUndisturbed DEF ResumeRead
  <1>3. CASE StartTakeAccount(r)
    <2>1. CASE RefusedConsent(r) \/ Refuse(r)
      BY <2>1, EndUndisturbed
    <2>2. CASE ~Held(accountLock) /\ ResumeLive(r, r)
      BY <1>0, <2>2
    <2>3. CASE /\ EnterAccount(r)
               /\ GoTo(r, IF question = None THEN "generate" ELSE "insert")
               /\ Remember(r, [work[r] EXCEPT !.generated =
                                 IF question = None THEN inputs ELSE None])
               /\ UNCHANGED <<req, reply>>
      BY <2>3, MoveFrame DEF EnterAccount
    <2> QED
      BY <1>3, <2>1, <2>2, <2>3 DEF StartTakeAccount
  <1>4. CASE GenerateQuestion(r)
    BY <1>4, EndUndisturbed, MoveFrame DEF GenerateQuestion, lockVars
  <1>5. CASE StartInsert(r)
    <2>1. CASE InsertSession(r)
      BY <2>1, EndUndisturbed DEF InsertSession
    <2>2. CASE GoTo(r, "read") /\ Release(r) /\ req' = req /\ \E w : Remember(r, w)
      BY <2>2, MoveFrame
    <2> QED
      BY <1>5, <2>1, <2>2, EndUndisturbed DEF StartInsert
  <1>6. CASE DraftWrite(r) \/ AbandonCommit(r)
    BY <1>6, EndUndisturbed DEF DraftWrite, AbandonCommit
  <1> QED
    BY <1>1, <1>2, <1>3, <1>4, <1>5, <1>6

\* The steps of the three handlers that score or coach.
LEMMA ScoreFrame ==
  ASSUME TypeOK, NEW r \in Requests,
         \/ AnswerReadProbes(r) \/ AnswerReplay(r) \/ AnswerTakeCard(r)
         \/ AnswerScored(r) \/ AnswerCommitFollowUp(r) \/ AnswerCommitComplete(r)
         \/ ScorerTakeAccount(r) \/ CoachScored(r)
         \/ ReattemptReplay(r) \/ ReattemptTakeCard(r) \/ ReattemptCommit(r)
         \/ CoachingTakeCard(r) \/ CoachingCommit(r)
  PROVE  OthersUndisturbed(r)
  <1>0. ASSUME NEW w, ScoreUnderCard(r, w), ~Held(cardLock)
        PROVE  OthersUndisturbed(r)
    BY <1>0, EndUndisturbed, MoveFrame DEF ScoreUnderCard
  <1>1. CASE AnswerReadProbes(r)
    <2>1. CASE req' = req /\ lockVars' = lockVars
               /\ (GoTo(r, "replay") \/ GoTo(r, "account"))
               /\ \E w : Remember(r, w)
      BY <2>1, MoveFrame DEF lockVars
    <2> QED
      BY <1>1, <2>1, EndUndisturbed DEF AnswerReadProbes
  <1>2. CASE AnswerTakeCard(r)
    BY <1>0, <1>2, EndUndisturbed DEF AnswerTakeCard
  <1>3. CASE AnswerScored(r)
    BY <1>3, EndUndisturbed, MoveFrame DEF AnswerScored, lockVars
  <1>4. CASE ScorerTakeAccount(r) \/ CoachScored(r)
    BY <1>4, EndUndisturbed, MoveFrame
       DEF ScorerTakeAccount, CoachScored, EnterAccount, lockVars
  <1>5. CASE ReattemptTakeCard(r) \/ CoachingTakeCard(r)
    BY <1>0, <1>5, EndUndisturbed DEF ReattemptTakeCard, CoachingTakeCard
  <1>6. CASE \/ AnswerReplay(r) \/ AnswerCommitFollowUp(r)
             \/ AnswerCommitComplete(r) \/ ReattemptReplay(r)
             \/ ReattemptCommit(r) \/ CoachingCommit(r)
    BY <1>6, EndUndisturbed DEF AnswerReplay, AnswerCommitFollowUp,
       AnswerCommitComplete, ReattemptReplay, ReattemptCommit, CoachingCommit
  <1> QED
    BY <1>1, <1>2, <1>3, <1>4, <1>5, <1>6

\* Whatever a handler does, the other requests stay where they are.
LEMMA StepFrame ==
  ASSUME TypeOK, NEW r \in Requests, Calls(r) \/ Step(r) \/ Crash(r)
  PROVE  OthersUndisturbed(r)
  <1>1. CASE Crash(r)
    BY <1>1, EndUndisturbed DEF Crash
  <1>2. CASE Step(r)
    BY <1>2, StartFrame, ScoreFrame DEF Step
  <1> QED
    BY <1>1, <1>2, CallFrame

------------------------------------------------------------------------------
(* The step of a handler keeps its own part of the invariant.                 *)

Own(r) == HasTarget(r) /\ HoldsLocks(r) /\ ScoresCurrent(r)

\* A handler that has ended owes nothing.
LEMMA EndOwn ==
  ASSUME TypeOK, NEW r \in Requests
  PROVE  /\ \A rep : End(r, rep) => Own(r)'
         /\ Refuse(r) \/ Report(r) \/ ReportOrRefuse(r)
              \/ OkUnlessReviewedSince(r) \/ RefusedConsent(r) => Own(r)'
         /\ \A turn, f, d : Resume(r, turn, f, d) => Own(r)'
         /\ \A turn : AskAgain(r, turn) => Own(r)'
  <1>1. ASSUME NEW rep, End(r, rep) PROVE Own(r)'
    BY <1>1, EndFrame DEF Own, HasTarget, HoldsLocks, ScoresCurrent, TypeOK
  <1> QED
    BY <1>1 DEF Refuse, Report, ReportOrRefuse, OkUnlessReviewedSince,
       RefusedConsent, Resume, AskAgain

\* Stages at which nothing is held yet need only the request to keep its target.
LEMMA MoveOwn ==
  ASSUME TypeOK, NEW r \in Requests, HasTarget(r), pc[r] # "idle",
         NEW stage \in {"read", "account", "insert", "replay"}, GoTo(r, stage),
         req' = req
  PROVE  Own(r)'
  BY DEF TypeOK, RequestTypes, GoTo, Own, HasTarget, HoldsLocks, ScoresCurrent

\* A call fixes the session, and the text when there is something to score.
LEMMA CallOwn ==
  ASSUME TypeOK, NEW r \in Requests, Calls(r)
  PROVE  Own(r)'
  <1> USE DEF Call, GoTo, Own, HasTarget, HoldsLocks, ScoresCurrent, Ops,
              NoRequest, TypeOK, RequestTypes
  <1>1. CASE StartCall(r)
    BY <1>1 DEF StartCall
  <1>2. CASE DraftCall(r)
    BY <1>2 DEF DraftCall
  <1>3. CASE AbandonCall(r)
    BY <1>3 DEF AbandonCall
  <1>4. CASE AnswerCall(r)
    BY <1>4 DEF AnswerCall
  <1>5. ASSUME NEW op \in {"reattempt", "coaching"}, NEW done,
               AfterScore(r, op, done)
        PROVE  Own(r)'
    <2>1. PICK s \in Sessions, x \in Texts, stage \in {"account", "replay"} :
            Call(r, [NoRequest EXCEPT !.op = op, !.session = s, !.text = x], stage)
      BY <1>5 DEF AfterScore
    <2>2. /\ pc'[r] = stage /\ req'[r].op = op
          /\ req'[r].session = s /\ req'[r].text = x
      BY <2>1
    <2> QED
      BY <2>2
  <1> HIDE DEF Call, Own, HasTarget, HoldsLocks, ScoresCurrent, TypeOK
  <1> QED
    BY <1>1, <1>2, <1>3, <1>4, <1>5 DEF Calls, ReattemptCall, CoachingCall

\* The steps of start_session, save_draft and abandon_session.
LEMMA StartOwn ==
  ASSUME TypeOK, NEW r \in Requests, HasTarget(r), HoldsLocks(r),
         \/ StartRead(r) \/ ResumeRead(r) \/ StartTakeAccount(r)
         \/ GenerateQuestion(r) \/ StartInsert(r)
         \/ DraftWrite(r) \/ AbandonCommit(r)
  PROVE  Own(r)'
  <1>0. ASSUME NEW account, ResumeLive(r, account), pc[r] # "idle",
               req[r].op = "start"
        PROVE  Own(r)'
    <2>1. PICK s \in LiveSessions :
            IF setup[s].practice # req[r].practice THEN Refuse(r)
            ELSE IF status[s] = "open" THEN Resume(r, 0, FALSE, draft[s])
            ELSE /\ GoTo(r, "resume")
                 /\ Remember(r, [work[r] EXCEPT !.status = "awaiting",
                                                !.draft = draft[s]])
                 /\ req' = [req EXCEPT ![r].session = s]
                 /\ accountLock' = account
                 /\ UNCHANGED <<cardLock, rowLock, reply>>
      BY <1>0 DEF ResumeLive
    <2>2. CASE GoTo(r, "resume") /\ req' = [req EXCEPT ![r].session = s]
      <3>1. s \in Sessions
        BY DEF LiveSessions
      <3>2. pc'[r] = "resume" /\ req'[r].session = s /\ req'[r].op = "start"
        BY <1>0, <2>2 DEF GoTo, TypeOK, RequestTypes, RequestRecords
      <3> QED
        BY <3>1, <3>2 DEF Own, HasTarget, HoldsLocks, ScoresCurrent, Ops
    <2> QED
      BY <2>1, <2>2, EndOwn
  <1>1. CASE StartRead(r)
    <2>1. pc[r] # "idle" /\ req[r].op = "start"
      BY <1>1 DEF StartRead, At
    <2> QED
      BY <1>0, <1>1, <2>1, EndOwn, MoveOwn DEF StartRead
  <1>2. CASE ResumeRead(r)
    BY <1>2, EndOwn DEF ResumeRead
  <1>3. CASE StartTakeAccount(r)
    <2>1. pc[r] # "idle" /\ req[r].op = "start"
      BY <1>3 DEF StartTakeAccount, At
    <2>2. CASE /\ EnterAccount(r)
               /\ GoTo(r, IF question = None THEN "generate" ELSE "insert")
               /\ req' = req /\ consent' = consent
      BY <2>1, <2>2 DEF EnterAccount, GoTo, TypeOK, RequestTypes, Own, HasTarget,
         HoldsLocks, ScoresCurrent, Ops
    <2> QED
      BY <1>0, <1>3, <2>1, <2>2, EndOwn DEF StartTakeAccount
  <1>4. CASE GenerateQuestion(r)
    BY <1>4, EndOwn, MoveOwn DEF GenerateQuestion, At
  <1>5. CASE StartInsert(r)
    BY <1>5, EndOwn, MoveOwn DEF StartInsert, InsertSession, At
  <1>6. CASE DraftWrite(r) \/ AbandonCommit(r)
    BY <1>6, EndOwn DEF DraftWrite, AbandonCommit
  <1> QED
    BY <1>1, <1>2, <1>3, <1>4, <1>5, <1>6

\* A handler that calls the scorer holds both locks, and its working data agrees
\* with the session it is about to score.
LEMMA ScoreUnderCardOwn ==
  ASSUME TypeOK, NEW r \in Requests, HasTarget(r), HoldsLocks(r),
         pc[r] = "card", NEW w \in Works, ScoreUnderCard(r, w), consent' = consent,
         UNCHANGED <<status, probes>>,
         req[r].op = "answer" =>
           LET s == req[r].session IN
           /\ status[s] \in Live
           /\ w.status = status[s]
           /\ w.probes = probes[s]
           /\ ExpectedTurn(w) = probes[s]
  PROVE  Own(r)'
  <1>1. CASE Refuse(r)
    BY <1>1, EndOwn
  <1>2. CASE cardLock' = r /\ GoTo(r, "provider") /\ Remember(r, w)
             /\ UNCHANGED <<accountLock, rowLock, req, reply>>
    <2>1. pc'[r] = "provider" /\ work'[r] = w /\ req'[r] = req[r]
      BY <1>2 DEF GoTo, Remember, TypeOK, RequestTypes
    <2>2. HasTarget(r)' /\ HoldsLocks(r)'
      BY <1>2, <2>1 DEF HasTarget, HoldsLocks
    <2>3. ScoresCurrent(r)'
      BY <2>1 DEF ScoresCurrent, ExpectedTurn, HasPending
    <2> QED
      BY <2>2, <2>3 DEF Own
  <1> QED
    BY <1>1, <1>2 DEF ScoreUnderCard

\* A session found scorable waits for the turn its probes count up to.
LEMMA ScorableIsCurrent ==
  ASSUME TypeOK, ProbesMatchStatus, NEW r \in Requests, NEW s \in Sessions,
         NEW q, NEW w0 \in Works, Scorable(Reloaded(w0, s), q, w0.status)
  PROVE  LET w == Reloaded(w0, s) IN
         /\ status[s] \in Live
         /\ w.status = status[s]
         /\ w.probes = probes[s]
         /\ ExpectedTurn(w) = probes[s]
  <1> DEFINE w == Reloaded(w0, s)
  <1>1. w.status = status[s] /\ w.probes = probes[s]
    BY DEF Reloaded, Works
  <1>2. status[s] \in Live
    BY <1>1 DEF Scorable
  <1>3. ExpectedTurn(w) = probes[s]
    <2> HIDE DEF w
    <2>1. CASE status[s] = "open"
      BY <1>1, <2>1 DEF ExpectedTurn, HasPending, ProbesMatchStatus
    <2>2. CASE status[s] = "awaiting"
      <3>1. HasPending(w)
        BY <1>1, <2>2 DEF Scorable, w
      <3> QED
        BY <1>1, <3>1 DEF ExpectedTurn
    <2> QED
      BY <1>2, <2>1, <2>2 DEF Live
  <1> QED
    BY <1>1, <1>2, <1>3

\* The steps of the three handlers that score or coach.
LEMMA ScoreOwn ==
  ASSUME TypeOK, NEW r \in Requests, Own(r), ProbesMatchStatus,
         \/ AnswerReadProbes(r) \/ AnswerReplay(r) \/ AnswerTakeCard(r)
         \/ AnswerScored(r) \/ AnswerCommitFollowUp(r) \/ AnswerCommitComplete(r)
         \/ ScorerTakeAccount(r) \/ CoachScored(r)
         \/ ReattemptReplay(r) \/ ReattemptTakeCard(r) \/ ReattemptCommit(r)
         \/ CoachingTakeCard(r) \/ CoachingCommit(r)
  PROVE  Own(r)'
  <1>0. /\ HasTarget(r) /\ HoldsLocks(r) /\ ScoresCurrent(r)
        /\ work[r] \in Works
    BY DEF Own, TypeOK, RequestTypes
  <1>1. CASE AnswerReadProbes(r)
    BY <1>0, <1>1, EndOwn, MoveOwn DEF AnswerReadProbes, At
  <1>2. CASE AnswerTakeCard(r)
    <2>1. CASE LET w == Reloaded(work[r], req[r].session) IN
               Scorable(w, req[r], work[r].status) /\ ScoreUnderCard(r, w)
      <3>1. req[r].session \in Sessions /\ pc[r] = "card"
            /\ UNCHANGED <<status, probes, consent>>
        BY <1>0, <1>2 DEF AnswerTakeCard, At, HasTarget, rowVars
      <3>2. Reloaded(work[r], req[r].session) \in Works
        BY <1>0, <3>1, WorkTypes DEF TypeOK
      <3> QED
        BY <1>0, <2>1, <3>1, <3>2, ScorableIsCurrent, ScoreUnderCardOwn
    <2> QED
      BY <1>2, <2>1, EndOwn DEF AnswerTakeCard
  <1>3. CASE AnswerScored(r)
    <2>1. ASSUME NEW verdict \in Qualities \cup {"follow_up"},
                 ~(verdict = "follow_up" /\ PastCap(work[r])),
                 GoTo(r, "write"), req' = req,
                 Remember(r, [work[r] EXCEPT !.verdict = verdict]),
                 lockVars' = lockVars
          PROVE  Own(r)'
      <3> DEFINE w == [work[r] EXCEPT !.verdict = verdict]
      <3>1. pc'[r] = "write" /\ work'[r] = w /\ req'[r] = req[r]
        BY <2>1 DEF GoTo, Remember, TypeOK, RequestTypes
      <3>2. pc[r] = "provider" /\ req[r].op = "answer"
            /\ UNCHANGED <<status, probes, consent>>
        BY <1>3 DEF AnswerScored, At, rowVars
      <3>3. HasTarget(r)' /\ HoldsLocks(r)'
        BY <1>0, <2>1, <3>1, <3>2 DEF HasTarget, HoldsLocks, lockVars
      <3>4. /\ w.status = work[r].status /\ w.probes = work[r].probes
            /\ w.answer = work[r].answer /\ w.verdict = verdict
        BY <1>0 DEF Works
      <3> HIDE DEF w
      <3>5. ExpectedTurn(w) = ExpectedTurn(work[r])
        BY <3>4 DEF ExpectedTurn, HasPending
      <3>6. w.verdict = "follow_up" => probes[req[r].session] < MaxFollowUps
        <4>1. probes[req[r].session] \in Nat
          BY <1>0, <3>2 DEF HasTarget, TypeOK, RowTypes, Turns
        <4> QED
          BY <1>0, <2>1, <3>2, <3>4, <4>1, BoundsAssumption DEF ScoresCurrent, PastCap
      <3>7. ScoresCurrent(r)'
        BY <1>0, <3>1, <3>2, <3>4, <3>5, <3>6
           DEF ScoresCurrent, ExpectedTurn, HasPending
      <3> QED
        BY <3>3, <3>7 DEF Own
    <2> QED
      BY <1>3, <2>1, EndOwn DEF AnswerScored
  <1>4. CASE ScorerTakeAccount(r)
    <2>1. CASE EnterAccount(r) /\ GoTo(r, "card") /\ req' = req
      BY <1>0, <1>4, <2>1 DEF ScorerTakeAccount, EnterAccount, GoTo, TypeOK,
         RequestTypes, Own, HasTarget, HoldsLocks, ScoresCurrent
    <2> QED
      BY <1>4, <2>1, EndOwn DEF ScorerTakeAccount
  <1>5. CASE CoachScored(r)
    <2>1. CASE GoTo(r, "write") /\ req' = req /\ lockVars' = lockVars
      BY <1>0, <1>5, <2>1 DEF CoachScored, GoTo, TypeOK, RequestTypes, lockVars,
         Own, HasTarget, HoldsLocks, ScoresCurrent
    <2> QED
      BY <1>5, <2>1, EndOwn DEF CoachScored
  <1>6. CASE ReattemptTakeCard(r) \/ CoachingTakeCard(r)
    <2>1. CASE ScoreUnderCard(r, work[r])
      <3>1. pc[r] = "card" /\ req[r].op # "answer"
            /\ UNCHANGED <<status, probes, consent>>
        BY <1>6 DEF ReattemptTakeCard, CoachingTakeCard, At, rowVars
      <3> QED
        BY <1>0, <2>1, <3>1, ScoreUnderCardOwn
    <2> QED
      BY <1>6, <2>1, EndOwn DEF ReattemptTakeCard, CoachingTakeCard
  <1>7. CASE \/ AnswerReplay(r) \/ AnswerCommitFollowUp(r)
             \/ AnswerCommitComplete(r) \/ ReattemptReplay(r)
             \/ ReattemptCommit(r) \/ CoachingCommit(r)
    BY <1>7, EndOwn DEF AnswerReplay, AnswerCommitFollowUp,
       AnswerCommitComplete, ReattemptReplay, ReattemptCommit, CoachingCommit
  <1> QED
    BY <1>1, <1>2, <1>3, <1>4, <1>5, <1>6, <1>7

------------------------------------------------------------------------------
(* The rows.  Only three kinds of step write the status or the probes of a    *)
(* session, each while no other handler holds the card lock.                  *)

Inserted(s) ==
  /\ status[s] = "none" /\ LiveSessions = {} /\ ~recallHeld /\ ~Held(cardLock)
  /\ status' = [status EXCEPT ![s] = "open"] /\ probes' = probes
Ended(r, s) ==
  /\ status[s] \in Live /\ (~Held(cardLock) \/ cardLock = r)
  /\ status' \in {[status EXCEPT ![s] = "complete"],
                  [status EXCEPT ![s] = "abandoned"]}
  /\ probes' = probes
Probed(r, s) ==
  /\ status[s] \in Live /\ cardLock = r
  /\ status' = [status EXCEPT ![s] = "awaiting"]
  /\ probes' = [probes EXCEPT ![s] = probes[s] + 1]
RowStep(r) ==
  /\ consent' = consent /\ recallHeld' = recallHeld
  /\ \/ status' = status /\ probes' = probes
     \/ \E s \in Sessions : Inserted(s) \/ Ended(r, s) \/ Probed(r, s)

\* A handler that writes a session's status checked it under the card lock.
LEMMA RowStepOfHandler ==
  ASSUME TypeOK, RequestHasTarget, LocksHeld, ScorerIsCurrent,
         NEW r \in Requests, Calls(r) \/ Step(r) \/ Crash(r)
  PROVE  RowStep(r)
  <1> USE DEF cardVars, rowVars
  <1>0. HasTarget(r) /\ HoldsLocks(r) /\ ScoresCurrent(r)
    BY DEF RequestHasTarget, LocksHeld, ScorerIsCurrent
  <1>1. CASE Calls(r)
    BY <1>1 DEF Calls, StartCall, DraftCall, AbandonCall, AnswerCall,
       ReattemptCall, CoachingCall, AfterScore, RowStep
  <1>2. CASE StartInsert(r)
    <2>1. CASE Startable /\ Insertable(r) /\ InsertSession(r) /\ consent' = consent
      <3>1. PICK s \in Sessions :
              /\ status[s] = "none"
              /\ status' = [status EXCEPT ![s] = "open"]
              /\ UNCHANGED <<recallHeld, probes>>
        BY <2>1 DEF InsertSession
      <3>2. Inserted(s)
        BY <1>2, <2>1, <3>1 DEF Inserted, Startable, Insertable, StartInsert
      <3> QED
        BY <2>1, <3>1, <3>2 DEF RowStep
    <2> QED
      BY <1>2, <2>1 DEF StartInsert, RowStep
  <1>3. CASE AbandonCommit(r)
    <2>1. req[r].session \in Sessions
      BY <1>0, <1>3 DEF AbandonCommit, At, HasTarget
    <2> QED
      BY <1>3, <2>1 DEF AbandonCommit, RowStep, Ended
  <1>4. CASE AnswerCommitFollowUp(r)
    <2>1. /\ req[r].session \in Sessions /\ cardLock = r
          /\ status[req[r].session] \in Live
          /\ work[r].probes = probes[req[r].session]
      BY <1>0, <1>4 DEF AnswerCommitFollowUp, At, HasTarget, HoldsLocks,
         ScoresCurrent
    <2>2. Probed(r, req[r].session)
      BY <1>4, <2>1 DEF AnswerCommitFollowUp, Probed
    <2> QED
      BY <1>4, <2>1, <2>2 DEF AnswerCommitFollowUp, RowStep
  <1>5. CASE AnswerCommitComplete(r)
    <2>1. /\ req[r].session \in Sessions /\ cardLock = r
          /\ status[req[r].session] \in Live
      BY <1>0, <1>5 DEF AnswerCommitComplete, At, HasTarget, HoldsLocks,
         ScoresCurrent
    <2> QED
      BY <1>5, <2>1 DEF AnswerCommitComplete, RowStep, Ended
  <1>6. CASE \/ StartRead(r) \/ ResumeRead(r) \/ StartTakeAccount(r)
             \/ GenerateQuestion(r) \/ DraftWrite(r)
    BY <1>6 DEF StartRead, ResumeRead, StartTakeAccount, GenerateQuestion,
       DraftWrite, RowStep
  <1>7. CASE \/ AnswerReadProbes(r) \/ AnswerReplay(r) \/ AnswerTakeCard(r)
             \/ AnswerScored(r) \/ ScorerTakeAccount(r) \/ CoachScored(r)
    BY <1>7 DEF AnswerReadProbes, AnswerReplay, AnswerTakeCard, AnswerScored,
       ScorerTakeAccount, CoachScored, RowStep
  <1>8. CASE \/ ReattemptReplay(r) \/ ReattemptTakeCard(r) \/ ReattemptCommit(r)
             \/ CoachingTakeCard(r) \/ CoachingCommit(r)
    BY <1>8 DEF ReattemptReplay, ReattemptTakeCard, ReattemptCommit,
       CoachingTakeCard, CoachingCommit, RowStep
  <1>9. CASE Crash(r)
    BY <1>9 DEF Crash, RowStep
  <1> QED
    BY <1>1, <1>2, <1>3, <1>4, <1>5, <1>6, <1>7, <1>8, <1>9 DEF Step

\* What the scorer of another request was told stays true, because that request
\* holds the card lock.
LEMMA OthersScoreCurrent ==
  ASSUME TypeOK, NEW r \in Requests, NEW q \in Requests \ {r},
         RowStep(r), Undisturbed(q), HoldsLocks(q), ScoresCurrent(q)
  PROVE  ScoresCurrent(q)'
  <1>1. SUFFICES ASSUME pc[q] \in {"provider", "write"}, req[q].op = "answer"
                 PROVE  UNCHANGED <<status, probes>>
    BY DEF Undisturbed, ScoresCurrent, ExpectedTurn, HasPending
  <1>2. cardLock = q /\ Held(cardLock) /\ q # r
    BY <1>1, NullAssumption DEF HoldsLocks, Held
  <1> QED
    BY <1>2 DEF RowStep, Inserted, Ended, Probed

\* A handler's step keeps every part of the invariant that is about requests.
LEMMA RequestsKeepInvariant ==
  ASSUME TypeOK, RequestHasTarget, LocksHeld, ScorerIsCurrent, ProbesMatchStatus,
         NEW r \in Requests, Calls(r) \/ Step(r) \/ Crash(r)
  PROVE  RequestHasTarget' /\ LocksHeld' /\ ScorerIsCurrent'
  <1>1. RowStep(r) /\ OthersUndisturbed(r)
    BY RowStepOfHandler, StepFrame
  <1>2. Own(r)
    BY DEF Own, RequestHasTarget, LocksHeld, ScorerIsCurrent
  <1>3. Own(r)'
    <2>1. HasTarget(r) /\ HoldsLocks(r)
      BY <1>2 DEF Own
    <2>2. CASE Crash(r)
      BY <2>2, EndOwn DEF Crash
    <2>3. CASE Calls(r)
      BY <2>3, CallOwn
    <2>4. CASE Step(r)
      BY <1>2, <2>1, <2>4, StartOwn, ScoreOwn DEF Step
    <2> QED
      BY <2>2, <2>3, <2>4
  <1>4. ASSUME NEW q \in Requests \ {r}
        PROVE  HasTarget(q)' /\ HoldsLocks(q)' /\ ScoresCurrent(q)'
    <2>1. Undisturbed(q) /\ HasTarget(q) /\ HoldsLocks(q) /\ ScoresCurrent(q)
      BY <1>1 DEF OthersUndisturbed, RequestHasTarget, LocksHeld, ScorerIsCurrent
    <2>2. HasTarget(q)'
      BY <2>1 DEF Undisturbed, HasTarget
    <2>3. HoldsLocks(q)'
      BY <1>1, <2>1 DEF Undisturbed, HoldsLocks, RowStep
    <2> QED
      BY <1>1, <2>1, <2>2, <2>3, OthersScoreCurrent
  <1> QED
    BY <1>3, <1>4 DEF Own, RequestHasTarget, LocksHeld, ScorerIsCurrent

\* A handler's step keeps the session rows in order: at most one is live, none
\* while recall is held, and probes are where the status says.
LEMMA RowsKeepInvariant ==
  ASSUME TypeOK, ProbesMatchStatus, OneLiveSession, NoRecallWhileHeld,
         NEW r \in Requests, RowStep(r)
  PROVE  ProbesMatchStatus' /\ OneLiveSession' /\ NoRecallWhileHeld'
  <1> USE DEF TypeOK, RowTypes, Live
  <1>1. CASE status' = status /\ probes' = probes
    BY <1>1 DEF RowStep, ProbesMatchStatus, OneLiveSession, NoRecallWhileHeld,
       LiveSessions
  <1>2. ASSUME NEW s \in Sessions, Inserted(s)
        PROVE  ProbesMatchStatus' /\ OneLiveSession' /\ NoRecallWhileHeld'
    <2>1. LiveSessions' = {s}
      BY <1>2 DEF Inserted, LiveSessions
    <2>2. ProbesMatchStatus'
      BY <1>2 DEF Inserted, ProbesMatchStatus
    <2> QED
      BY <1>2, <2>1, <2>2 DEF RowStep, Inserted, OneLiveSession, NoRecallWhileHeld
  <1>3. ASSUME NEW s \in Sessions, Ended(r, s) \/ Probed(r, s)
        PROVE  ProbesMatchStatus' /\ OneLiveSession' /\ NoRecallWhileHeld'
    <2>1. LiveSessions' \subseteq LiveSessions
      BY <1>3 DEF Ended, Probed, LiveSessions
    <2>2. probes[s] \in Nat
      BY BoundsAssumption DEF Turns
    <2>3. ProbesMatchStatus'
      BY <1>3, <2>2 DEF Ended, Probed, ProbesMatchStatus
    <2> QED
      BY <2>1, <2>3 DEF RowStep, OneLiveSession, NoRecallWhileHeld
  <1> QED
    BY <1>1, <1>2, <1>3 DEF RowStep

\* The handlers that run in one critical section reveal the answer only while no
\* session is live, and change consent only while no provider works.
LEMMA EnvironmentKeepsInvariant ==
  ASSUME IInv, Environment
  PROVE  IInv'
  <1>1. KeepRequests /\ UNCHANGED rowVars
    BY DEF Environment, OpenLearning, RecallHoldEnds, EditGrounding, ArchiveCard,
       RestoreCard, RecordConsent
  <1>2. TypeOK'
    BY EnvironmentTypes DEF IInv
  <1>3. RequestHasTarget' /\ ScorerIsCurrent'
    BY <1>1 DEF IInv, RequestHasTarget, HasTarget, ScorerIsCurrent, ScoresCurrent,
       KeepRequests, reqVars, rowVars, ExpectedTurn, HasPending
  <1>4. LocksHeld'
    <2>1. Held(accountLock) => consent' = consent
      BY DEF Environment, OpenLearning, RecallHoldEnds, EditGrounding, ArchiveCard,
         RestoreCard, RecordConsent
    <2> QED
      BY <1>1, <2>1, NullAssumption DEF IInv, LocksHeld, HoldsLocks, KeepRequests,
         lockVars, reqVars, Held
  <1>5. ProbesMatchStatus' /\ OneLiveSession'
    BY <1>1 DEF IInv, ProbesMatchStatus, OneLiveSession, LiveSessions, rowVars
  <1>6. NoRecallWhileHeld'
    <2>1. recallHeld' => recallHeld \/ LiveSessions = {}
      BY DEF Environment, OpenLearning, RecallHoldEnds, EditGrounding, ArchiveCard,
         RestoreCard, RecordConsent, cardVars
    <2> QED
      BY <1>1, <2>1 DEF IInv, NoRecallWhileHeld, LiveSessions, rowVars
  <1> QED
    BY <1>2, <1>3, <1>4, <1>5, <1>6 DEF IInv

------------------------------------------------------------------------------
(* The theorems.                                                              *)

\* The invariant is inductive: every step of a handler, every crash and every
\* handler that runs in one critical section keeps it.
THEOREM InductiveInvariant == Spec => []IInv
  <1>1. IInv /\ [Next]_vars => IInv'
    <2> SUFFICES ASSUME IInv, [Next]_vars PROVE IInv'
      OBVIOUS
    <2>1. ASSUME NEW r \in Requests, Calls(r) \/ Step(r) \/ Crash(r)
          PROVE  IInv'
      <3>1. TypeOK'
        BY <2>1, CallTypes, StepTypes DEF IInv
      <3>2. RowStep(r)
        BY <2>1, RowStepOfHandler DEF IInv
      <3>3. ProbesMatchStatus' /\ OneLiveSession' /\ NoRecallWhileHeld'
        BY <3>2, RowsKeepInvariant DEF IInv
      <3>4. RequestHasTarget' /\ LocksHeld' /\ ScorerIsCurrent'
        BY <2>1, RequestsKeepInvariant DEF IInv
      <3> QED
        BY <3>1, <3>3, <3>4 DEF IInv
    <2>2. CASE UNCHANGED vars
      BY <2>2 DEF vars, cardVars, rowVars, lockVars, reqVars, IInv, TypeOK,
         CardTypes, RowTypes, LockTypes, RequestTypes, RequestHasTarget, HasTarget,
         LocksHeld, HoldsLocks, ScorerIsCurrent, ScoresCurrent, ExpectedTurn,
         HasPending, ProbesMatchStatus, OneLiveSession, NoRecallWhileHeld,
         LiveSessions
    <2> QED
      BY <2>1, <2>2, EnvironmentKeepsInvariant DEF Next
  <1> QED
    BY <1>1, InitIInv, PTL DEF Spec

\* Every variable keeps its type: in particular a session never stores a turn
\* past the follow-up cap, whatever the scorer asks for.
THEOREM TypeCorrect == Spec => []TypeOK
  <1>1. IInv => TypeOK
    BY DEF IInv
  <1> QED
    BY <1>1, InductiveInvariant, PTL

\* A card never has two live sessions.
THEOREM AtMostOneLiveSession == Spec => []OneLiveSession
  <1>1. IInv => OneLiveSession
    BY DEF IInv
  <1> QED
    BY <1>1, InductiveInvariant, PTL

\* No session is live while the recall hold of a revealed answer lasts.
THEOREM RecallIsHeld == Spec => []NoRecallWhileHeld
  <1>1. IInv => NoRecallWhileHeld
    BY DEF IInv
  <1> QED
    BY <1>1, InductiveInvariant, PTL

\* A provider never works for an account whose consent does not stand.
THEOREM ConsentStands == Spec => []ProviderHasConsent
  <1>1. IInv => ProviderHasConsent
    BY DEF IInv, LocksHeld, HoldsLocks, ProviderHasConsent
  <1> QED
    BY <1>1, InductiveInvariant, PTL

(***************************************************************************)
(* What a learner sees of a session is what was said: the transcript, the  *)
(* replies, the drafts and the question, and the refinement of ReviewLog.  *)
(***************************************************************************)
------------------------------------------------------------------------------
(* The inductive invariant.  A handler reads rows before it holds their lock;  *)
(* what it still believes when it has the lock is bounded by the fact that an  *)
(* answer, once stored, stays.                                                 *)

\* An answer a handler has in its working data is the stored one.
Knows(w, s) == \A t \in Turns : w.answer[t] \in {None, answer[s][t]}
StoredFinal(s, x) == status[s] = "complete" /\ answer[s][probes[s]] = x

KnowsSession(r) ==
  pc[r] # "idle" /\ req[r].op = "answer" =>
    LET s == req[r].session IN
    /\ Knows(work[r], s)
    /\ work[r].status = "complete" => status[s] = "complete"
    /\ pc[r] = "replay" => StoredFinal(s, req[r].text)

\* A reply stands until the slot is called again, with the request it answers.
TellsTruth(r) ==
  LET s == req[r].session
      x == req[r].text
      n == reply[r].turn
  IN
  /\ pc[r] # "idle" => reply[r].kind = "none"
  /\ reply[r].kind \in {"follow_up", "completed"} => s \in Sessions /\ x \in Texts
  /\ reply[r].kind = "follow_up" => n > 0 /\ answer[s][n - 1] = x
  /\ reply[r].kind = "completed" => StoredFinal(s, x)

RequestsTellTruth == \A r \in Requests : KnowsSession(r) /\ TellsTruth(r)

\* A row that was never used has no draft for its first turn.
UnusedIsBlank == \A s \in Sessions : status[s] = "none" => draft[s] = None

TInv ==
  /\ IInv
  /\ TranscriptHasNoGap
  /\ RequestsTellTruth
  /\ DraftBelongsToTurn /\ UnusedIsBlank
  /\ OneQuestionPerCard

------------------------------------------------------------------------------
(* The rows.                                                                  *)

\* The type invariant, row by row.
LEMMA Types ==
  ASSUME TypeOK
  PROVE  /\ status \in [Sessions -> Live \cup {"none", "complete", "abandoned"}]
         /\ setup \in [Sessions -> Setups]
         /\ answer \in [Sessions -> [Turns -> Texts \cup {None}]]
         /\ probes \in [Sessions -> Turns]
         /\ draft \in [Sessions -> Drafts]
         /\ schedule \in Seq(Qualities)
         /\ pc \in [Requests -> Stages]
         /\ req \in [Requests -> RequestRecords]
         /\ work \in [Requests -> Works]
         /\ reply \in [Requests -> Replies]
  BY DEF TypeOK, CardTypes, RowTypes, RequestTypes

\* Turns are counted by natural numbers, and no submitted text is empty.
LEMMA TurnFacts ==
  /\ \A t \in Turns : t \in Nat /\ t <= MaxFollowUps
  /\ \A n \in Nat : n <= MaxFollowUps => n \in Turns
  /\ 0 \in Turns /\ None \notin Texts /\ None \notin Turns /\ NoTurn \notin Turns
  BY BoundsAssumption, NullAssumption DEF Turns

\* What a step can do to the transcripts: a session begins, is given up, goes on
\* with another probe or is finished, each from the state the log allows it in.
SameText == UNCHANGED <<status, probes, answer, setup, schedule>>
Begun(s) ==
  /\ status[s] = "none" /\ LiveSessions = {}
  /\ status' = [status EXCEPT ![s] = "open"]
  /\ \E u \in Setups : setup' = [setup EXCEPT ![s] = u]
  /\ UNCHANGED <<probes, answer, schedule>>
GivenUp(s) ==
  /\ status[s] \in Live
  /\ status' = [status EXCEPT ![s] = "abandoned"]
  /\ UNCHANGED <<probes, answer, setup, schedule>>
Answered(s, x) ==
  /\ status[s] \in Live /\ x \in Texts
  /\ answer' = [answer EXCEPT ![s][probes[s]] = x]
  /\ setup' = setup
Continued(s, x) ==
  /\ Answered(s, x) /\ probes[s] < MaxFollowUps
  /\ probes' = [probes EXCEPT ![s] = probes[s] + 1]
  /\ status' = [status EXCEPT ![s] = "awaiting"]
  /\ schedule' = schedule
Finished(s, x, quality) ==
  /\ Answered(s, x) /\ quality \in Qualities
  /\ probes' = probes
  /\ status' = [status EXCEPT ![s] = "complete"]
  /\ schedule' = NextSchedule(s, quality)
TextStep ==
  \/ SameText
  \/ \E s \in Sessions :
       \/ Begun(s) \/ GivenUp(s)
       \/ \E x \in Texts : Continued(s, x)
       \/ \E x \in Texts, quality \in Qualities : Finished(s, x, quality)

\* A scorer's result is written to the turn the session still waits for.
LEMMA FollowUpContinues ==
  ASSUME IInv, NEW r \in Requests, AnswerCommitFollowUp(r)
  PROVE  /\ req[r].session \in Sessions
         /\ Continued(req[r].session, req[r].text)
         /\ work[r].probes = probes[req[r].session]
  <1>1. /\ HasTarget(r) /\ ScoresCurrent(r)
        /\ pc[r] = "write" /\ req[r].op = "answer" /\ work[r].verdict = "follow_up"
    BY DEF IInv, RequestHasTarget, ScorerIsCurrent, AnswerCommitFollowUp, At
  <1> QED
    BY <1>1 DEF HasTarget, ScoresCurrent, AnswerCommitFollowUp, Continued, Answered,
       cardVars

\* The same of the result that completes the session.
LEMMA CompletionFinishes ==
  ASSUME IInv, NEW r \in Requests, AnswerCommitComplete(r)
  PROVE  /\ req[r].session \in Sessions
         /\ Finished(req[r].session, req[r].text, work[r].verdict)
  <1>1. /\ HasTarget(r) /\ ScoresCurrent(r)
        /\ pc[r] = "write" /\ req[r].op = "answer"
    BY DEF IInv, RequestHasTarget, ScorerIsCurrent, AnswerCommitComplete, At
  <1> QED
    BY <1>1 DEF HasTarget, ScoresCurrent, AnswerCommitComplete, Finished, Answered

\* A session begins only while none is live.
LEMMA InsertBegins ==
  ASSUME TypeOK, NEW r \in Requests, Insertable(r), InsertSession(r)
  PROVE  \E s \in Sessions : Begun(s)
  <1>1. PICK s \in Sessions, contract \in Contracts :
          /\ status[s] = "none"
          /\ question' = IF question = None THEN work[r].generated ELSE question
          /\ status' = [status EXCEPT ![s] = "open"]
          /\ setup' = [setup EXCEPT ![s] = [practice |-> req[r].practice,
                                            contract |-> contract,
                                            asked |-> question']]
          /\ UNCHANGED <<probes, answer, schedule>>
    BY DEF InsertSession
  <1>2. [practice |-> req[r].practice, contract |-> contract, asked |-> question']
          \in Setups
    BY <1>1, InputAssumption
       DEF TypeOK, CardTypes, RequestTypes, RequestRecords, Works, Setups
  <1> QED
    BY <1>1, <1>2 DEF Begun, Insertable

\* No handler does anything else to a transcript.
LEMMA TextStepOfHandler ==
  ASSUME IInv, NEW r \in Requests, Calls(r) \/ Step(r) \/ Crash(r)
  PROVE  TextStep
  <1> USE DEF cardVars, rowVars
  <1>0. HasTarget(r) /\ TypeOK
    BY DEF IInv, RequestHasTarget
  <1>1. CASE Calls(r)
    BY <1>1 DEF Calls, StartCall, DraftCall, AbandonCall, AnswerCall,
       ReattemptCall, CoachingCall, AfterScore, TextStep, SameText
  <1>2. CASE StartInsert(r)
    <2>1. CASE Insertable(r) /\ InsertSession(r)
      BY <1>0, <2>1, InsertBegins DEF TextStep
    <2> QED
      BY <1>2, <2>1 DEF StartInsert, TextStep, SameText
  <1>3. CASE AbandonCommit(r)
    <2>1. req[r].session \in Sessions
      BY <1>0, <1>3 DEF AbandonCommit, At, HasTarget
    <2> QED
      BY <1>3, <2>1 DEF AbandonCommit, TextStep, SameText, GivenUp
  <1>4. CASE AnswerCommitFollowUp(r)
    BY <1>4, FollowUpContinues DEF TextStep, Continued, Answered
  <1>5. CASE AnswerCommitComplete(r)
    BY <1>5, CompletionFinishes DEF TextStep, Finished, Answered
  <1>6. CASE \/ StartRead(r) \/ ResumeRead(r) \/ StartTakeAccount(r)
             \/ GenerateQuestion(r) \/ DraftWrite(r)
    BY <1>6 DEF StartRead, ResumeRead, StartTakeAccount, GenerateQuestion,
       DraftWrite, TextStep, SameText
  <1>7. CASE \/ AnswerReadProbes(r) \/ AnswerReplay(r) \/ AnswerTakeCard(r)
             \/ AnswerScored(r) \/ ScorerTakeAccount(r) \/ CoachScored(r)
    BY <1>7 DEF AnswerReadProbes, AnswerReplay, AnswerTakeCard, AnswerScored,
       ScorerTakeAccount, CoachScored, TextStep, SameText
  <1>8. CASE \/ ReattemptReplay(r) \/ ReattemptTakeCard(r) \/ ReattemptCommit(r)
             \/ CoachingTakeCard(r) \/ CoachingCommit(r)
    BY <1>8 DEF ReattemptReplay, ReattemptTakeCard, ReattemptCommit,
       CoachingTakeCard, CoachingCommit, TextStep, SameText
  <1>9. CASE Crash(r)
    BY <1>9 DEF Crash, TextStep, SameText
  <1> QED
    BY <1>1, <1>2, <1>3, <1>4, <1>5, <1>6, <1>7, <1>8, <1>9 DEF Step

\* The handlers of one critical section leave transcripts and requests alone.
LEMMA EnvironmentKeepsText ==
  ASSUME Environment
  PROVE  SameText /\ UNCHANGED rowVars /\ UNCHANGED reqVars
  BY DEF Environment, OpenLearning, RecallHoldEnds, EditGrounding, ArchiveCard,
     RestoreCard, RecordConsent, KeepRequests, SameText, rowVars, cardVars

------------------------------------------------------------------------------
(* The transcript.                                                            *)

\* What is said stays said, and a completed session stays as it is.
TextGrows ==
  \A s \in Sessions :
    /\ \A t \in Turns : answer[s][t] # None => answer'[s][t] = answer[s][t]
    /\ status[s] = "complete" => status'[s] = "complete" /\ probes'[s] = probes[s]

\* The turn a live session waits for has no answer yet.
LEMMA PendingIsEmpty ==
  ASSUME TypeOK, TranscriptHasNoGap, NEW s \in Sessions, status[s] \in Live
  PROVE  answer[s][probes[s]] = None
  <1>1. AnsweredTurns(s) = 0 .. (probes[s] - 1)
    BY DEF TranscriptHasNoGap, Live
  <1>2. probes[s] \in Turns /\ probes[s] \in Nat
    BY Types, TurnFacts
  <1> QED
    BY <1>1, <1>2 DEF AnsweredTurns

\* An answer goes into an empty turn, so nothing said before it changes.
LEMMA AnswersOnlyGrow ==
  ASSUME TypeOK, TranscriptHasNoGap, TextStep
  PROVE  TextGrows
  <1>1. ASSUME NEW s \in Sessions, NEW x, Answered(s, x)
        PROVE  \A u \in Sessions, t \in Turns :
                 answer[u][t] # None => answer'[u][t] = answer[u][t]
    <2>1. answer[s][probes[s]] = None /\ answer' = [answer EXCEPT ![s][probes[s]] = x]
      BY <1>1, PendingIsEmpty DEF Answered
    <2> QED
      BY <2>1, Types
  <1>2. ASSUME NEW s \in Sessions, NEW x, Continued(s, x)
        PROVE  TextGrows
    BY <1>1, <1>2, Types DEF Continued, Answered, TextGrows, Live
  <1>3. ASSUME NEW s \in Sessions, NEW x, NEW quality, Finished(s, x, quality)
        PROVE  TextGrows
    BY <1>1, <1>3, Types DEF Finished, Answered, TextGrows, Live
  <1>4. ASSUME NEW s \in Sessions, Begun(s) \/ GivenUp(s)
        PROVE  TextGrows
    BY <1>4, Types DEF Begun, GivenUp, TextGrows, Live
  <1>5. CASE SameText
    BY <1>5 DEF SameText, TextGrows
  <1> QED
    BY <1>2, <1>3, <1>4, <1>5 DEF TextStep

\* A turn that was answered joins the turns before it.
LEMMA AnsweredTurnsGrow ==
  ASSUME TypeOK, TranscriptHasNoGap, NEW s \in Sessions, NEW x, Answered(s, x)
  PROVE  /\ AnsweredTurns(s)' = 0 .. probes[s]
         /\ \A u \in Sessions \ {s} : AnsweredTurns(u)' = AnsweredTurns(u)
  <1>1. answer' = [answer EXCEPT ![s][probes[s]] = x] /\ x # None
    BY TurnFacts DEF Answered
  <1>2. AnsweredTurns(s) = 0 .. (probes[s] - 1)
    BY DEF Answered, TranscriptHasNoGap, Live
  <1>3. probes[s] \in Turns /\ probes[s] \in Nat /\ answer[s] \in [Turns -> Texts \cup {None}]
    BY Types, TurnFacts
  <1>4. answer'[s] = [answer[s] EXCEPT ![probes[s]] = x]
    BY <1>1, Types
  <1>5. AnsweredTurns(s)' = AnsweredTurns(s) \cup {probes[s]}
    BY <1>1, <1>3, <1>4 DEF AnsweredTurns
  <1>6. 0 .. probes[s] = (0 .. (probes[s] - 1)) \cup {probes[s]}
    BY <1>3
  <1>7. \A u \in Sessions \ {s} : AnsweredTurns(u)' = AnsweredTurns(u)
    BY <1>1, Types DEF AnsweredTurns
  <1> QED
    BY <1>2, <1>5, <1>6, <1>7

\* Every step of the log keeps the answered turns the first ones.
LEMMA TextKeepsNoGap ==
  ASSUME TypeOK, TranscriptHasNoGap, TextStep
  PROVE  TranscriptHasNoGap'
  <1>1. ASSUME NEW s \in Sessions, NEW x, Continued(s, x)
        PROVE  TranscriptHasNoGap'
    <2>1. probes[s] \in Nat /\ probes'[s] = probes[s] + 1 /\ status'[s] = "awaiting"
      BY <1>1, Types, TurnFacts DEF Continued
    <2>2. \A u \in Sessions \ {s} : probes'[u] = probes[u] /\ status'[u] = status[u]
      BY <1>1, Types DEF Continued
    <2>3. /\ AnsweredTurns(s)' = 0 .. (probes'[s] - 1)
          /\ \A u \in Sessions \ {s} : AnsweredTurns(u)' = AnsweredTurns(u)
      BY <1>1, <2>1, AnsweredTurnsGrow DEF Continued
    <2>4. ASSUME NEW u \in Sessions
          PROVE  /\ AnsweredTurns(u)' = IF status'[u] = "complete" THEN 0 .. probes'[u]
                                         ELSE 0 .. (probes'[u] - 1)
                 /\ status'[u] \in {"none", "open"} => probes'[u] = 0
                 /\ status'[u] = "awaiting" => probes'[u] > 0
      <3>1. CASE u = s
        BY <2>1, <2>3, <3>1
      <3>2. CASE u # s
        BY <2>2, <2>3, <3>2 DEF TranscriptHasNoGap
      <3> QED
        BY <3>1, <3>2
    <2> QED
      BY <2>4 DEF TranscriptHasNoGap
  <1>2. ASSUME NEW s \in Sessions, NEW x, NEW quality, Finished(s, x, quality)
        PROVE  TranscriptHasNoGap'
    <2>1. probes' = probes /\ status'[s] = "complete"
          /\ \A u \in Sessions \ {s} : status'[u] = status[u]
      BY <1>2, Types DEF Finished
    <2>2. /\ AnsweredTurns(s)' = 0 .. probes[s]
          /\ \A u \in Sessions \ {s} : AnsweredTurns(u)' = AnsweredTurns(u)
      BY <1>2, AnsweredTurnsGrow DEF Finished
    <2> QED
      BY <2>1, <2>2 DEF TranscriptHasNoGap
  <1>3. ASSUME NEW s \in Sessions, Begun(s) \/ GivenUp(s)
        PROVE  TranscriptHasNoGap'
    <2>1. probes' = probes /\ answer' = answer
      BY <1>3 DEF Begun, GivenUp
    <2>2. status'[s] = "abandoned" \/ (status'[s] = "open" /\ status[s] = "none")
      BY <1>3, Types DEF Begun, GivenUp
    <2>3. status[s] # "complete" /\ \A u \in Sessions \ {s} : status'[u] = status[u]
      BY <1>3, Types DEF Begun, GivenUp, Live
    <2> QED
      BY <2>1, <2>2, <2>3 DEF TranscriptHasNoGap, AnsweredTurns
  <1>4. CASE SameText
    BY <1>4 DEF SameText, TranscriptHasNoGap, AnsweredTurns
  <1> QED
    BY <1>1, <1>2, <1>3, <1>4 DEF TextStep

------------------------------------------------------------------------------
(* Drafts.                                                                    *)

\* The draft of a session is replaced only by one typed for the turn the session
\* waits for, and cleared when that turn is answered.
DraftStep ==
  \A s \in Sessions :
    \/ draft'[s] = None
    \/ /\ status' = status /\ probes' = probes
       /\ \E t \in Turns \cup {NoTurn} : DraftTurnIsCurrent(s, t) /\ draft'[s] = t
    \/ /\ draft'[s] = draft[s]
       /\ \/ status'[s] = status[s] /\ probes'[s] = probes[s]
          \/ status'[s] = "abandoned"

\* A step that leaves the session rows' text alone may still write a draft.
LEMMA DraftStepOfHandler ==
  ASSUME IInv, UnusedIsBlank, NEW r \in Requests, Calls(r) \/ Step(r) \/ Crash(r)
  PROVE  DraftStep
  <1> USE DEF cardVars, rowVars
  <1>0. HasTarget(r) /\ TypeOK
    BY DEF IInv, RequestHasTarget
  <1>a. ASSUME UNCHANGED <<status, probes, draft>>
        PROVE  DraftStep
    BY <1>a DEF DraftStep
  <1>1. CASE Calls(r)
    BY <1>a, <1>1 DEF Calls, StartCall, DraftCall, AbandonCall, AnswerCall,
       ReattemptCall, CoachingCall, AfterScore
  <1>2. CASE StartInsert(r)
    <2>1. CASE InsertSession(r)
      <3>1. PICK s \in Sessions :
              /\ status[s] = "none" /\ status' = [status EXCEPT ![s] = "open"]
              /\ UNCHANGED <<probes, draft>>
        BY <2>1 DEF InsertSession
      <3>2. draft[s] = None
        BY <3>1 DEF UnusedIsBlank
      <3> QED
        BY <1>0, <3>1, <3>2, Types DEF DraftStep
    <2> QED
      BY <1>a, <1>2, <2>1 DEF StartInsert
  <1>3. CASE AbandonCommit(r)
    <2>1. /\ UNCHANGED <<probes, draft>>
          /\ \/ status' = status
             \/ status' = [status EXCEPT ![req[r].session] = "abandoned"]
      BY <1>3 DEF AbandonCommit
    <2> QED
      BY <1>0, <2>1, Types DEF DraftStep
  <1>4. CASE AnswerCommitFollowUp(r)
    <2>1. /\ draft' = [draft EXCEPT ![req[r].session] = None]
          /\ status' = [status EXCEPT ![req[r].session] = "awaiting"]
          /\ probes' = [probes EXCEPT ![req[r].session] = work[r].probes + 1]
      BY <1>4 DEF AnswerCommitFollowUp
    <2> QED
      BY <1>0, <2>1, Types DEF DraftStep
  <1>5. CASE AnswerCommitComplete(r)
    <2>1. /\ draft' = [draft EXCEPT ![req[r].session] = None]
          /\ status' = [status EXCEPT ![req[r].session] = "complete"]
          /\ probes' = probes
      BY <1>5 DEF AnswerCommitComplete
    <2> QED
      BY <1>0, <2>1, Types DEF DraftStep
  <1>6. CASE DraftWrite(r)
    <2>1. req[r].turn \in Turns \cup {NoTurn} /\ status' = status /\ probes' = probes
      BY <1>0, <1>6, Types DEF RequestRecords, DraftWrite
    <2>2. draft' = [draft EXCEPT ![req[r].session] =
                      IF DraftTurnIsCurrent(req[r].session, req[r].turn)
                      THEN req[r].turn ELSE @]
      BY <1>6 DEF DraftWrite
    <2> QED
      BY <1>0, <2>1, <2>2, Types DEF DraftStep
  <1>7. CASE ReattemptCommit(r)
    <2>1. /\ draft' = [draft EXCEPT ![req[r].session] = None]
          /\ status' = status /\ probes' = probes
      BY <1>7 DEF ReattemptCommit
    <2> QED
      BY <1>0, <2>1, Types DEF DraftStep
  <1>8. CASE \/ StartRead(r) \/ ResumeRead(r) \/ StartTakeAccount(r)
             \/ GenerateQuestion(r) \/ Crash(r)
    BY <1>a, <1>8 DEF StartRead, ResumeRead, StartTakeAccount, GenerateQuestion, Crash
  <1>9. CASE \/ AnswerReadProbes(r) \/ AnswerReplay(r) \/ AnswerTakeCard(r)
             \/ AnswerScored(r) \/ ScorerTakeAccount(r) \/ CoachScored(r)
    BY <1>a, <1>9 DEF AnswerReadProbes, AnswerReplay, AnswerTakeCard, AnswerScored,
       ScorerTakeAccount, CoachScored
  <1>10. CASE \/ ReattemptReplay(r) \/ ReattemptTakeCard(r)
              \/ CoachingTakeCard(r) \/ CoachingCommit(r)
    BY <1>a, <1>10 DEF ReattemptReplay, ReattemptTakeCard, CoachingTakeCard,
       CoachingCommit
  <1> QED
    BY <1>1, <1>2, <1>3, <1>4, <1>5, <1>6, <1>7, <1>8, <1>9, <1>10 DEF Step

\* A draft written for a turn the session waits on is a draft for the next turn:
\* an unanswered turn that is not past the last probe is the last probe.
LEMMA DraftsBelong ==
  ASSUME TypeOK, TypeOK', TranscriptHasNoGap, DraftBelongsToTurn, UnusedIsBlank,
         TextStep, DraftStep
  PROVE  DraftBelongsToTurn' /\ UnusedIsBlank'
  <1>1. ASSUME NEW s \in Sessions, NEW t \in Turns, DraftTurnIsCurrent(s, t)
        PROVE  t = IF status[s] = "open" THEN 0 ELSE probes[s]
    <2>1. t \in Nat /\ probes[s] \in Nat /\ t # NoTurn
      BY Types, TurnFacts
    <2>2. CASE t = 0
      BY <1>1, <2>1, <2>2 DEF DraftTurnIsCurrent
    <2>3. CASE t # 0
      <3>1. status[s] = "awaiting" /\ t <= probes[s] /\ answer[s][t] = None
        BY <1>1, <2>1, <2>3 DEF DraftTurnIsCurrent
      <3>2. AnsweredTurns(s) = 0 .. (probes[s] - 1)
        BY <3>1 DEF TranscriptHasNoGap
      <3>3. t \notin 0 .. (probes[s] - 1)
        BY <3>1, <3>2 DEF AnsweredTurns
      <3> QED
        BY <2>1, <3>1, <3>3
    <2> QED
      BY <2>2, <2>3
  <1>2. ASSUME NEW s \in Sessions, status'[s] \in Live, draft'[s] \in Turns
        PROVE  draft'[s] = IF status'[s] = "open" THEN 0 ELSE probes'[s]
    <2>1. CASE /\ status' = status /\ probes' = probes
               /\ \E t \in Turns \cup {NoTurn} : DraftTurnIsCurrent(s, t) /\ draft'[s] = t
      BY <1>1, <1>2, <2>1, TurnFacts
    <2>2. CASE draft'[s] = draft[s] /\ status'[s] = status[s] /\ probes'[s] = probes[s]
      BY <1>2, <2>2 DEF DraftBelongsToTurn, LiveSessions
    <2>3. draft'[s] # None /\ status'[s] # "abandoned"
      BY <1>2, TurnFacts DEF Live
    <2> QED
      BY <2>1, <2>2, <2>3 DEF DraftStep
  <1>3. ASSUME NEW s \in Sessions, status'[s] = "none"
        PROVE  draft'[s] = None
    <2>1. status[s] = "none"
      BY <1>3, Types DEF TextStep, SameText, Begun, GivenUp, Continued, Finished
    <2>2. ~ \E t \in Turns \cup {NoTurn} : DraftTurnIsCurrent(s, t)
      BY <2>1 DEF DraftTurnIsCurrent, Live
    <2> QED
      BY <1>3, <2>1, <2>2 DEF DraftStep, UnusedIsBlank
  <1> QED
    BY <1>2, <1>3 DEF DraftBelongsToTurn, LiveSessions, UnusedIsBlank

------------------------------------------------------------------------------
(* The requests.  What a handler knows and what a reply says stay true while   *)
(* others move, because answers only grow.                                    *)

Truthful(r) == KnowsSession(r) /\ TellsTruth(r)

\* A request that does not move keeps what it knows and what it was told.
LEMMA TruthIsStable ==
  ASSUME TypeOK, RequestHasTarget, NEW r \in Requests, Truthful(r), TextGrows,
         pc'[r] = pc[r], req'[r] = req[r], work'[r] = work[r], reply'[r] = reply[r]
  PROVE  Truthful(r)'
  <1>1. /\ reply[r] \in Replies /\ work[r] \in Works /\ req[r] \in RequestRecords
        /\ probes \in [Sessions -> Turns]
    BY Types
  <1>2. ASSUME NEW s \in Sessions, NEW x \in Texts, StoredFinal(s, x)
        PROVE  StoredFinal(s, x)'
    BY <1>1, <1>2, TurnFacts DEF StoredFinal, TextGrows
  <1>3. KnowsSession(r)'
    <2>1. SUFFICES ASSUME pc[r] # "idle", req[r].op = "answer"
                   PROVE  LET s == req[r].session IN
                          /\ \A t \in Turns : work[r].answer[t] \in {None, answer'[s][t]}
                          /\ work[r].status = "complete" => status'[s] = "complete"
                          /\ pc[r] = "replay" => StoredFinal(s, req[r].text)'
      BY DEF KnowsSession, Knows, StoredFinal
    <2>2. req[r].session \in Sessions /\ req[r].text \in Texts
      BY <2>1 DEF RequestHasTarget, HasTarget
    <2>3. ASSUME NEW t \in Turns
          PROVE  work[r].answer[t] \in {None, answer'[req[r].session][t]}
      BY <2>1, <2>2 DEF Truthful, KnowsSession, Knows, TextGrows
    <2> QED
      BY <1>2, <2>1, <2>2, <2>3 DEF Truthful, KnowsSession, TextGrows
  <1>4. TellsTruth(r)'
    <2> DEFINE s == req[r].session
               x == req[r].text
               n == reply[r].turn
    <2>1. /\ pc'[r] # "idle" => reply'[r].kind = "none"
          /\ reply[r].kind \in {"follow_up", "completed"} => s \in Sessions /\ x \in Texts
      BY DEF Truthful, TellsTruth
    <2>2. ASSUME reply[r].kind = "follow_up"
          PROVE  n > 0 /\ answer'[s][n - 1] = x
      <3>1. n > 0 /\ answer[s][n - 1] = x /\ s \in Sessions /\ x \in Texts
        BY <2>2 DEF Truthful, TellsTruth
      <3>2. n - 1 \in Turns
        BY <1>1, <3>1, BoundsAssumption DEF Replies, Turns
      <3> QED
        BY <3>1, <3>2, TurnFacts DEF TextGrows
    <2>3. reply[r].kind = "completed" => StoredFinal(s, x)'
      BY <1>2 DEF Truthful, TellsTruth
    <2> QED
      BY <2>1, <2>2, <2>3 DEF TellsTruth, StoredFinal
  <1> QED
    BY <1>3, <1>4 DEF Truthful

\* A request that has ended with a reply that names no turn is truthful.
LEMMA EndIsTruthful ==
  ASSUME TypeOK, NEW r \in Requests
  PROVE  /\ \A rep : End(r, rep) /\ rep.kind \notin {"follow_up", "completed"}
                     => Truthful(r)'
         /\ Refuse(r) \/ OkUnlessReviewedSince(r) \/ RefusedConsent(r) => Truthful(r)'
         /\ End(r, Reply("lost")) \/ End(r, Reply("ok")) \/ End(r, Reply("mismatch"))
              => Truthful(r)'
         /\ \A turn, f, d : Resume(r, turn, f, d) => Truthful(r)'
  <1>1. ASSUME NEW rep, End(r, rep), rep.kind \notin {"follow_up", "completed"}
        PROVE  Truthful(r)'
    <2>1. pc'[r] = "idle" /\ reply'[r] = rep
      BY <1>1, Types DEF End, GoTo
    <2> QED
      BY <1>1, <2>1 DEF Truthful, KnowsSession, TellsTruth
  <1>2. /\ \A kind : Reply(kind).kind = kind
        /\ \A turn, f, d :
             [Reply("resumed") EXCEPT !.turn = turn, !.isFollowUp = f,
                                      !.draft = d].kind = "resumed"
    BY DEF Reply
  <1> QED
    BY <1>1, <1>2 DEF Refuse, OkUnlessReviewedSince, RefusedConsent, Resume

\* Moving on to another stage with the same request and no reply yet: all there
\* is to show is what the handler knows then.
LEMMA MoveIsTruthful ==
  ASSUME TypeOK, NEW r \in Requests, TellsTruth(r), pc[r] # "idle",
         NEW stage, GoTo(r, stage), reply' = reply,
         req[r].op = "answer" => KnowsSession(r)',
         req' = req \/ (\E s : req[r].op = "start" /\ req' = [req EXCEPT ![r].session = s])
  PROVE  Truthful(r)'
  <1>1. reply'[r].kind = "none" /\ req'[r].op = req[r].op
    BY Types DEF TellsTruth, RequestRecords
  <1>2. TellsTruth(r)'
    BY <1>1 DEF TellsTruth
  <1>3. KnowsSession(r)'
    BY <1>1 DEF KnowsSession
  <1> QED
    BY <1>2, <1>3 DEF Truthful

\* A call clears the slot's reply, and a new answer knows only what it just read.
LEMMA CallIsTruthful ==
  ASSUME TypeOK, NEW r \in Requests, Calls(r)
  PROVE  Truthful(r)'
  <1>1. ASSUME NEW q, NEW stage, Call(r, q, stage)
        PROVE  /\ TellsTruth(r)' /\ req'[r] = q /\ pc'[r] = stage
               /\ q.op # "answer" => Truthful(r)'
    <2>1. req'[r] = q /\ reply'[r] = Reply("none") /\ pc'[r] = stage
      BY <1>1, Types DEF Call, GoTo
    <2> QED
      BY <2>1 DEF Truthful, KnowsSession, TellsTruth, Reply
  <1>2. CASE StartCall(r)
    <2>1. PICK practice \in BOOLEAN :
            Call(r, [NoRequest EXCEPT !.op = "start", !.practice = practice],
                 "read")
      BY <1>2 DEF StartCall
    <2>2. [NoRequest EXCEPT !.op = "start", !.practice = practice].op # "answer"
      BY DEF NoRequest
    <2> QED
      BY <1>1, <2>1, <2>2
  <1>3. CASE DraftCall(r)
    <2>1. PICK s \in Sessions, t \in TurnIndices :
            Call(r, [NoRequest EXCEPT !.op = "draft", !.session = s, !.turn = t],
                 "draft")
      BY <1>3 DEF DraftCall
    <2>2. [NoRequest EXCEPT !.op = "draft", !.session = s, !.turn = t].op # "answer"
      BY DEF NoRequest
    <2> QED
      BY <1>1, <2>1, <2>2
  <1>4. CASE AbandonCall(r)
    <2>1. PICK s \in Sessions :
            Call(r, [NoRequest EXCEPT !.op = "abandon", !.session = s],
                 "abandon")
      BY <1>4 DEF AbandonCall
    <2>2. [NoRequest EXCEPT !.op = "abandon", !.session = s].op # "answer"
      BY DEF NoRequest
    <2> QED
      BY <1>1, <2>1, <2>2
  <1>5. CASE ReattemptCall(r) \/ CoachingCall(r)
    <2>1. PICK op \in {"reattempt", "coaching"}, s \in Sessions, x \in Texts,
               stage \in Stages :
            Call(r, [NoRequest EXCEPT !.op = op, !.session = s, !.text = x], stage)
      BY <1>5 DEF ReattemptCall, CoachingCall, AfterScore, Stages
    <2>2. [NoRequest EXCEPT !.op = op, !.session = s, !.text = x].op # "answer"
      BY DEF NoRequest
    <2> QED
      BY <1>1, <2>1, <2>2
  <1>6. CASE AnswerCall(r)
    <2>1. PICK s \in Sessions, t \in TurnIndices, x \in Texts :
            /\ Call(r, [NoRequest EXCEPT !.op = "answer", !.session = s, !.turn = t,
                                         !.text = x], "probes")
            /\ Remember(r, [NoWork EXCEPT !.status = status[s],
                                          !.answer[0] = answer[s][0]])
            /\ UNCHANGED rowVars
      BY <1>6 DEF AnswerCall
    <2>a. [NoRequest EXCEPT !.op = "answer", !.session = s, !.turn = t,
                            !.text = x].session = s
      BY DEF NoRequest
    <2>2. pc'[r] = "probes" /\ TellsTruth(r)' /\ req'[r].session = s
      BY <1>1, <2>1, <2>a
    <2>3. /\ work'[r].status = status[s]
          /\ \A t1 \in Turns : work'[r].answer[t1] \in {None, answer[s][t1]}
      BY <2>1, Types DEF Remember, NoWork
    <2> QED
      BY <2>1, <2>2, <2>3 DEF Truthful, KnowsSession, Knows, rowVars
  <1> QED
    BY <1>2, <1>3, <1>4, <1>5, <1>6 DEF Calls

\* The steps of start_session, save_draft and abandon_session reply nothing about
\* answers.
LEMMA StartIsTruthful ==
  ASSUME TypeOK, NEW r \in Requests, TellsTruth(r),
         \/ StartRead(r) \/ ResumeRead(r) \/ StartTakeAccount(r)
         \/ GenerateQuestion(r) \/ StartInsert(r)
         \/ DraftWrite(r) \/ AbandonCommit(r)
  PROVE  Truthful(r)'
  <1>0. ASSUME NEW account, ResumeLive(r, account), pc[r] # "idle", req[r].op = "start"
        PROVE  Truthful(r)'
    <2>1. PICK s \in LiveSessions :
            IF setup[s].practice # req[r].practice THEN Refuse(r)
            ELSE IF status[s] = "open" THEN Resume(r, 0, FALSE, draft[s])
            ELSE /\ GoTo(r, "resume")
                 /\ Remember(r, [work[r] EXCEPT !.status = "awaiting",
                                                !.draft = draft[s]])
                 /\ req' = [req EXCEPT ![r].session = s]
                 /\ accountLock' = account
                 /\ UNCHANGED <<cardLock, rowLock, reply>>
      BY <1>0 DEF ResumeLive
    <2> QED
      BY <1>0, <2>1, EndIsTruthful, MoveIsTruthful
  <1>1. CASE StartRead(r)
    <2>1. pc[r] # "idle" /\ req[r].op = "start"
      BY <1>1 DEF StartRead, At
    <2> QED
      BY <1>0, <1>1, <2>1, EndIsTruthful, MoveIsTruthful DEF StartRead
  <1>2. CASE ResumeRead(r)
    BY <1>2, EndIsTruthful DEF ResumeRead
  <1>3. CASE StartTakeAccount(r)
    <2>1. pc[r] # "idle" /\ req[r].op = "start"
      BY <1>3 DEF StartTakeAccount, At
    <2> QED
      BY <1>0, <1>3, <2>1, EndIsTruthful, MoveIsTruthful DEF StartTakeAccount
  <1>4. CASE GenerateQuestion(r)
    BY <1>4, EndIsTruthful, MoveIsTruthful DEF GenerateQuestion, At
  <1>5. CASE StartInsert(r)
    <2>1. pc[r] # "idle" /\ req[r].op = "start"
      BY <1>5 DEF StartInsert, At
    <2> QED
      BY <1>5, <2>1, EndIsTruthful, MoveIsTruthful DEF StartInsert, InsertSession
  <1>6. CASE DraftWrite(r) \/ AbandonCommit(r)
    BY <1>6, EndIsTruthful DEF DraftWrite, AbandonCommit
  <1> QED
    BY <1>1, <1>2, <1>3, <1>4, <1>5, <1>6

\* A text found in a handler's working data is the stored answer of that turn.
LEMMA RepeatIsStored ==
  ASSUME TypeOK, NEW s \in Sessions, NEW w \in Works, Knows(w, s),
         NEW q \in RequestRecords, q.text \in Texts, RepeatsTurn(w, q)
  PROVE  /\ ProbeAfter(w, q) \in Turns /\ ProbeAfter(w, q) > 0
         /\ answer[s][ProbeAfter(w, q) - 1] = q.text
  <1>1. /\ w.probes \in Turns /\ w.probes \in Nat
        /\ q.turn # NoTurn => q.turn \in Turns /\ q.turn \in Nat
    BY TurnFacts DEF Works, RequestRecords
  <1>2. CASE AnsweredTurn(w, q) /\ w.answer[q.turn] = q.text
    <2>1. /\ ProbeAfter(w, q) = q.turn + 1 /\ q.turn \in Turns /\ q.turn \in Nat
          /\ q.turn < w.probes
      BY <1>1, <1>2 DEF AnsweredTurn, ProbeAfter
    <2>2. q.turn + 1 \in Turns /\ q.turn + 1 > 0 /\ (q.turn + 1) - 1 = q.turn
      BY <1>1, <2>1, BoundsAssumption DEF Turns
    <2> QED
      BY <1>2, <2>1, <2>2, TurnFacts DEF Knows
  <1>3. CASE q.turn = NoTurn /\ HasPending(w) /\ w.answer[w.probes - 1] = q.text
    <2>1. w.probes > 0 /\ w.probes - 1 \in Turns
      BY <1>1, <1>3, BoundsAssumption DEF HasPending, Turns
    <2> QED
      BY <1>1, <1>3, <2>1, TurnFacts DEF ProbeAfter, Knows
  <1> QED
    BY <1>2, <1>3 DEF RepeatsTurn

\* The same for the turn that completed the session.
LEMMA FinalIsStored ==
  ASSUME TypeOK, NEW s \in Sessions, NEW w \in Works, Knows(w, s),
         w.probes = probes[s], w.status = "complete" => status[s] = "complete",
         NEW q, q.text \in Texts, RepeatsFinal(w, q)
  PROVE  StoredFinal(s, q.text)
  <1>1. probes[s] \in Turns
    BY Types
  <1> QED
    BY <1>1, TurnFacts DEF RepeatsFinal, FinalTurn, StoredFinal, Knows

\* A probe is asked after the stored answer of the turn before it.
LEMMA AskAgainIsTruthful ==
  ASSUME TypeOK, NEW r \in Requests, NEW turn, turn > 0, AskAgain(r, turn),
         req[r].session \in Sessions, req[r].text \in Texts,
         answer'[req[r].session][turn - 1] = req[r].text
  PROVE  Truthful(r)'
  <1>1. /\ pc'[r] = "idle" /\ req'[r] = req[r]
        /\ reply'[r].kind = "follow_up" /\ reply'[r].turn = turn
    BY Types DEF AskAgain, End, GoTo, Reply
  <1> QED
    BY <1>1 DEF Truthful, KnowsSession, TellsTruth

\* A completed result is reported for the text that completed the session.
LEMMA ReportIsTruthful ==
  ASSUME TypeOK, NEW r \in Requests, Report(r) \/ ReportOrRefuse(r),
         req[r].session \in Sessions, req[r].text \in Texts,
         StoredFinal(req[r].session, req[r].text)'
  PROVE  Truthful(r)'
  <1>1. CASE Report(r)
    <2>1. pc'[r] = "idle" /\ req'[r] = req[r] /\ reply'[r].kind = "completed"
      BY <1>1, Types DEF Report, End, GoTo, Reply
    <2> QED
      BY <2>1 DEF Truthful, KnowsSession, TellsTruth
  <1> QED
    BY <1>1, EndIsTruthful DEF ReportOrRefuse

\* What is read again under the card lock is known as it is stored.
LEMMA ReloadedIsKnown ==
  ASSUME TypeOK, NEW s \in Sessions, NEW w \in Works, Knows(w, s)
  PROVE  /\ Reloaded(w, s) \in Works /\ Knows(Reloaded(w, s), s)
         /\ Reloaded(w, s).probes = probes[s] /\ Reloaded(w, s).status = status[s]
  <1>1. RowTypes /\ Reloaded(w, s) \in Works
    BY WorkTypes DEF TypeOK
  <1>2. /\ Reloaded(w, s).probes = probes[s] /\ Reloaded(w, s).status = status[s]
        /\ Reloaded(w, s).answer =
             [t \in Turns |-> IF t \in 1 .. w.probes THEN w.answer[t] ELSE answer[s][t]]
    BY DEF Reloaded, Works
  <1> QED
    BY <1>1, <1>2 DEF Knows

\* The probes read after the session row, too, except the first answer, which is
\* still the one of the row's first read.
LEMMA ReadProbesIsKnown ==
  ASSUME TypeOK, NEW s \in Sessions, NEW w0 \in Works, Knows(w0, s)
  PROVE  LET w == [w0 EXCEPT !.probes = probes[s],
                             !.answer = [answer[s] EXCEPT ![0] = w0.answer[0]]]
         IN /\ w \in Works /\ Knows(w, s)
            /\ w.probes = probes[s] /\ w.status = w0.status
  BY Types, TurnFacts DEF Works, Knows

\* The steps of submit_answer.
LEMMA AnswerIsTruthful ==
  ASSUME IInv, TranscriptHasNoGap, NEW r \in Requests, Truthful(r),
         \/ AnswerReadProbes(r) \/ AnswerReplay(r) \/ AnswerTakeCard(r)
         \/ AnswerScored(r) \/ AnswerCommitFollowUp(r) \/ AnswerCommitComplete(r)
  PROVE  Truthful(r)'
  <1> DEFINE s == req[r].session
  <1>1. pc[r] # "idle" /\ req[r].op = "answer" /\ TypeOK
    BY DEF IInv, At, AnswerReadProbes, AnswerReplay, AnswerTakeCard,
       AnswerScored, AnswerCommitFollowUp, AnswerCommitComplete
  <1>2. s \in Sessions /\ req[r].text \in Texts /\ req[r] \in RequestRecords
        /\ work[r] \in Works
    BY <1>1, Types DEF IInv, RequestHasTarget, HasTarget
  <1>3. /\ Knows(work[r], s) /\ TellsTruth(r)
        /\ work[r].status = "complete" => status[s] = "complete"
        /\ pc[r] = "replay" => StoredFinal(s, req[r].text)
    BY <1>1 DEF Truthful, KnowsSession
  <1>4. ASSUME NEW w \in Works, NEW stage, GoTo(r, stage), Remember(r, w),
               UNCHANGED <<req, reply, rowVars>>, Knows(w, s),
               w.status = "complete" => status[s] = "complete",
               stage = "replay" => StoredFinal(s, req[r].text)
        PROVE  Truthful(r)'
    <2>1. pc'[r] = stage /\ work'[r] = w /\ req' = req
      BY <1>1, <1>4, Types DEF GoTo, Remember
    <2>2. KnowsSession(r)'
      BY <1>4, <2>1 DEF KnowsSession, Knows, StoredFinal, rowVars
    <2> QED
      BY <1>1, <1>3, <1>4, <2>2, MoveIsTruthful
  <1>5. CASE AnswerReadProbes(r)
    <2> DEFINE w == [work[r] EXCEPT !.probes = probes[s],
                       !.answer = [answer[s] EXCEPT ![0] = work[r].answer[0]]]
    <2>1. w \in Works /\ Knows(w, s) /\ w.probes = probes[s] /\ w.status = work[r].status
      BY <1>1, <1>2, <1>3, ReadProbesIsKnown
    <2>2. /\ \/ End(r, Reply("mismatch"))
             \/ RepeatsTurn(w, req[r]) /\ AskAgain(r, ProbeAfter(w, req[r]))
             \/ /\ RepeatsFinal(w, req[r])
                /\ GoTo(r, "replay") /\ Remember(r, w)
                /\ UNCHANGED <<req, reply>>
             \/ Refuse(r)
             \/ GoTo(r, "account") /\ Remember(r, w) /\ UNCHANGED <<req, reply>>
          /\ UNCHANGED rowVars
      BY <1>5 DEF AnswerReadProbes
    <2> HIDE DEF w
    <2>3. CASE RepeatsTurn(w, req[r]) /\ AskAgain(r, ProbeAfter(w, req[r]))
      <3>1. /\ ProbeAfter(w, req[r]) > 0
            /\ answer'[s][ProbeAfter(w, req[r]) - 1] = req[r].text
        BY <1>1, <1>2, <2>1, <2>2, <2>3, RepeatIsStored DEF rowVars
      <3> QED
        BY <1>1, <1>2, <2>3, <3>1, AskAgainIsTruthful
    <2>4. CASE /\ RepeatsFinal(w, req[r])
               /\ GoTo(r, "replay") /\ Remember(r, w)
               /\ UNCHANGED <<req, reply>>
      <3>1. StoredFinal(s, req[r].text)
        BY <1>1, <1>2, <1>3, <2>1, <2>4, FinalIsStored
      <3> QED
        BY <1>3, <1>4, <2>1, <2>2, <2>4, <3>1
    <2>5. CASE GoTo(r, "account") /\ Remember(r, w) /\ UNCHANGED <<req, reply>>
      BY <1>3, <1>4, <2>1, <2>2, <2>5
    <2> QED
      BY <1>1, <2>2, <2>3, <2>4, <2>5, EndIsTruthful
  <1>6. CASE AnswerReplay(r)
    <2>1. pc[r] = "replay" /\ ReportOrRefuse(r) /\ UNCHANGED rowVars
      BY <1>6 DEF AnswerReplay, At
    <2>2. CASE Report(r)
      <3>1. req'[r] = req[r]
        BY <1>1, <2>2, Types DEF Report, End, Reply
      <3>2. StoredFinal(s, req[r].text)'
        BY <1>3, <2>1, <3>1 DEF StoredFinal, rowVars
      <3> QED
        BY <1>1, <1>2, <2>2, <3>2, ReportIsTruthful
    <2> QED
      BY <1>1, <2>1, <2>2, EndIsTruthful DEF ReportOrRefuse
  <1>7. CASE AnswerTakeCard(r)
    <2> DEFINE w == Reloaded(work[r], s)
    <2>1. w \in Works /\ Knows(w, s) /\ w.probes = probes[s] /\ w.status = status[s]
      BY <1>1, <1>2, <1>3, ReloadedIsKnown
    <2>2. /\ \/ End(r, Reply("mismatch"))
             \/ RepeatsFinal(w, req[r]) /\ ReportOrRefuse(r)
             \/ Refuse(r)
             \/ RepeatsTurn(w, req[r]) /\ AskAgain(r, ProbeAfter(w, req[r]))
             \/ GoTo(r, "provider") /\ Remember(r, w) /\ UNCHANGED <<req, reply>>
          /\ UNCHANGED rowVars
      BY <1>7 DEF AnswerTakeCard, ScoreUnderCard
    <2> HIDE DEF w
    <2>3. CASE RepeatsTurn(w, req[r]) /\ AskAgain(r, ProbeAfter(w, req[r]))
      <3>1. /\ ProbeAfter(w, req[r]) > 0
            /\ answer'[s][ProbeAfter(w, req[r]) - 1] = req[r].text
        BY <1>1, <1>2, <2>1, <2>2, <2>3, RepeatIsStored DEF rowVars
      <3> QED
        BY <1>1, <1>2, <2>3, <3>1, AskAgainIsTruthful
    <2>4. CASE RepeatsFinal(w, req[r]) /\ ReportOrRefuse(r)
      <3>1. StoredFinal(s, req[r].text)
        BY <1>1, <1>2, <1>3, <2>1, <2>4, FinalIsStored
      <3>2. CASE Report(r)
        <4>1. req'[r] = req[r]
          BY <1>1, <3>2, Types DEF Report, End, Reply
        <4>2. StoredFinal(s, req[r].text)'
          BY <2>2, <3>1, <4>1 DEF StoredFinal, rowVars
        <4> QED
          BY <1>1, <1>2, <3>2, <4>2, ReportIsTruthful
      <3> QED
        BY <1>1, <2>4, <3>2, EndIsTruthful DEF ReportOrRefuse
    <2>5. CASE GoTo(r, "provider") /\ Remember(r, w) /\ UNCHANGED <<req, reply>>
      BY <1>4, <2>1, <2>2, <2>5
    <2> QED
      BY <1>1, <2>2, <2>3, <2>4, <2>5, EndIsTruthful
  <1>8. CASE AnswerScored(r)
    <2>1. ASSUME NEW verdict \in Qualities \cup {"follow_up"},
                 GoTo(r, "write"), Remember(r, [work[r] EXCEPT !.verdict = verdict]),
                 UNCHANGED <<req, reply, rowVars>>
          PROVE  Truthful(r)'
      <3> DEFINE w == [work[r] EXCEPT !.verdict = verdict]
      <3>1. w \in Works /\ w.answer = work[r].answer /\ w.status = work[r].status
        BY <1>2 DEF Works
      <3>2. Knows(w, s)
        BY <1>3, <3>1 DEF Knows
      <3> QED
        BY <1>3, <1>4, <2>1, <3>1, <3>2
    <2> QED
      BY <1>1, <1>8, <2>1, EndIsTruthful DEF AnswerScored
  <1>9. CASE AnswerCommitFollowUp(r)
    <2>1. Continued(s, req[r].text) /\ work[r].probes = probes[s]
      BY <1>9, FollowUpContinues
    <2>2. probes[s] \in Turns /\ probes[s] \in Nat
      BY <1>1, <1>2, Types, TurnFacts
    <2>3. answer'[s][probes[s]] = req[r].text
      BY <1>1, <1>2, <2>1, <2>2, Types DEF Continued, Answered
    <2>4. AskAgain(r, probes[s] + 1)
      BY <1>9, <2>1 DEF AnswerCommitFollowUp
    <2>5. probes[s] + 1 > 0 /\ (probes[s] + 1) - 1 = probes[s]
      BY <2>2
    <2> QED
      BY <1>1, <1>2, <2>3, <2>4, <2>5, AskAgainIsTruthful
  <1>10. CASE AnswerCommitComplete(r)
    <2>1. PICK quality : Finished(s, req[r].text, quality)
      BY <1>10, CompletionFinishes
    <2>2. probes[s] \in Turns
      BY <1>1, <1>2, Types
    <2>3. status'[s] = "complete" /\ answer'[s][probes'[s]] = req[r].text
      BY <1>1, <1>2, <2>1, <2>2, Types DEF Finished, Answered
    <2>4. End(r, [Reply("completed") EXCEPT !.schedule = schedule'])
      BY <1>10 DEF AnswerCommitComplete
    <2>5. pc'[r] = "idle" /\ req'[r] = req[r] /\ reply'[r].kind = "completed"
      BY <1>1, <2>4, Types DEF End, GoTo, Reply
    <2> QED
      BY <1>2, <2>3, <2>5 DEF Truthful, KnowsSession, TellsTruth, StoredFinal
  <1> QED
    BY <1>5, <1>6, <1>7, <1>8, <1>9, <1>10

\* The other steps of the handlers that score or coach: they never look at the
\* transcript of their session again.
LEMMA CoachIsTruthful ==
  ASSUME TypeOK, RequestHasTarget, NEW r \in Requests, Truthful(r),
         \/ ScorerTakeAccount(r) \/ CoachScored(r)
         \/ ReattemptReplay(r) \/ ReattemptTakeCard(r) \/ ReattemptCommit(r)
         \/ CoachingTakeCard(r) \/ CoachingCommit(r)
  PROVE  Truthful(r)'
  <1>0. TellsTruth(r)
    BY DEF Truthful
  <1>1. CASE ScorerTakeAccount(r)
    <2>1. CASE GoTo(r, "card") /\ UNCHANGED <<req, work, reply, rowVars>>
      <3>1. pc[r] # "idle" /\ pc'[r] = "card"
        BY <1>1, <2>1, Types DEF ScorerTakeAccount, GoTo
      <3>2. KnowsSession(r)'
        BY <2>1, <3>1 DEF Truthful, KnowsSession, Knows, rowVars
      <3> QED
        BY <1>0, <2>1, <3>1, <3>2, MoveIsTruthful
    <2> QED
      BY <1>1, <2>1, EndIsTruthful DEF ScorerTakeAccount
  <1>2. CASE CoachScored(r)
    <2>1. pc[r] # "idle" /\ req[r].op # "answer"
      BY <1>2 DEF CoachScored
    <2> QED
      BY <1>0, <1>2, <2>1, EndIsTruthful, MoveIsTruthful DEF CoachScored
  <1>3. CASE ReattemptTakeCard(r) \/ CoachingTakeCard(r)
    <2>1. pc[r] # "idle" /\ req[r].op # "answer"
      BY <1>3 DEF ReattemptTakeCard, CoachingTakeCard, At
    <2> QED
      BY <1>0, <1>3, <2>1, EndIsTruthful, MoveIsTruthful
         DEF ReattemptTakeCard, CoachingTakeCard, ScoreUnderCard
  <1>4. CASE ReattemptReplay(r) \/ ReattemptCommit(r) \/ CoachingCommit(r)
    BY <1>4, EndIsTruthful DEF ReattemptReplay, ReattemptCommit, CoachingCommit
  <1> QED
    BY <1>1, <1>2, <1>3, <1>4

\* A handler replies to its own request only.
RepliesTo(r) == \A q \in Requests \ {r} : reply'[q] = reply[q]
LEMMA RepliesStand ==
  ASSUME TypeOK, NEW r \in Requests, Calls(r) \/ Step(r) \/ Crash(r)
  PROVE  RepliesTo(r)
  <1>1. reply \in [Requests -> Replies]
    BY Types
  <1>2. /\ \A rep : End(r, rep) => RepliesTo(r)
        /\ Refuse(r) \/ Report(r) \/ ReportOrRefuse(r)
             \/ OkUnlessReviewedSince(r) \/ RefusedConsent(r) => RepliesTo(r)
        /\ \A turn, f, d : Resume(r, turn, f, d) => RepliesTo(r)
        /\ \A turn : AskAgain(r, turn) => RepliesTo(r)
    <2>1. ASSUME NEW rep, End(r, rep) PROVE RepliesTo(r)
      BY <1>1, <2>1 DEF End, RepliesTo
    <2> QED
      BY <2>1 DEF Refuse, Report, ReportOrRefuse, OkUnlessReviewedSince,
         RefusedConsent, Resume, AskAgain
  <1>3. reply' = reply => RepliesTo(r)
    BY DEF RepliesTo
  <1>4. \A q, stage : Call(r, q, stage) => RepliesTo(r)
    BY <1>1 DEF Call, RepliesTo
  <1>5. \A account : ResumeLive(r, account) => RepliesTo(r)
    BY <1>2, <1>3 DEF ResumeLive
  <1>6. CASE Calls(r)
    BY <1>4, <1>6 DEF Calls, StartCall, DraftCall, AbandonCall, AnswerCall,
       ReattemptCall, CoachingCall, AfterScore
  <1>7. CASE \/ StartRead(r) \/ ResumeRead(r) \/ StartTakeAccount(r)
             \/ GenerateQuestion(r) \/ DraftWrite(r) \/ AbandonCommit(r)
    BY <1>2, <1>3, <1>5, <1>7 DEF StartRead, ResumeRead, StartTakeAccount,
       GenerateQuestion, DraftWrite, AbandonCommit
  <1>8. CASE StartInsert(r) \/ Crash(r)
    BY <1>2, <1>3, <1>8 DEF StartInsert, InsertSession, Crash
  <1>9. CASE \/ AnswerReadProbes(r) \/ AnswerReplay(r) \/ AnswerTakeCard(r)
             \/ AnswerScored(r) \/ AnswerCommitFollowUp(r) \/ AnswerCommitComplete(r)
    BY <1>2, <1>3, <1>9 DEF AnswerReadProbes, AnswerReplay, AnswerTakeCard,
       AnswerScored, AnswerCommitFollowUp, AnswerCommitComplete, ScoreUnderCard
  <1>10. CASE \/ ScorerTakeAccount(r) \/ CoachScored(r)
              \/ ReattemptReplay(r) \/ ReattemptTakeCard(r) \/ ReattemptCommit(r)
              \/ CoachingTakeCard(r) \/ CoachingCommit(r)
    BY <1>2, <1>3, <1>10 DEF ScorerTakeAccount, CoachScored, ReattemptReplay,
       ReattemptTakeCard, ReattemptCommit, CoachingTakeCard, CoachingCommit,
       ScoreUnderCard
  <1> QED
    BY <1>6, <1>7, <1>8, <1>9, <1>10 DEF Step

\* A handler's step keeps every request truthful: its own by what it just did, the
\* others because nothing they rely on has changed.
LEMMA HandlersStayTruthful ==
  ASSUME IInv, TranscriptHasNoGap, RequestsTellTruth,
         NEW r \in Requests, Calls(r) \/ Step(r) \/ Crash(r)
  PROVE  RequestsTellTruth'
  <1>1. TypeOK /\ RequestHasTarget /\ Truthful(r) /\ TellsTruth(r)
    BY DEF IInv, RequestsTellTruth, Truthful
  <1>2. TextGrows
    BY <1>1, TextStepOfHandler, AnswersOnlyGrow
  <1>3. OthersUndisturbed(r) /\ RepliesTo(r)
    BY <1>1, StepFrame, RepliesStand
  <1>4. Truthful(r)'
    <2>1. CASE Calls(r)
      BY <1>1, <2>1, CallIsTruthful
    <2>2. CASE Crash(r)
      BY <1>1, <2>2, EndIsTruthful DEF Crash
    <2>3. CASE Step(r)
      BY <1>1, <2>3, StartIsTruthful, AnswerIsTruthful, CoachIsTruthful DEF Step
    <2> QED
      BY <2>1, <2>2, <2>3
  <1>5. ASSUME NEW q \in Requests \ {r}
        PROVE  Truthful(q)'
    <2>1. /\ pc'[q] = pc[q] /\ req'[q] = req[q] /\ work'[q] = work[q]
          /\ reply'[q] = reply[q] /\ Truthful(q)
      BY <1>3 DEF OthersUndisturbed, Undisturbed, RepliesTo, RequestsTellTruth, Truthful
    <2> QED
      BY <1>1, <1>2, <2>1, TruthIsStable
  <1> QED
    BY <1>4, <1>5 DEF RequestsTellTruth, Truthful

------------------------------------------------------------------------------
(* The question.                                                              *)

\* The question of a card changes only while no session has asked it, except that
\* the first session stores the one it was generated; a generated question that
\* is stored was made from the card's present inputs.
QuestionStep ==
  /\ question' \in {question, None, inputs'}
  /\ \/ question' = question /\ SameText
     \/ question' = question /\ (\A s \in Sessions :
          status'[s] = status[s] \/ status[s] # "none") /\ setup' = setup
     \/ NoHistory /\ SameText
     \/ \E s \in Sessions, u \in Setups :
          /\ question' # None /\ question \in {None, question'}
          /\ status' = [status EXCEPT ![s] = "open"]
          /\ setup' = [setup EXCEPT ![s] = u] /\ u.asked = question'

\* A session that begins asks the card's question, or the one it brings.
LEMMA InsertAsks ==
  ASSUME TypeOK, NEW r \in Requests, Insertable(r), InsertSession(r)
  PROVE  QuestionStep
  <1>1. PICK s \in Sessions, contract \in Contracts :
          /\ question' = IF question = None THEN work[r].generated ELSE question
          /\ status' = [status EXCEPT ![s] = "open"]
          /\ setup' = [setup EXCEPT ![s] = [practice |-> req[r].practice,
                                            contract |-> contract,
                                            asked |-> question']]
          /\ inputs' = inputs
    BY DEF InsertSession
  <1> DEFINE u == [practice |-> req[r].practice, contract |-> contract,
                   asked |-> question']
  <1>2. u \in Setups /\ u.asked = question'
    BY <1>1, InputAssumption
       DEF TypeOK, CardTypes, RequestTypes, RequestRecords, Works, Setups
  <1>3. question' # None /\ question \in {None, question'}
    BY <1>1 DEF Insertable
  <1>4. question' \in {question, None, inputs'}
    BY <1>1 DEF Insertable, StaleGeneration
  <1> HIDE DEF u
  <1>5. setup' = [setup EXCEPT ![s] = u]
    BY <1>1 DEF u
  <1> QED
    BY <1>1, <1>2, <1>3, <1>4, <1>5 DEF QuestionStep

\* No other handler touches the question.
LEMMA QuestionStepOfHandler ==
  ASSUME IInv, NEW r \in Requests, Calls(r) \/ Step(r) \/ Crash(r)
  PROVE  QuestionStep
  <1> USE DEF cardVars, rowVars
  <1>0. TypeOK
    BY DEF IInv
  <1>1. CASE StartInsert(r) /\ Insertable(r) /\ InsertSession(r)
    BY <1>0, <1>1, InsertAsks
  <1>2. CASE question' = question /\ inputs' = inputs /\ SameText
    BY <1>2 DEF QuestionStep
  <1>4. CASE AbandonCommit(r) \/ AnswerCommitFollowUp(r) \/ AnswerCommitComplete(r)
    <2>1. question' = question /\ setup' = setup
      BY <1>4 DEF AbandonCommit, AnswerCommitFollowUp, AnswerCommitComplete
    <2>2. \A s \in Sessions : status'[s] = status[s] \/ status[s] # "none"
      <3>1. CASE AbandonCommit(r)
        BY <1>0, <3>1, Types DEF AbandonCommit, Live
      <3>2. CASE AnswerCommitFollowUp(r)
        BY <1>0, <3>2, Types, FollowUpContinues DEF Continued, Answered, Live
      <3>3. CASE AnswerCommitComplete(r)
        BY <1>0, <3>3, Types, CompletionFinishes DEF Finished, Answered, Live
      <3> QED
        BY <1>4, <3>1, <3>2, <3>3
    <2> QED
      BY <2>1, <2>2 DEF QuestionStep
  <1>5. CASE Calls(r)
    BY <1>2, <1>5 DEF Calls, StartCall, DraftCall, AbandonCall, AnswerCall,
       ReattemptCall, CoachingCall, AfterScore, SameText
  <1>6. CASE \/ StartRead(r) \/ ResumeRead(r) \/ StartTakeAccount(r)
             \/ GenerateQuestion(r) \/ DraftWrite(r) \/ Crash(r)
    BY <1>2, <1>6 DEF StartRead, ResumeRead, StartTakeAccount, GenerateQuestion,
       DraftWrite, Crash, SameText
  <1>7. CASE StartInsert(r)
    BY <1>1, <1>2, <1>7 DEF StartInsert, SameText
  <1>8. CASE \/ AnswerReadProbes(r) \/ AnswerReplay(r) \/ AnswerTakeCard(r)
             \/ AnswerScored(r) \/ ScorerTakeAccount(r) \/ CoachScored(r)
    BY <1>2, <1>8 DEF AnswerReadProbes, AnswerReplay, AnswerTakeCard, AnswerScored,
       ScorerTakeAccount, CoachScored, SameText
  <1>9. CASE \/ ReattemptReplay(r) \/ ReattemptTakeCard(r) \/ ReattemptCommit(r)
             \/ CoachingTakeCard(r) \/ CoachingCommit(r)
    BY <1>2, <1>9 DEF ReattemptReplay, ReattemptTakeCard, ReattemptCommit,
       CoachingTakeCard, CoachingCommit, SameText
  <1> QED
    BY <1>4, <1>5, <1>6, <1>7, <1>8, <1>9 DEF Step

\* Of the handlers of one critical section, only an edit of a card without history
\* changes the question, to the edited inputs' or to none.
LEMMA EnvironmentAsks ==
  ASSUME Environment
  PROVE  QuestionStep
  <1>1. CASE EditGrounding
    BY <1>1, EnvironmentKeepsText DEF EditGrounding, QuestionStep
  <1>2. CASE OpenLearning \/ RecallHoldEnds \/ ArchiveCard \/ RestoreCard \/ RecordConsent
    BY <1>2, EnvironmentKeepsText DEF OpenLearning, RecallHoldEnds, ArchiveCard,
       RestoreCard, RecordConsent, QuestionStep, cardVars
  <1> QED
    BY <1>1, <1>2 DEF Environment

\* Whatever the step, every session there is asks the card's question.
LEMMA QuestionStays ==
  ASSUME TypeOK, OneQuestionPerCard, QuestionStep
  PROVE  OneQuestionPerCard'
  <1>1. CASE /\ question' = question /\ setup' = setup
             /\ \A s \in Sessions : status'[s] = status[s] \/ status[s] # "none"
    BY <1>1 DEF OneQuestionPerCard
  <1>2. CASE NoHistory /\ SameText
    BY <1>2 DEF NoHistory, SameText, OneQuestionPerCard
  <1>3. ASSUME NEW s \in Sessions, NEW u \in Setups,
               question' # None, question \in {None, question'},
               status' = [status EXCEPT ![s] = "open"],
               setup' = [setup EXCEPT ![s] = u], u.asked = question'
        PROVE  OneQuestionPerCard'
    <2>1. ASSUME NEW t \in Sessions, status'[t] # "none"
          PROVE  question' # None /\ setup'[t].asked = question'
      <3>1. CASE t = s
        BY <1>3, <3>1, Types
      <3>2. CASE t # s
        BY <1>3, <2>1, <3>2, Types DEF OneQuestionPerCard
      <3> QED
        BY <3>1, <3>2
    <2> QED
      BY <2>1 DEF OneQuestionPerCard
  <1> QED
    BY <1>1, <1>2, <1>3 DEF QuestionStep, SameText

------------------------------------------------------------------------------
(* The theorems.                                                              *)

\* Nothing is stored, known or replied before the first call.
LEMMA InitTInv == Init => TInv
  <1> SUFFICES ASSUME Init PROVE TInv
    OBVIOUS
  <1>1. TranscriptHasNoGap
    <2>1. \A s \in Sessions : AnsweredTurns(s) = {} /\ status[s] = "none" /\ probes[s] = 0
      BY DEF Init, AnsweredTurns
    <2> QED
      BY <2>1 DEF TranscriptHasNoGap
  <1>2. RequestsTellTruth
    BY DEF Init, RequestsTellTruth, KnowsSession, TellsTruth, Reply
  <1>3. DraftBelongsToTurn /\ UnusedIsBlank /\ OneQuestionPerCard
    BY DEF Init, DraftBelongsToTurn, UnusedIsBlank, OneQuestionPerCard,
       LiveSessions, Live
  <1> QED
    BY <1>1, <1>2, <1>3, InitIInv DEF TInv

\* The strengthened invariant of the transcript is inductive over the one of the
\* locks: what a handler read before it had the card lock can only be incomplete.
THEOREM TranscriptInvariant == Spec => []TInv
  <1>1. IInv /\ IInv' /\ TInv /\ [Next]_vars => TInv'
    <2> SUFFICES ASSUME IInv, IInv', TInv, [Next]_vars PROVE TInv'
      OBVIOUS
    <2>0. /\ TypeOK /\ TypeOK' /\ TranscriptHasNoGap /\ RequestsTellTruth
          /\ DraftBelongsToTurn /\ UnusedIsBlank /\ OneQuestionPerCard
      BY DEF TInv, IInv
    <2>1. ASSUME NEW r \in Requests, Calls(r) \/ Step(r) \/ Crash(r)
          PROVE  TInv'
      <3>1. TextStep /\ DraftStep /\ QuestionStep
        BY <2>0, <2>1, TextStepOfHandler, DraftStepOfHandler, QuestionStepOfHandler
      <3>2. TranscriptHasNoGap'
        BY <2>0, <3>1, TextKeepsNoGap
      <3>3. RequestsTellTruth'
        BY <2>0, <2>1, HandlersStayTruthful
      <3>4. DraftBelongsToTurn' /\ UnusedIsBlank'
        BY <2>0, <3>1, DraftsBelong
      <3>5. OneQuestionPerCard'
        BY <2>0, <3>1, QuestionStays
      <3> QED
        BY <3>2, <3>3, <3>4, <3>5 DEF TInv
    <2>2. CASE Environment
      <3>1. SameText /\ UNCHANGED rowVars /\ UNCHANGED reqVars /\ QuestionStep
        BY <2>2, EnvironmentKeepsText, EnvironmentAsks
      <3>2. OneQuestionPerCard'
        BY <2>0, <3>1, QuestionStays
      <3>3. TranscriptHasNoGap' /\ DraftBelongsToTurn' /\ UnusedIsBlank'
        BY <2>0, <3>1 DEF rowVars, TranscriptHasNoGap, AnsweredTurns,
           DraftBelongsToTurn, UnusedIsBlank, LiveSessions
      <3>4. RequestsTellTruth'
        BY <2>0, <3>1 DEF rowVars, reqVars, RequestsTellTruth, KnowsSession, Knows,
           TellsTruth, StoredFinal
      <3> QED
        BY <3>2, <3>3, <3>4 DEF TInv
    <2>3. CASE UNCHANGED vars
      <3>1. UNCHANGED rowVars /\ UNCHANGED reqVars /\ question' = question
        BY <2>3 DEF vars, cardVars
      <3>2. /\ TranscriptHasNoGap' /\ DraftBelongsToTurn' /\ UnusedIsBlank'
            /\ OneQuestionPerCard'
        BY <2>0, <3>1 DEF rowVars, TranscriptHasNoGap, AnsweredTurns,
           DraftBelongsToTurn, UnusedIsBlank, LiveSessions, OneQuestionPerCard
      <3>3. RequestsTellTruth'
        BY <2>0, <3>1 DEF rowVars, reqVars, RequestsTellTruth, KnowsSession, Knows,
           TellsTruth, StoredFinal
      <3> QED
        BY <3>2, <3>3 DEF TInv
    <2> QED
      BY <2>1, <2>2, <2>3 DEF Next
  <1> QED
    BY <1>1, InitTInv, InductiveInvariant, PTL DEF Spec

\* A learner's transcript has no gap, an acknowledged answer is stored, and a draft
\* belongs to the turn the session waits for.
THEOREM TranscriptFaithful == Spec => []TranscriptIsFaithful
  <1>1. TInv => TranscriptIsFaithful
    BY DEF TInv, RequestsTellTruth, TellsTruth, TranscriptIsFaithful,
       AcknowledgedAnswerIsStored, StoredFinal
  <1> QED
    BY <1>1, TranscriptInvariant, PTL

\* Every session of a card asks the card's one question, and a generated question
\* is stored only if it was made from the inputs the card has.
THEOREM QuestionIsStable == Spec => QuestionStands
  <1>1. TInv => OneQuestionPerCard
    BY DEF TInv
  <1>2. TInv /\ [Next]_vars => [question' \in {question, None, inputs'}]_vars
    <2> SUFFICES ASSUME IInv, Next PROVE question' \in {question, None, inputs'}
      BY DEF TInv
    <2> QED
      BY QuestionStepOfHandler, EnvironmentAsks DEF Next, QuestionStep
  <1> QED
    BY <1>1, <1>2, TranscriptInvariant, PTL DEF Spec, QuestionStands, QuestionIsFresh

------------------------------------------------------------------------------
(* The refinement.                                                            *)

\* The log of a session is as long as the turns it has answered.
LEMMA LogLength ==
  ASSUME TypeOK, TranscriptHasNoGap, NEW s \in Sessions
  PROVE  /\ IsFiniteSet(AnsweredTurns(s))
         /\ Cardinality(AnsweredTurns(s)) =
              IF status[s] = "complete" THEN probes[s] + 1 ELSE probes[s]
         /\ LogOf(s) \in Seq(Texts \cup {None})
         /\ Len(LogOf(s)) = Cardinality(AnsweredTurns(s))
  <1>1. probes[s] \in Turns /\ probes[s] \in Nat /\ probes[s] <= MaxFollowUps
    BY Types, TurnFacts
  <1> DEFINE n == IF status[s] = "complete" THEN probes[s] + 1 ELSE probes[s]
  <1>2. AnsweredTurns(s) = 0 .. (n - 1)
    BY <1>1 DEF TranscriptHasNoGap
  <1>3. n \in Nat /\ n <= MaxFollowUps + 1
    BY <1>1, BoundsAssumption
  <1> HIDE DEF n
  <1>4. IsFiniteSet(AnsweredTurns(s)) /\ Cardinality(AnsweredTurns(s)) = n
    BY <1>2, <1>3, FS_Interval
  <1>5. \A i \in 1 .. n : answer[s][i - 1] \in Texts \cup {None}
    <2>1. \A i \in 1 .. n : i - 1 \in Turns
      BY <1>3, BoundsAssumption DEF Turns
    <2> QED
      BY <2>1, Types
  <1>6. LogOf(s) = [i \in 1 .. n |-> answer[s][i - 1]]
    BY <1>4 DEF LogOf
  <1>7. LogOf(s) \in Seq(Texts \cup {None}) /\ Len(LogOf(s)) = n
    BY <1>3, <1>5, <1>6
  <1> QED
    BY <1>4, <1>7 DEF n

\* The sequence that has one more element, x, than q is Append(q, x).
LEMMA AppendIs ==
  ASSUME NEW S, NEW q \in Seq(S), NEW x \in S, NEW f \in Seq(S),
         Len(f) = Len(q) + 1,
         \A i \in 1 .. Len(q) + 1 : f[i] = IF i = Len(q) + 1 THEN x ELSE q[i]
  PROVE  f = Append(q, x)
  OBVIOUS

\* Answering a turn appends its text to the log of its session.
LEMMA AnswerAppends ==
  ASSUME TypeOK, TypeOK', TranscriptHasNoGap, TranscriptHasNoGap',
         NEW s \in Sessions, NEW x, Answered(s, x)
  PROVE  [u \in Sessions |-> LogOf(u)]' =
           [[u \in Sessions |-> LogOf(u)] EXCEPT ![s] = Append(@, x)]
  <1>1. /\ AnsweredTurns(s)' = 0 .. probes[s] /\ AnsweredTurns(s) = 0 .. (probes[s] - 1)
        /\ \A u \in Sessions \ {s} : AnsweredTurns(u)' = AnsweredTurns(u)
    BY AnsweredTurnsGrow DEF Answered, TranscriptHasNoGap, Live
  <1>2. probes[s] \in Turns /\ probes[s] \in Nat /\ probes[s] <= MaxFollowUps
    BY Types, TurnFacts
  <1>3. Cardinality(AnsweredTurns(s)) = probes[s]
    BY LogLength DEF Answered, Live
  <1>4. Cardinality(AnsweredTurns(s)') = probes[s] + 1
    BY <1>1, <1>2, FS_Interval
  <1>5. /\ answer' = [answer EXCEPT ![s][probes[s]] = x]
        /\ answer \in [Sessions -> [Turns -> Texts \cup {None}]]
    BY Types DEF Answered
  <1>6. LogOf(s)' = [i \in 1 .. probes[s] + 1 |-> answer'[s][i - 1]]
    BY <1>4 DEF LogOf
  <1>7. /\ LogOf(s) = [i \in 1 .. probes[s] |-> answer[s][i - 1]]
        /\ LogOf(s) \in Seq(Texts \cup {None}) /\ Len(LogOf(s)) = probes[s]
    BY <1>3, LogLength DEF LogOf
  <1>8. ASSUME NEW i \in 1 .. probes[s] + 1
        PROVE  answer'[s][i - 1] = IF i = probes[s] + 1 THEN x ELSE LogOf(s)[i]
    <2>1. i - 1 \in Turns
      BY <1>2, BoundsAssumption DEF Turns
    <2>2. answer'[s][i - 1] = IF i - 1 = probes[s] THEN x ELSE answer[s][i - 1]
      BY <1>2, <1>5, <2>1
    <2> QED
      BY <1>2, <1>7, <2>2
  <1>9. LogOf(s)' = Append(LogOf(s), x)
    <2> DEFINE S == Texts \cup {None}
               f == LogOf(s)'
    <2>1. x \in S /\ answer'[s] \in [Turns -> S]
      BY <1>5 DEF Answered
    <2>2. \A i \in 1 .. probes[s] + 1 : answer'[s][i - 1] \in S
      <3>1. \A i \in 1 .. probes[s] + 1 : i - 1 \in Turns
        BY <1>2, BoundsAssumption DEF Turns
      <3> QED
        BY <2>1, <3>1
    <2>3. f \in Seq(S) /\ Len(f) = Len(LogOf(s)) + 1
      BY <1>2, <1>6, <1>7, <2>2
    <2>4. \A i \in 1 .. Len(LogOf(s)) + 1 :
            f[i] = IF i = Len(LogOf(s)) + 1 THEN x ELSE LogOf(s)[i]
      BY <1>6, <1>7, <1>8
    <2>5. LogOf(s) \in Seq(S)
      BY <1>7
    <2> HIDE DEF S, f
    <2>6. f = Append(LogOf(s), x)
      BY <2>1, <2>3, <2>4, <2>5, AppendIs
    <2> QED
      BY <2>6 DEF f
  <1>10. \A u \in Sessions \ {s} : answer'[u] = answer[u]
    BY <1>5
  <1>11. \A u \in Sessions \ {s} : LogOf(u)' = LogOf(u)
    BY <1>1, <1>10 DEF LogOf
  <1> QED
    BY <1>9, <1>11

\* Every step of the transcripts is a step of the log, or leaves it as it is.
LEMMA TextStepImplements ==
  ASSUME TypeOK, TypeOK', TranscriptHasNoGap, TranscriptHasNoGap', TextStep
  PROVE  [Log!Next]_(Log!logVars)
  <1> DEFINE phase == [s \in Sessions |-> PhaseOf(s)]
             practice == [s \in Sessions |-> setup[s].practice]
             log == [s \in Sessions |-> LogOf(s)]
  <1>a. setup \in [Sessions -> Setups] /\ status \in [Sessions -> Live \cup {"none", "complete", "abandoned"}]
    BY Types
  <1>1. ASSUME NEW s \in Sessions, NEW st \in {"open", "awaiting", "complete", "abandoned"},
               status' = [status EXCEPT ![s] = st]
        PROVE  phase' = [phase EXCEPT ![s] = IF st \in Live THEN "live" ELSE st]
    BY <1>a, <1>1 DEF PhaseOf
  <1>2. ASSUME NEW s \in Sessions, Begun(s)
        PROVE  Log!Next
    <2>1. PICK u \in Setups : setup' = [setup EXCEPT ![s] = u]
      BY <1>2 DEF Begun
    <2>2. practice' = [practice EXCEPT ![s] = u.practice] /\ u.practice \in BOOLEAN
      BY <1>a, <2>1 DEF Setups
    <2>3. phase' = [phase EXCEPT ![s] = "live"] /\ phase[s] = "none"
      BY <1>1, <1>2 DEF Begun, Live, PhaseOf
    <2>4. log' = log /\ schedule' = schedule
      BY <1>2 DEF Begun, LogOf, AnsweredTurns
    <2>5. \A t \in Sessions : phase[t] # "live"
      BY <1>2, <1>a DEF Begun, PhaseOf, LiveSessions
    <2>6. Log!Begin(s, u.practice)
      BY <2>2, <2>3, <2>4, <2>5 DEF Log!Begin
    <2> QED
      BY <2>2, <2>6 DEF Log!Next
  <1>3. ASSUME NEW s \in Sessions, GivenUp(s)
        PROVE  Log!Next
    <2>1. phase[s] = "live" /\ phase' = [phase EXCEPT ![s] = "abandoned"]
      BY <1>1, <1>3 DEF GivenUp, PhaseOf, Live
    <2>2. log' = log /\ practice' = practice /\ schedule' = schedule
      BY <1>3 DEF GivenUp, LogOf, AnsweredTurns
    <2>3. Log!Abandon(s)
      BY <2>1, <2>2 DEF Log!Abandon
    <2> QED
      BY <2>3 DEF Log!Next
  <1>4. ASSUME NEW s \in Sessions, NEW x \in Texts, Continued(s, x)
        PROVE  Log!Next
    <2>1. Answered(s, x) /\ log' = [log EXCEPT ![s] = Append(@, x)]
      BY <1>4, AnswerAppends DEF Continued
    <2>2. status[s] \in Live /\ practice' = practice /\ schedule' = schedule
      BY <1>4 DEF Continued, Answered
    <2>3. status' = [status EXCEPT ![s] = "awaiting"] /\ probes[s] < MaxFollowUps
      BY <1>4 DEF Continued
    <2>4. phase[s] = "live" /\ phase' = phase
      BY <1>1, <1>a, <2>2, <2>3 DEF PhaseOf, Live
    <2>5. Len(log[s]) = probes[s]
      BY <2>2, LogLength DEF Live
    <2>6. Log!Continue(s, x)
      BY <2>1, <2>2, <2>3, <2>4, <2>5 DEF Log!Continue
    <2> QED
      BY <2>6 DEF Log!Next
  <1>5. ASSUME NEW s \in Sessions, NEW x \in Texts, NEW quality \in Qualities,
               Finished(s, x, quality)
        PROVE  Log!Next
    <2>1. Answered(s, x) /\ log' = [log EXCEPT ![s] = Append(@, x)]
      BY <1>5, AnswerAppends DEF Finished
    <2>2. status[s] \in Live /\ practice' = practice
      BY <1>5 DEF Finished, Answered
    <2>3. phase[s] = "live" /\ phase' = [phase EXCEPT ![s] = "complete"]
      BY <1>1, <1>5, <2>2 DEF Finished, PhaseOf, Live
    <2>4. schedule' = IF practice[s] THEN schedule ELSE Append(schedule, quality)
      BY <1>5 DEF Finished, NextSchedule
    <2>5. Log!Finish(s, x, quality)
      BY <2>1, <2>2, <2>3, <2>4 DEF Log!Finish
    <2> QED
      BY <2>5 DEF Log!Next, Qualities
  <1>6. CASE SameText
    <2>1. phase' = phase /\ practice' = practice /\ log' = log /\ schedule' = schedule
      BY <1>6 DEF SameText, PhaseOf, LogOf, AnsweredTurns
    <2> QED
      BY <2>1 DEF Log!logVars
  <1> QED
    BY <1>2, <1>3, <1>4, <1>5, <1>6 DEF TextStep

\* Every behaviour of the handlers is one of the log of a single learner: no retry,
\* race or crash loses an acknowledged turn, adds one, or moves the schedule.
THEOREM LogImplemented == Spec => ImplementsReviewLog
  <1>1. Init => Log!Init
    <2> SUFFICES ASSUME Init PROVE Log!Init
      OBVIOUS
    <2>1. \A s \in Sessions : AnsweredTurns(s) = {} /\ Cardinality(AnsweredTurns(s)) = 0
      BY FS_EmptySet DEF Init, AnsweredTurns
    <2>2. \A s \in Sessions : LogOf(s) = << >>
      BY <2>1 DEF LogOf
    <2>3. \A s \in Sessions : PhaseOf(s) = "none" /\ setup[s].practice = FALSE
      BY DEF Init, PhaseOf, Live
    <2>4. schedule = << >>
      BY DEF Init
    <2> QED
      BY <2>2, <2>3, <2>4 DEF Log!Init
  <1>2. TInv /\ TInv' /\ [Next]_vars => [Log!Next]_(Log!logVars)
    <2> SUFFICES ASSUME TInv, TInv', [Next]_vars PROVE [Log!Next]_(Log!logVars)
      OBVIOUS
    <2>1. IInv /\ TypeOK /\ TypeOK' /\ TranscriptHasNoGap /\ TranscriptHasNoGap'
      BY DEF TInv, IInv
    <2>2. ASSUME NEW r \in Requests, Calls(r) \/ Step(r) \/ Crash(r)
          PROVE  TextStep
      BY <2>1, <2>2, TextStepOfHandler
    <2>3. ASSUME Environment \/ UNCHANGED vars
          PROVE  TextStep
      <3>1. SameText
        BY <2>3, EnvironmentKeepsText DEF vars, cardVars, rowVars, SameText
      <3> QED
        BY <3>1 DEF TextStep
    <2>4. TextStep
      BY <2>2, <2>3 DEF Next
    <2> QED
      BY <2>1, <2>4, TextStepImplements
  <1> QED
    BY <1>1, <1>2, TranscriptInvariant, PTL DEF Spec, ImplementsReviewLog, Log!Spec

(***************************************************************************)
(* What SM-2 was told and what the learner was shown of it: the schedule,  *)
(* the replayed results and the mastery summary.                           *)
(***************************************************************************)
------------------------------------------------------------------------------
(* The inductive invariant.  Reviews of a card end one after the other, so a   *)
(* review's place in the schedule is settled when it ends.                     *)

Complete(s) == status[s] = "complete"
EndsInOrder ==
  /\ lastReviewed <= clock
  /\ \A s \in Sessions :
       /\ endedAt[s] <= clock
       /\ Complete(s) => endedAt[s] <= lastReviewed /\ accuracy[s] \in Qualities

\* A re-attempt being scored belongs to the latest review: the next review of the
\* card waits for the lock this one holds.
ScoresLatest(r) ==
  pc[r] \in {"provider", "write"} /\ req[r].op = "reattempt" =>
    LET s == req[r].session IN Complete(s) /\ lastReviewed <= endedAt[s]
ReattemptIsOfLatest == \A r \in Requests : ScoresLatest(r)

HInv ==
  /\ EndsInOrder
  /\ ReattemptIsOfLatest
  /\ ScheduleIsReviewHistory
  /\ ReplayedResultIsOriginal

------------------------------------------------------------------------------
(* Reviews and their numbers.                                                 *)

\* The types this module needs beside those of the transcript.
LEMMA HistoryTypes ==
  ASSUME TypeOK
  PROVE  /\ endedAt \in [Sessions -> Nat]
         /\ accuracy \in [Sessions -> Qualities \cup {"none"}]
         /\ reattempt \in [Sessions -> Texts \cup {None}]
         /\ lastReviewed \in Nat /\ clock \in Nat
         /\ mastery \in Sessions \cup {None}
  BY DEF TypeOK, CardTypes, RowTypes

\* Reviews are finitely many, and a review's number is at most their number.
LEMMA ReviewNumbers ==
  /\ IsFiniteSet(Reviewed) /\ Cardinality(Reviewed) \in Nat
  /\ \A s \in Sessions :
       ReviewNumber(s) \in Nat /\ ReviewNumber(s) <= Cardinality(Reviewed)
  <1>1. IsFiniteSet(Reviewed)
    BY FiniteAssumption, FS_Subset DEF Reviewed
  <1>2. ASSUME NEW s \in Sessions
        PROVE  ReviewNumber(s) \in Nat /\ ReviewNumber(s) <= Cardinality(Reviewed)
    <2>1. {t \in Reviewed : endedAt[t] <= endedAt[s]} \in SUBSET Reviewed
      OBVIOUS
    <2> QED
      BY <1>1, <2>1, FS_Subset, FS_CardinalityType DEF ReviewNumber
  <1> QED
    BY <1>1, <1>2, FS_CardinalityType

\* The latest review of a card has the last number.
LEMMA LatestHasLastNumber ==
  ASSUME TypeOK, EndsInOrder, NEW s \in Sessions, lastReviewed <= endedAt[s]
  PROVE  ReviewNumber(s) = Cardinality(Reviewed)
  <1>1. \A t \in Reviewed : endedAt[t] <= endedAt[s]
    <2>1. \A t \in Reviewed : t \in Sessions /\ endedAt[t] <= lastReviewed
      BY DEF Reviewed, EndsInOrder, Complete
    <2> QED
      BY <2>1, HistoryTypes
  <1>2. {t \in Reviewed : endedAt[t] <= endedAt[s]} = Reviewed
    BY <1>1
  <1> QED
    BY <1>2 DEF ReviewNumber

\* What was appended to a sequence later does not show in its prefixes.
LEMMA PrefixStands ==
  ASSUME NEW S, NEW q \in Seq(S), NEW x \in S, NEW n \in Nat, n <= Len(q)
  PROVE  SubSeq(Append(q, x), 1, n) = SubSeq(q, 1, n)
  OBVIOUS

------------------------------------------------------------------------------
(* Steps.                                                                     *)

\* A step that ends no review: it may end a session that was given up.
Quiet ==
  /\ UNCHANGED <<schedule, lastReviewed>>
  /\ clock' \in {clock, clock + 1}
  /\ \A s \in Sessions :
       /\ Complete(s)' <=> Complete(s)
       /\ Complete(s) => UNCHANGED <<setup[s], endedAt[s], accuracy[s]>>
       /\ endedAt'[s] \in {endedAt[s], clock'}

\* A step that ends the review of s with a result.
Reviews(s, quality) ==
  /\ ~Complete(s) /\ quality \in Qualities /\ setup' = setup
  /\ status' = [status EXCEPT ![s] = "complete"]
  /\ accuracy' = [accuracy EXCEPT ![s] = quality]
  /\ endedAt' = [endedAt EXCEPT ![s] = clock + 1]
  /\ lastReviewed' = clock + 1 /\ clock' = clock + 1
  /\ schedule' = NextSchedule(s, quality)

\* A handler that changes a status ends one review or none.
LEMMA HistoryStep ==
  ASSUME IInv, NEW r \in Requests, Calls(r) \/ Step(r) \/ Crash(r)
  PROVE  \/ Quiet
         \/ /\ AnswerCommitComplete(r)
            /\ req[r].session \in Sessions /\ Reviews(req[r].session, work[r].verdict)
  <1>0. TypeOK
    BY DEF IInv
  <1> USE DEF cardVars, rowVars
  <1>2. CASE Calls(r)
    BY <1>2, <1>0 DEF Calls, StartCall, DraftCall, AbandonCall, AnswerCall,
       ReattemptCall, CoachingCall, AfterScore, Quiet, Complete
  <1>3. CASE StartInsert(r)
    <2>1. CASE Insertable(r) /\ InsertSession(r)
      <3>1. PICK s \in Sessions : Begun(s)
        BY <1>0, <2>1, InsertBegins
      <3>2. UNCHANGED <<schedule, lastReviewed, clock, accuracy, endedAt>>
        BY <2>1 DEF InsertSession
      <3> QED
        BY <1>0, <3>1, <3>2, Types DEF Begun, Quiet, Complete
    <2> QED
      BY <1>3, <2>1 DEF StartInsert, Quiet, Complete
  <1>4. CASE AbandonCommit(r)
    <2>1. CASE UNCHANGED <<status, endedAt, clock>>
      BY <1>4, <2>1 DEF AbandonCommit, Quiet, Complete
    <2>2. CASE /\ status[req[r].session] \in Live
               /\ status' = [status EXCEPT ![req[r].session] = "abandoned"]
               /\ endedAt' = [endedAt EXCEPT ![req[r].session] = clock + 1]
               /\ clock' = clock + 1
      BY <1>0, <1>4, <2>2, Types, HistoryTypes DEF AbandonCommit, Quiet, Complete, Live
    <2> QED
      BY <1>4, <2>1, <2>2 DEF AbandonCommit
  <1>5. CASE AnswerCommitFollowUp(r)
    <2>1. PICK s \in Sessions : \E x : Continued(s, x)
      BY <1>5, FollowUpContinues
    <2>3. PICK x : Continued(s, x)
      BY <2>1
    <2>2. UNCHANGED <<schedule, lastReviewed, clock, accuracy, endedAt>>
      BY <1>5 DEF AnswerCommitFollowUp
    <2> QED
      BY <1>0, <2>2, <2>3, Types DEF Continued, Answered, Quiet, Complete, Live
  <1>6. CASE AnswerCommitComplete(r)
    <2>1. /\ req[r].session \in Sessions
          /\ Finished(req[r].session, req[r].text, work[r].verdict)
      BY <1>6, CompletionFinishes
    <2> QED
      BY <1>6, <2>1 DEF AnswerCommitComplete, Finished, Answered, Reviews, Complete, Live
  <1>7. CASE \/ StartRead(r) \/ ResumeRead(r) \/ StartTakeAccount(r)
             \/ GenerateQuestion(r) \/ DraftWrite(r) \/ Crash(r)
    BY <1>7 DEF StartRead, ResumeRead, StartTakeAccount, GenerateQuestion,
       DraftWrite, Crash, Quiet, Complete
  <1>8. CASE \/ AnswerReadProbes(r) \/ AnswerReplay(r) \/ AnswerTakeCard(r)
             \/ AnswerScored(r) \/ ScorerTakeAccount(r) \/ CoachScored(r)
    BY <1>8 DEF AnswerReadProbes, AnswerReplay, AnswerTakeCard, AnswerScored,
       ScorerTakeAccount, CoachScored, Quiet, Complete
  <1>9. CASE \/ ReattemptReplay(r) \/ ReattemptTakeCard(r) \/ ReattemptCommit(r)
             \/ CoachingTakeCard(r) \/ CoachingCommit(r)
    BY <1>9 DEF ReattemptReplay, ReattemptTakeCard, ReattemptCommit,
       CoachingTakeCard, CoachingCommit, Quiet, Complete
  <1> QED
    BY <1>2, <1>3, <1>4, <1>5, <1>6, <1>7, <1>8, <1>9 DEF Step

\* Nothing else moves the history: the environment only stands beside it.
LEMMA EnvironmentIsQuiet ==
  ASSUME Environment
  PROVE  Quiet /\ UNCHANGED rowVars /\ UNCHANGED reqVars /\ mastery' = mastery
  BY EnvironmentKeepsText DEF Environment, OpenLearning, RecallHoldEnds,
     EditGrounding, ArchiveCard, RestoreCard, RecordConsent, Quiet, Complete,
     rowVars, cardVars

------------------------------------------------------------------------------
(* The schedule.                                                              *)

\* A step that ends no review leaves the reviews and their numbers alone.
LEMMA QuietKeepsReviews ==
  ASSUME TypeOK, Quiet
  PROVE  /\ Reviewed' = Reviewed
         /\ \A s \in Sessions : Complete(s) => ReviewNumber(s)' = ReviewNumber(s)
  <1>1. Reviewed' = Reviewed
    BY DEF Quiet, Reviewed, Complete
  <1>2. \A t \in Reviewed : Complete(t) /\ t \in Sessions /\ endedAt'[t] = endedAt[t]
    BY DEF Reviewed, Complete, Quiet
  <1>3. ASSUME NEW s \in Sessions, Complete(s)
        PROVE  ReviewNumber(s)' = ReviewNumber(s)
    <2>1. endedAt'[s] = endedAt[s]
      BY <1>3 DEF Quiet
    <2>2. {t \in Reviewed' : endedAt'[t] <= endedAt'[s]}
            = {t \in Reviewed : endedAt[t] <= endedAt[s]}
      BY <1>1, <1>2, <2>1
    <2> QED
      BY <2>2 DEF ReviewNumber
  <1> QED
    BY <1>1, <1>3

\* A review that ends leaves the numbers of the earlier ones alone, and a scheduled
\* one takes the next number.
LEMMA ReviewTakesNumber ==
  ASSUME TypeOK, EndsInOrder, NEW s \in Sessions, NEW quality, Reviews(s, quality)
  PROVE  /\ \A t \in Sessions : Complete(t) => ReviewNumber(t)' = ReviewNumber(t)
         /\ ReviewNumber(s)' = Cardinality(Reviewed')
         /\ setup[s].practice => Reviewed' = Reviewed
         /\ ~setup[s].practice => /\ Reviewed' = Reviewed \cup {s}
                                  /\ Cardinality(Reviewed') = Cardinality(Reviewed) + 1
  <1>1. /\ status'[s] = "complete" /\ endedAt'[s] = clock + 1 /\ setup' = setup
        /\ \A t \in Sessions \ {s} : status'[t] = status[t] /\ endedAt'[t] = endedAt[t]
        /\ s \notin Reviewed
    BY Types, HistoryTypes DEF Reviews, Reviewed, Complete
  <1>2. Reviewed' = IF setup[s].practice THEN Reviewed ELSE Reviewed \cup {s}
    BY <1>1 DEF Reviewed
  <1>3. ASSUME NEW t \in Sessions, Complete(t)
        PROVE  ReviewNumber(t)' = ReviewNumber(t)
    <2>1. t # s /\ endedAt'[t] = endedAt[t] /\ ~(endedAt'[s] <= endedAt'[t])
      BY <1>1, <1>3, HistoryTypes DEF Reviews, EndsInOrder
    <2>2. \A v \in Reviewed : v \in Sessions /\ v # s /\ endedAt'[v] = endedAt[v]
      BY <1>1 DEF Reviewed
    <2>3. {v \in Reviewed' : endedAt'[v] <= endedAt'[t]}
            = {v \in Reviewed : endedAt[v] <= endedAt[t]}
      BY <1>2, <2>1, <2>2
    <2> QED
      BY <2>3 DEF ReviewNumber
  <1>4. ReviewNumber(s)' = Cardinality(Reviewed')
    <2>1. \A v \in Reviewed : v \in Sessions /\ v # s /\ endedAt'[v] = endedAt[v]
      BY <1>1 DEF Reviewed
    <2>2. \A v \in Reviewed' : endedAt'[v] <= endedAt'[s]
      BY <1>1, <1>2, <2>1, HistoryTypes DEF EndsInOrder
    <2>3. {v \in Reviewed' : endedAt'[v] <= endedAt'[s]} = Reviewed'
      BY <2>2
    <2> QED
      BY <2>3 DEF ReviewNumber
  <1>5. ~setup[s].practice => Cardinality(Reviewed') = Cardinality(Reviewed) + 1
    BY <1>1, <1>2, ReviewNumbers, FS_AddElement
  <1> QED
    BY <1>2, <1>3, <1>4, <1>5

\* No time lies in the future, and a result is never newer than the latest review.
LEMMA OrderStays ==
  ASSUME TypeOK, EndsInOrder,
         Quiet \/ \E s \in Sessions : \E quality : Reviews(s, quality)
  PROVE  EndsInOrder'
  <1>1. CASE Quiet
    <2>1. lastReviewed' <= clock'
      BY <1>1, HistoryTypes DEF Quiet, EndsInOrder
    <2>2. ASSUME NEW s \in Sessions
          PROVE  /\ endedAt'[s] <= clock'
                 /\ Complete(s)' => endedAt'[s] <= lastReviewed' /\ accuracy'[s] \in Qualities
      BY <1>1, HistoryTypes DEF Quiet, EndsInOrder
    <2> QED
      BY <2>1, <2>2 DEF EndsInOrder
  <1>2. ASSUME NEW s \in Sessions, NEW quality, Reviews(s, quality)
        PROVE  EndsInOrder'
    <2>1. ASSUME NEW t \in Sessions
          PROVE  /\ endedAt'[t] <= clock'
                 /\ Complete(t)' => endedAt'[t] <= lastReviewed' /\ accuracy'[t] \in Qualities
      <3>1. CASE t = s
        BY <1>2, <3>1, HistoryTypes DEF Reviews
      <3>2. CASE t # s
        <4>1. endedAt'[t] = endedAt[t] /\ accuracy'[t] = accuracy[t] /\ (Complete(t)' <=> Complete(t))
          BY <1>2, <3>2, Types, HistoryTypes DEF Reviews, Complete
        <4> QED
          BY <1>2, <4>1, HistoryTypes DEF Reviews, EndsInOrder
      <3> QED
        BY <3>1, <3>2
    <2> QED
      BY <1>2, <2>1, HistoryTypes DEF Reviews, EndsInOrder
  <1> QED
    BY <1>1, <1>2

\* The schedule stays the history of the reviews: a step that ends none moves
\* neither, and one that ends a scheduled review appends its result.
LEMMA HistoryStays ==
  ASSUME TypeOK, EndsInOrder, ScheduleIsReviewHistory,
         Quiet \/ \E s \in Sessions : \E quality : Reviews(s, quality)
  PROVE  ScheduleIsReviewHistory'
  <1>0. \A s \in Reviewed : s \in Sessions /\ Complete(s)
    BY DEF Reviewed, Complete
  <1>1. CASE Quiet
    <2>1. Reviewed' = Reviewed /\ schedule' = schedule
      BY <1>1, QuietKeepsReviews DEF Quiet
    <2>2. \A s \in Reviewed : ReviewNumber(s)' = ReviewNumber(s) /\ accuracy'[s] = accuracy[s]
      BY <1>0, <1>1, QuietKeepsReviews DEF Quiet
    <2> QED
      BY <2>1, <2>2 DEF ScheduleIsReviewHistory
  <1>2. ASSUME NEW s \in Sessions, NEW quality, Reviews(s, quality)
        PROVE  ScheduleIsReviewHistory'
    <2>1. /\ \A t \in Reviewed : t # s /\ ReviewNumber(t)' = ReviewNumber(t)
                                     /\ accuracy'[t] = accuracy[t]
          /\ accuracy'[s] = quality
      <3>1. /\ ~Complete(s) /\ s \in Sessions /\ accuracy' = [accuracy EXCEPT ![s] = quality]
            /\ accuracy \in [Sessions -> Qualities \cup {"none"}]
        BY <1>2, HistoryTypes DEF Reviews
      <3>2. \A t \in Reviewed : t # s /\ ReviewNumber(t)' = ReviewNumber(t)
        BY <1>0, <1>2, <3>1, ReviewTakesNumber
      <3> QED
        BY <1>0, <3>1, <3>2
    <2>2. CASE setup[s].practice
      BY <1>2, <2>1, <2>2, ReviewTakesNumber DEF Reviews, NextSchedule,
         ScheduleIsReviewHistory
    <2>3. CASE ~setup[s].practice
      <3>1. /\ Reviewed' = Reviewed \cup {s}
            /\ Cardinality(Reviewed') = Cardinality(Reviewed) + 1
            /\ ReviewNumber(s)' = Cardinality(Reviewed')
        BY <1>2, <2>3, ReviewTakesNumber
      <3>2. schedule' = Append(schedule, quality) /\ schedule \in Seq(Qualities)
            /\ quality \in Qualities
        BY <1>2, <2>3, Types DEF Reviews, NextSchedule
      <3>3. Len(schedule) = Cardinality(Reviewed) /\ Cardinality(Reviewed) \in Nat
        BY ReviewNumbers DEF ScheduleIsReviewHistory
      <3>4. Len(schedule') = Cardinality(Reviewed')
        BY <3>1, <3>2, <3>3
      <3>5. schedule'[ReviewNumber(s)'] = accuracy'[s]
        BY <2>1, <3>1, <3>2, <3>3
      <3>6. ASSUME NEW t \in Reviewed
            PROVE  schedule'[ReviewNumber(t)'] = accuracy'[t]
        <4>1. ReviewNumber(t) \in 1 .. Len(schedule)
          <5>1. t \in {v \in Reviewed : endedAt[v] <= endedAt[t]}
            BY <1>0, HistoryTypes
          <5>2. {v \in Reviewed : endedAt[v] <= endedAt[t]} \in SUBSET Reviewed
            OBVIOUS
          <5>3. ReviewNumber(t) # 0
            BY <5>1, <5>2, ReviewNumbers, FS_Subset, FS_EmptySet DEF ReviewNumber
          <5> QED
            BY <1>0, <3>3, <5>3, ReviewNumbers
        <4>2. schedule'[ReviewNumber(t)] = schedule[ReviewNumber(t)]
          BY <3>2, <4>1
        <4> QED
          BY <2>1, <4>2 DEF ScheduleIsReviewHistory
      <3> QED
        BY <3>1, <3>4, <3>5, <3>6 DEF ScheduleIsReviewHistory
    <2> QED
      BY <2>2, <2>3
  <1> QED
    BY <1>1, <1>2

------------------------------------------------------------------------------
(* The results that are shown again.                                          *)

\* A completed result is shown by the step that ended the review, or rebuilt while
\* the card still carries that review's result.
Rebuilt(r) ==
  /\ pc[r] # "idle" /\ req[r].op = "answer"
  /\ Report(r) /\ StillHasResult(req[r].session)
  /\ UNCHANGED <<cardVars, rowVars>>
Shows(r) == reply'[r].kind = "completed" => AnswerCommitComplete(r) \/ Rebuilt(r)

\* A reply that ends a request without a schedule reports no completion.
LEMMA EndShowsNothing ==
  ASSUME TypeOK, NEW r \in Requests
  PROVE  /\ \A rep : End(r, rep) /\ rep.kind # "completed" => Shows(r)
         /\ Refuse(r) \/ OkUnlessReviewedSince(r) \/ RefusedConsent(r) => Shows(r)
         /\ End(r, Reply("lost")) \/ End(r, Reply("ok")) \/ End(r, Reply("mismatch"))
              => Shows(r)
         /\ \A turn, f, d : Resume(r, turn, f, d) => Shows(r)
         /\ \A turn : AskAgain(r, turn) => Shows(r)
  <1>1. ASSUME NEW rep, End(r, rep), rep.kind # "completed" PROVE Shows(r)
    BY <1>1, Types DEF End, Shows
  <1>2. /\ \A kind : Reply(kind).kind = kind
        /\ \A turn, f, d :
             [Reply("resumed") EXCEPT !.turn = turn, !.isFollowUp = f,
                                      !.draft = d].kind = "resumed"
        /\ \A turn : [Reply("follow_up") EXCEPT !.turn = turn].kind = "follow_up"
    BY DEF Reply
  <1> QED
    BY <1>1, <1>2 DEF Refuse, OkUnlessReviewedSince, RefusedConsent, Resume, AskAgain

\* A completion is reported by the commit that completed the session, or rebuilt
\* from its stored result.
LEMMA HandlerShows ==
  ASSUME TypeOK, NEW r \in Requests, TellsTruth(r), Calls(r) \/ Step(r) \/ Crash(r)
  PROVE  Shows(r)
  <1>1. ASSUME pc[r] # "idle", reply' = reply PROVE Shows(r)
    BY <1>1 DEF TellsTruth, Shows
  <1>2. CASE Calls(r)
    <2>1. ASSUME NEW q, NEW stage, Call(r, q, stage) PROVE Shows(r)
      BY <2>1, Types DEF Call, Reply, Shows
    <2> QED
      BY <1>2, <2>1 DEF Calls, StartCall, DraftCall, AbandonCall, AnswerCall,
         ReattemptCall, CoachingCall, AfterScore
  <1>3. ASSUME Step(r) \/ Crash(r) PROVE pc[r] # "idle"
    BY <1>3 DEF Step, Crash, At, StartRead, ResumeRead, StartTakeAccount,
       GenerateQuestion, StartInsert, DraftWrite, AbandonCommit, AnswerReadProbes,
       AnswerReplay, AnswerTakeCard, AnswerScored, AnswerCommitFollowUp,
       AnswerCommitComplete, ScorerTakeAccount, CoachScored, ReattemptReplay,
       ReattemptTakeCard, ReattemptCommit, CoachingTakeCard, CoachingCommit
  <1>4. ASSUME ReportOrRefuse(r), UNCHANGED <<cardVars, rowVars>>,
               pc[r] # "idle", req[r].op = "answer"
        PROVE  Shows(r)
    BY <1>4, EndShowsNothing DEF ReportOrRefuse, Shows, Rebuilt
  <1>5. ASSUME NEW account, ResumeLive(r, account), pc[r] # "idle" PROVE Shows(r)
    BY <1>1, <1>5, EndShowsNothing DEF ResumeLive
  <1>6. ASSUME NEW w, ScoreUnderCard(r, w), pc[r] # "idle" PROVE Shows(r)
    BY <1>1, <1>6, EndShowsNothing DEF ScoreUnderCard
  <1>7. CASE StartRead(r) \/ ResumeRead(r) \/ StartTakeAccount(r)
    BY <1>1, <1>3, <1>5, <1>7, EndShowsNothing
       DEF Step, StartRead, ResumeRead, StartTakeAccount
  <1>8. CASE \/ GenerateQuestion(r) \/ StartInsert(r)
             \/ DraftWrite(r) \/ AbandonCommit(r) \/ Crash(r)
    BY <1>1, <1>3, <1>8, EndShowsNothing
       DEF Step, GenerateQuestion, StartInsert, InsertSession, DraftWrite,
           AbandonCommit, Crash
  <1>9. CASE AnswerReadProbes(r) \/ AnswerScored(r) \/ AnswerCommitFollowUp(r)
    BY <1>1, <1>3, <1>9, EndShowsNothing
       DEF Step, AnswerReadProbes, AnswerScored, AnswerCommitFollowUp
  <1>10. CASE AnswerReplay(r) \/ AnswerTakeCard(r)
    BY <1>3, <1>4, <1>6, <1>10, EndShowsNothing
       DEF Step, At, AnswerReplay, AnswerTakeCard
  <1>11. CASE AnswerCommitComplete(r)
    BY <1>11 DEF Shows
  <1>12. CASE \/ ScorerTakeAccount(r) \/ CoachScored(r)
              \/ ReattemptReplay(r) \/ ReattemptTakeCard(r) \/ ReattemptCommit(r)
              \/ CoachingTakeCard(r) \/ CoachingCommit(r)
    BY <1>1, <1>3, <1>6, <1>12, EndShowsNothing
       DEF Step, ScorerTakeAccount, CoachScored, ReattemptReplay, ReattemptTakeCard,
           ReattemptCommit, CoachingTakeCard, CoachingCommit
  <1> QED
    BY <1>2, <1>7, <1>8, <1>9, <1>10, <1>11, <1>12 DEF Step

\* The schedule a reply carries is a prefix of the present one, so it is there
\* whatever reviews come later.
Carries(r) ==
  reply[r].kind = "completed" =>
    reply[r].schedule = SubSeq(schedule, 1, ReviewNumber(req[r].session))

LEMMA CarriedStands ==
  ASSUME TInv, EndsInOrder, ScheduleIsReviewHistory, NEW q \in Requests, Carries(q),
         Quiet \/ \E s \in Sessions : \E quality : Reviews(s, quality),
         reply'[q] = reply[q], req'[q] = req[q]
  PROVE  Carries(q)'
  <1>1. CASE reply[q].kind # "completed"
    BY <1>1 DEF Carries
  <1>2. CASE reply[q].kind = "completed"
    <2>1. PICK t \in Sessions : t = req[q].session /\ Complete(t)
      BY <1>2 DEF TInv, RequestsTellTruth, TellsTruth, StoredFinal, Complete
    <2>2. TypeOK /\ schedule \in Seq(Qualities)
      BY Types DEF TInv, IInv
    <2>3. ReviewNumber(t) \in Nat /\ ReviewNumber(t) <= Len(schedule)
      BY ReviewNumbers DEF ScheduleIsReviewHistory
    <2>4. ReviewNumber(t)' = ReviewNumber(t)
      BY <2>1, <2>2, QuietKeepsReviews, ReviewTakesNumber
    <2>5. schedule' = schedule \/ \E quality \in Qualities : schedule' = Append(schedule, quality)
      BY DEF Quiet, Reviews, NextSchedule
    <2>6. SubSeq(schedule', 1, ReviewNumber(t)) = SubSeq(schedule, 1, ReviewNumber(t))
      <3>1. CASE schedule' = schedule
        BY <3>1
      <3>2. ASSUME NEW quality \in Qualities, schedule' = Append(schedule, quality)
            PROVE  SubSeq(schedule', 1, ReviewNumber(t)) = SubSeq(schedule, 1, ReviewNumber(t))
        <4> DEFINE n == ReviewNumber(t)
        <4>1. n \in Nat /\ n <= Len(schedule)
          BY <2>3
        <4> HIDE DEF n
        <4>2. SubSeq(Append(schedule, quality), 1, n) = SubSeq(schedule, 1, n)
          BY <2>2, <4>1, PrefixStands
        <4> QED
          BY <3>2, <4>2 DEF n
      <3> QED
        BY <2>5, <3>1, <3>2
    <2>7. reply[q].schedule = SubSeq(schedule', 1, ReviewNumber(t)')
      BY <1>2, <2>1, <2>4, <2>6 DEF Carries
    <2>8. t = req'[q].session
      BY <2>1
    <2> QED
      BY <2>7, <2>8 DEF Carries
  <1> QED
    BY <1>1, <1>2

\* What a handler shows itself is such a prefix: the schedule of the latest review
\* is all of it.
LEMMA ShownIsCarried ==
  ASSUME IInv, EndsInOrder, ScheduleIsReviewHistory, ScheduleIsReviewHistory',
         NEW r \in Requests, Shows(r),
         ~Quiet => Reviews(req[r].session, work[r].verdict),
         AnswerCommitComplete(r) =>
           req[r].session \in Sessions /\ Reviews(req[r].session, work[r].verdict),
         req[r].session \in Sessions \/ ~Rebuilt(r)
  PROVE  Carries(r)'
  <1>0. TypeOK /\ schedule \in Seq(Qualities)
    BY Types DEF IInv
  <1>1. CASE AnswerCommitComplete(r)
    <2>1. PICK t \in Sessions : t = req[r].session /\ Reviews(t, work[r].verdict)
      BY <1>1
    <2>2. ReviewNumber(t)' = Cardinality(Reviewed')
      BY <1>0, <2>1, ReviewTakesNumber
    <2>3. Len(schedule') = ReviewNumber(t)' /\ schedule' \in Seq(Qualities)
      BY <1>0, <2>1, <2>2 DEF ScheduleIsReviewHistory, Reviews, NextSchedule
    <2>4. SubSeq(schedule', 1, ReviewNumber(t)') = schedule'
      BY <2>3
    <2>5. End(r, [Reply("completed") EXCEPT !.schedule = schedule'])
      BY <1>1 DEF AnswerCommitComplete
    <2>6. reply'[r].schedule = schedule' /\ req'[r] = req[r]
      BY <1>0, <2>5, Types DEF End, Reply
    <2>7. reply'[r].schedule = SubSeq(schedule', 1, ReviewNumber(t)') /\ t = req'[r].session
      BY <2>1, <2>4, <2>6
    <2> QED
      BY <2>7 DEF Carries
  <1>2. CASE Rebuilt(r)
    <2>1. PICK t \in Sessions : t = req[r].session /\ StillHasResult(t)
      BY <1>2 DEF Rebuilt
    <2>2. ReviewNumber(t) = Len(schedule)
      BY <1>0, <2>1, LatestHasLastNumber, HistoryTypes
         DEF StillHasResult, ScheduleIsReviewHistory
    <2>3. ReviewNumber(t)' = ReviewNumber(t) /\ schedule' = schedule
      BY <1>2 DEF Rebuilt, ReviewNumber, Reviewed, cardVars, rowVars
    <2>4. reply'[r].schedule = schedule /\ req'[r] = req[r]
      BY <1>0, <1>2, Types DEF Rebuilt, Report, End, Reply
    <2>5. reply'[r].schedule = SubSeq(schedule', 1, ReviewNumber(t)') /\ t = req'[r].session
      BY <1>0, <2>1, <2>2, <2>3, <2>4
    <2> QED
      BY <2>5 DEF Carries
  <1> QED
    BY <1>1, <1>2 DEF Shows, Carries

------------------------------------------------------------------------------
(* The re-attempt.                                                            *)

\* A handler comes to score a re-attempt only under the card lock, after it found
\* no later review.
LEMMA OwnScoresLatest ==
  ASSUME TypeOK, NEW r \in Requests, HasTarget(r), ScoresLatest(r),
         Calls(r) \/ Step(r) \/ Crash(r)
  PROVE  ScoresLatest(r)'
  <1>1. ASSUME pc'[r] \notin {"provider", "write"} PROVE ScoresLatest(r)'
    BY <1>1 DEF ScoresLatest
  <1>2. /\ \A rep : End(r, rep) => pc'[r] = "idle"
        /\ Refuse(r) \/ Report(r) \/ ReportOrRefuse(r)
             \/ OkUnlessReviewedSince(r) \/ RefusedConsent(r) => pc'[r] = "idle"
        /\ \A turn, f, d : Resume(r, turn, f, d) => pc'[r] = "idle"
        /\ \A turn : AskAgain(r, turn) => pc'[r] = "idle"
    BY Types DEF End, GoTo, Refuse, Report, ReportOrRefuse, OkUnlessReviewedSince,
       RefusedConsent, Resume, AskAgain
  <1>3. /\ \A stage : GoTo(r, stage) => pc'[r] = stage
        /\ \A q, stage : Call(r, q, stage) => pc'[r] = stage
    BY Types DEF GoTo, Call
  <1>4. ASSUME NEW account, ResumeLive(r, account)
        PROVE  pc'[r] \notin {"provider", "write"}
    BY <1>2, <1>3, <1>4 DEF ResumeLive
  <1>5. CASE Calls(r)
    BY <1>1, <1>3, <1>5 DEF Calls, StartCall, DraftCall, AbandonCall, AnswerCall,
       ReattemptCall, CoachingCall, AfterScore
  <1>6. CASE StartRead(r) \/ ResumeRead(r)
    <2>1. pc'[r] \notin {"provider", "write"}
      BY <1>2, <1>3, <1>4, <1>6 DEF StartRead, ResumeRead
    <2> QED
      BY <1>1, <2>1
  <1>7. CASE StartTakeAccount(r)
    <2>1. pc'[r] \notin {"provider", "write"}
      BY <1>2, <1>3, <1>4, <1>7 DEF StartTakeAccount
    <2> QED
      BY <1>1, <2>1
  <1>8. CASE \/ GenerateQuestion(r) \/ StartInsert(r)
             \/ DraftWrite(r) \/ AbandonCommit(r) \/ Crash(r)
    <2>1. pc'[r] \notin {"provider", "write"}
      BY <1>2, <1>3, <1>8 DEF GenerateQuestion, StartInsert, InsertSession,
         DraftWrite, AbandonCommit, Crash
    <2> QED
      BY <1>1, <2>1
  <1>9. CASE \/ AnswerReadProbes(r) \/ AnswerReplay(r)
             \/ AnswerCommitFollowUp(r) \/ AnswerCommitComplete(r)
             \/ ScorerTakeAccount(r)
             \/ ReattemptReplay(r) \/ ReattemptCommit(r) \/ CoachingCommit(r)
    <2>1. pc'[r] \notin {"provider", "write"}
      BY <1>2, <1>3, <1>9 DEF AnswerReadProbes, AnswerReplay, AnswerCommitFollowUp,
         AnswerCommitComplete, ScorerTakeAccount, ReattemptReplay, ReattemptCommit,
         CoachingCommit
    <2> QED
      BY <1>1, <2>1
  <1>10. CASE AnswerTakeCard(r) \/ AnswerScored(r) \/ CoachingTakeCard(r)
    <2>1. pc'[r] = "idle" \/ req' = req
      BY <1>2, <1>10 DEF AnswerTakeCard, AnswerScored, CoachingTakeCard, ScoreUnderCard
    <2>2. req[r].op # "reattempt"
      BY <1>10 DEF AnswerTakeCard, AnswerScored, CoachingTakeCard, At
    <2> QED
      BY <2>1, <2>2 DEF ScoresLatest
  <1>11. CASE ReattemptTakeCard(r)
    <2>1. CASE pc'[r] = "idle"
      BY <1>1, <2>1
    <2>2. CASE /\ status[req[r].session] = "complete" /\ ~ReviewedSince(req[r].session)
               /\ req' = req
      <3>1. UNCHANGED <<status, endedAt, lastReviewed>>
        BY <1>11 DEF ReattemptTakeCard, cardVars, rowVars
      <3>2. req[r].session \in Sessions
        BY <1>11 DEF ReattemptTakeCard, At, HasTarget
      <3> QED
        BY <2>2, <3>1, <3>2, HistoryTypes DEF ScoresLatest, Complete, ReviewedSince
    <2> QED
      BY <1>2, <1>11, <2>1, <2>2 DEF ReattemptTakeCard, ScoreUnderCard
  <1>12. CASE CoachScored(r)
    <2>1. CASE pc'[r] = "idle"
      BY <1>1, <2>1
    <2>2. CASE pc[r] = "provider" /\ req' = req
      BY <1>12, <2>2 DEF CoachScored, cardVars, rowVars, ScoresLatest, Complete
    <2> QED
      BY <1>2, <1>12, <2>1, <2>2 DEF CoachScored
  <1> QED
    BY <1>5, <1>6, <1>7, <1>8, <1>9, <1>10, <1>11, <1>12 DEF Step

\* A handler that waits with a re-attempt before the provider keeps the card lock,
\* so no other handler can end a review meanwhile.
LEMMA HandlersScoreLatest ==
  ASSUME IInv, ReattemptIsOfLatest, NEW r \in Requests, Calls(r) \/ Step(r) \/ Crash(r)
  PROVE  ReattemptIsOfLatest'
  <1>1. TypeOK /\ OthersUndisturbed(r) /\ HasTarget(r) /\ HoldsLocks(r)
    BY StepFrame DEF IInv, RequestHasTarget, LocksHeld
  <1>2. ScoresLatest(r)'
    BY <1>1, OwnScoresLatest DEF ReattemptIsOfLatest
  <1>3. ASSUME NEW q \in Requests \ {r}
        PROVE  ScoresLatest(q)'
    <2>1. /\ pc'[q] = pc[q] /\ req'[q] = req[q] /\ ScoresLatest(q)
          /\ HasTarget(q) /\ HoldsLocks(q)
      BY <1>1 DEF OthersUndisturbed, Undisturbed, ReattemptIsOfLatest, IInv,
         RequestHasTarget, LocksHeld
    <2>2. SUFFICES ASSUME pc[q] \in {"provider", "write"}, req[q].op = "reattempt"
                   PROVE  /\ Complete(req[q].session)'
                          /\ lastReviewed' <= endedAt'[req[q].session]
      BY <2>1 DEF ScoresLatest, Complete
    <2>3. req[q].session \in Sessions /\ cardLock = q
      BY <2>1, <2>2 DEF HasTarget, HoldsLocks
    <2>4. ~ AnswerCommitComplete(r)
      BY <1>1, <2>3 DEF AnswerCommitComplete, At, HoldsLocks
    <2>5. Quiet
      BY <2>4, HistoryStep
    <2> QED
      BY <2>1, <2>2, <2>3, <2>5 DEF ScoresLatest, Quiet, Complete
  <1> QED
    BY <1>2, <1>3 DEF ReattemptIsOfLatest

\* The mastery summary is written with the result of a review or of its re-attempt.
LEMMA MasteryStep ==
  ASSUME TypeOK, NEW r \in Requests, Calls(r) \/ Step(r) \/ Crash(r)
  PROVE  \/ mastery' = mastery /\ reattempt' = reattempt
         \/ /\ AnswerCommitComplete(r)
            /\ mastery' \in {mastery, req[r].session} /\ reattempt' = reattempt
         \/ ReattemptCommit(r)
  <1> USE DEF cardVars, rowVars
  <1>1. CASE Calls(r)
    BY <1>1 DEF Calls, StartCall, DraftCall, AbandonCall, AnswerCall,
       ReattemptCall, CoachingCall, AfterScore
  <1>2. CASE \/ StartRead(r) \/ ResumeRead(r) \/ StartTakeAccount(r)
             \/ GenerateQuestion(r) \/ StartInsert(r)
             \/ DraftWrite(r) \/ AbandonCommit(r) \/ Crash(r)
    BY <1>2 DEF StartRead, ResumeRead, StartTakeAccount, GenerateQuestion,
       StartInsert, InsertSession, DraftWrite, AbandonCommit, Crash
  <1>3. CASE \/ AnswerReadProbes(r) \/ AnswerReplay(r) \/ AnswerTakeCard(r)
             \/ AnswerScored(r) \/ AnswerCommitFollowUp(r)
             \/ ScorerTakeAccount(r) \/ CoachScored(r)
    BY <1>3 DEF AnswerReadProbes, AnswerReplay, AnswerTakeCard, AnswerScored,
       AnswerCommitFollowUp, ScorerTakeAccount, CoachScored
  <1>4. CASE \/ ReattemptReplay(r) \/ ReattemptTakeCard(r)
             \/ CoachingTakeCard(r) \/ CoachingCommit(r)
    BY <1>4 DEF ReattemptReplay, ReattemptTakeCard, CoachingTakeCard, CoachingCommit
  <1>5. CASE AnswerCommitComplete(r)
    BY <1>5 DEF AnswerCommitComplete
  <1> QED
    BY <1>1, <1>2, <1>3, <1>4, <1>5 DEF Step

------------------------------------------------------------------------------
(* The theorems.                                                              *)

\* Before the first review there is no history and no schedule.
LEMMA InitHInv == Init => HInv
  <1> SUFFICES ASSUME Init PROVE HInv
    OBVIOUS
  <1>1. EndsInOrder
    BY DEF Init, EndsInOrder, Complete
  <1>2. Reviewed = {} /\ schedule = << >>
    BY DEF Init, Reviewed
  <1>3. ScheduleIsReviewHistory
    BY <1>2, FS_EmptySet DEF ScheduleIsReviewHistory
  <1>4. ReattemptIsOfLatest /\ ReplayedResultIsOriginal
    BY DEF Init, ReattemptIsOfLatest, ScoresLatest, ReplayedResultIsOriginal, Reply
  <1> QED
    BY <1>1, <1>3, <1>4 DEF HInv

\* The history of the reviews is inductive over the invariants of the locks and of
\* the transcript.
THEOREM HistoryInvariant == Spec => []HInv
  <1>1. TInv /\ TInv' /\ HInv /\ [Next]_vars => HInv'
    <2> SUFFICES ASSUME TInv, HInv, [Next]_vars PROVE HInv'
      OBVIOUS
    <2>0. /\ IInv /\ TypeOK /\ RequestsTellTruth
          /\ EndsInOrder /\ ReattemptIsOfLatest
          /\ ScheduleIsReviewHistory /\ ReplayedResultIsOriginal
      BY DEF TInv, IInv, HInv
    <2>1. \A q \in Requests : Carries(q)
      BY <2>0 DEF ReplayedResultIsOriginal, Carries
    <2>2. ASSUME NEW r \in Requests, Calls(r) \/ Step(r) \/ Crash(r)
          PROVE  HInv'
      <3>1. \/ Quiet
            \/ /\ AnswerCommitComplete(r)
               /\ req[r].session \in Sessions
               /\ Reviews(req[r].session, work[r].verdict)
        BY <2>0, <2>2, HistoryStep
      <3>2. EndsInOrder' /\ ScheduleIsReviewHistory'
        BY <2>0, <3>1, OrderStays, HistoryStays
      <3>3. ReattemptIsOfLatest'
        BY <2>0, <2>2, HandlersScoreLatest
      <3>4. Carries(r)'
        <4>1. Shows(r)
          BY <2>0, <2>2, HandlerShows DEF RequestsTellTruth
        <4>2. AnswerCommitComplete(r) =>
                req[r].session \in Sessions /\ Reviews(req[r].session, work[r].verdict)
          <5>1. AnswerCommitComplete(r) => req[r].session \in Sessions /\
                    Finished(req[r].session, req[r].text, work[r].verdict)
            BY <2>0, CompletionFinishes
          <5> QED
            BY <5>1 DEF AnswerCommitComplete, Finished, Answered, Reviews, Complete, Live
        <4>3. req[r].session \in Sessions \/ ~Rebuilt(r)
          BY <2>0 DEF IInv, RequestHasTarget, HasTarget, Rebuilt
        <4> QED
          BY <2>0, <3>1, <3>2, <4>1, <4>2, <4>3, ShownIsCarried
      <3>5. ASSUME NEW q \in Requests \ {r} PROVE Carries(q)'
        <4>1. req'[q] = req[q] /\ reply'[q] = reply[q]
          BY <2>0, <2>2, StepFrame, RepliesStand DEF OthersUndisturbed, Undisturbed, RepliesTo
        <4> QED
          BY <2>0, <2>1, <3>1, <4>1, CarriedStands
      <3>6. ReplayedResultIsOriginal'
        BY <3>4, <3>5 DEF ReplayedResultIsOriginal, Carries
      <3> QED
        BY <3>2, <3>3, <3>6 DEF HInv
    <2>3. ASSUME Quiet, UNCHANGED reqVars
          PROVE  HInv'
      <3>1. EndsInOrder' /\ ScheduleIsReviewHistory'
        BY <2>0, <2>3, OrderStays, HistoryStays
      <3>2. \A q \in Requests : Carries(q)'
        BY <2>0, <2>1, <2>3, CarriedStands DEF reqVars
      <3>3. ReattemptIsOfLatest'
        <4>1. ASSUME NEW q \in Requests, pc[q] \in {"provider", "write"},
                     req[q].op = "reattempt"
              PROVE  /\ Complete(req[q].session)'
                     /\ lastReviewed' <= endedAt'[req[q].session]
          <5>1. req[q].session \in Sessions /\ ScoresLatest(q)
            BY <2>0, <4>1 DEF IInv, RequestHasTarget, HasTarget, ReattemptIsOfLatest
          <5> QED
            BY <2>3, <4>1, <5>1 DEF ScoresLatest, Quiet, Complete, reqVars
        <4> QED
          BY <2>3, <4>1 DEF ReattemptIsOfLatest, ScoresLatest, Complete, reqVars
      <3> QED
        BY <3>1, <3>2, <3>3 DEF HInv, ReplayedResultIsOriginal, Carries
    <2>4. CASE UNCHANGED vars
      BY <2>3, <2>4 DEF vars, cardVars, rowVars, Quiet, Complete
    <2> QED
      BY <2>2, <2>3, <2>4, EnvironmentIsQuiet DEF Next
  <1> QED
    BY <1>1, InitHInv, TranscriptInvariant, PTL DEF Spec

\* SM-2 is applied once for every completed scheduled session, in the order the
\* reviews ended, and for nothing else.
THEOREM ScheduleIsHistory == Spec => []ScheduleIsReviewHistory
  <1>1. HInv => ScheduleIsReviewHistory
    BY DEF HInv
  <1> QED
    BY <1>1, HistoryInvariant, PTL

\* A replayed completion carries the schedule of the first response.
THEOREM ReplaysAreOriginal == Spec => []ReplayedResultIsOriginal
  <1>1. HInv => ReplayedResultIsOriginal
    BY DEF HInv
  <1> QED
    BY <1>1, HistoryInvariant, PTL

\* The mastery summary is written only by the latest review of the card or by its
\* own re-attempt.
THEOREM MasteryIsOfLatest == Spec => MasteryFromLatestReview
  <1> DEFINE A == \A s \in Sessions :
                    mastery' = s /\ (mastery # s \/ reattempt'[s] # reattempt[s]) =>
                      endedAt'[s] = lastReviewed'
  <1>1. TInv /\ HInv /\ [Next]_vars => [A]_vars
    <2> SUFFICES ASSUME TInv, HInv, Next PROVE A
      OBVIOUS
    <2>1. /\ IInv /\ TypeOK /\ EndsInOrder /\ ReattemptIsOfLatest
      BY DEF TInv, IInv, HInv
    <2>2. ASSUME NEW r \in Requests, Calls(r) \/ Step(r) \/ Crash(r)
          PROVE  A
      <3>1. CASE AnswerCommitComplete(r)
        <4>1. /\ req[r].session \in Sessions
              /\ endedAt' = [endedAt EXCEPT ![req[r].session] = clock + 1]
              /\ lastReviewed' = clock + 1
          BY <2>1, <3>1, CompletionFinishes DEF AnswerCommitComplete
        <4>2. mastery' \in {mastery, req[r].session} /\ reattempt' = reattempt
          BY <3>1 DEF AnswerCommitComplete
        <4> QED
          BY <2>1, <4>1, <4>2, HistoryTypes
      <3>2. CASE ReattemptCommit(r)
        <4>1. req[r].session \in Sessions /\ ScoresLatest(r)
              /\ pc[r] = "write" /\ req[r].op = "reattempt"
          BY <2>1, <3>2 DEF ReattemptCommit, At, IInv, RequestHasTarget, HasTarget,
             ReattemptIsOfLatest
        <4>2. endedAt[req[r].session] = lastReviewed
          BY <2>1, <4>1, HistoryTypes DEF ScoresLatest, EndsInOrder
        <4>3. /\ mastery' \in {mastery, req[r].session}
              /\ reattempt' = [reattempt EXCEPT ![req[r].session] = req[r].text]
              /\ UNCHANGED <<endedAt, lastReviewed>>
          BY <3>2 DEF ReattemptCommit
        <4> QED
          BY <2>1, <4>1, <4>2, <4>3, HistoryTypes
      <3>3. CASE mastery' = mastery /\ reattempt' = reattempt
        BY <3>3
      <3> QED
        BY <2>1, <2>2, <3>1, <3>2, <3>3, MasteryStep
    <2>3. CASE Environment
      BY <2>3, EnvironmentIsQuiet DEF rowVars
    <2> QED
      BY <2>2, <2>3 DEF Next
  <1> QED
    BY <1>1, TranscriptInvariant, HistoryInvariant, PTL DEF Spec, MasteryFromLatestReview
==============================================================================
