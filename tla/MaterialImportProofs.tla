------------------------ MODULE MaterialImportProofs ------------------------
(* For every number of sources, workers, confirmations, topics and drafts: an *)
(* import is ended by its latest claim alone, and a topic enters the library  *)
(* once.  And for every number of lessons, concepts, seeds and submissions    *)
(* and any holds: a studied lesson is assigned as its seed says, its check is *)
(* paid for once, and its transfer is answered behind the last disclosure.    *)
EXTENDS MaterialImport, LessonPilot, TLAPS, FiniteSetTheorems, SequenceTheorems

------------------------------------------------------------------------------
(* The inductive invariant.                                                   *)

\* A worker is at a source from its claim to its end.
WorkersAtSources ==
  \A w \in Workers : pc[w] = "idle" <=> work[w].source = None

\* A worker that may call the provider has a call left.
CallsAreLeft ==
  \A w \in Workers : /\ pc[w] \in {"load", "draft"} => work[w].tries = 0
                     /\ pc[w] = "authorize" => work[w].tries < Attempts

\* The run id in the row of a held import is that of its latest claim.
RunIsClaim ==
  \A s \in Sources : row[s].status = "processing" =>
    row[s].run \in Workers /\ claimant[s] = row[s].run

\* A new version names an upload that was made before it.
PreviousExists ==
  \A s \in Sources : row[s].previous # None => row[row[s].previous].status # "none"

\* A confirmation under way holds the row of a source that is still reviewable,
\* alone.
ConfirmHoldsRow(c) ==
  confirm[c].stage # "idle" =>
    /\ confirm[c].source \in Sources
    /\ row[confirm[c].source].status \in Reviewable
    /\ \A d \in Confirms \ {c} :
         confirm[d].stage # "idle" => confirm[d].source # confirm[c].source
ConfirmsHoldRows == \A c \in Confirms : ConfirmHoldsRow(c)

\* One confirmation at a time is past the topic lock, and its topic is still new.
PastLock(c) == confirm[c].stage = "commit"
CommitIsAlone == \A c, d \in Confirms : PastLock(c) /\ PastLock(d) => c = d
TopicIsNew ==
  \A c \in Confirms : PastLock(c) =>
    LET t == proposal[confirm[c].source].topic IN t \in Topics => cards[t] = 0

IInv ==
  /\ TypeOK
  /\ WorkersAtSources
  /\ CallsAreLeft
  /\ RunIsClaim
  /\ PreviousExists
  /\ ConfirmsHoldRows
  /\ CommitIsAlone
  /\ TopicIsNew
  /\ OneCardPerTopic

LEMMA InitIInv == Init => IInv
  <1> SUFFICES ASSUME Init PROVE IInv
    OBVIOUS
  <1> USE NoneAssumption DEF Init
  <1>1. TypeOK
    BY BoundsAssumption DEF TypeOK, Rows, NoRow, Statuses, Gone, Proposals, NoProposal,
       Stages, Works, NoWork, NotConfirming
  <1>2. WorkersAtSources /\ CallsAreLeft /\ RunIsClaim /\ PreviousExists
    BY DEF WorkersAtSources, CallsAreLeft, RunIsClaim, PreviousExists, NoWork, NoRow
  <1>3. ConfirmsHoldRows /\ CommitIsAlone /\ TopicIsNew /\ OneCardPerTopic
    BY DEF ConfirmsHoldRows, ConfirmHoldsRow, CommitIsAlone, TopicIsNew, PastLock,
       NotConfirming, OneCardPerTopic
  <1> QED
    BY <1>1, <1>2, <1>3 DEF IInv

------------------------------------------------------------------------------
(* Types.                                                                     *)

\* A worker that quits, or goes to another stage, keeps its types.
LEMMA GotoTypes ==
  ASSUME TypeOK, NEW w \in Workers, NEW stage \in Stages, Goto(w, stage)
  PROVE  pc' \in [Workers -> Stages]
  BY DEF TypeOK, Goto

LEMMA QuitTypes ==
  ASSUME TypeOK, NEW w \in Workers, Quit(w)
  PROVE  pc' \in [Workers -> Stages] /\ work' \in [Workers -> Works]
  <1>1. NoWork \in Works
    BY BoundsAssumption DEF NoWork, Works
  <1> QED
    BY <1>1 DEF TypeOK, Quit, Goto, Stages

\* A row of the types is written.
LEMMA RowWritten ==
  ASSUME row \in [Sources -> Rows], NEW s \in Sources, NEW new \in Rows, row' = [row EXCEPT ![s] = new]
  PROVE  row' \in [Sources -> Rows]
  OBVIOUS

\* An import that ends has its types, and no lease.
LEMMA SettledTypes ==
  ASSUME row \in [Sources -> Rows], NEW s \in Sources, NEW status \in Statuses,
         row' = Settled(s, status)
  PROVE  /\ row' \in [Sources -> Rows]
         /\ row'[s].status = status /\ row'[s].run = None
         /\ row'[s].previous = row[s].previous
         /\ \A t \in Sources \ {s} : row'[t] = row[t]
  <1>1. row' \in [Sources -> Rows]
    <2> DEFINE new == [row[s] EXCEPT !.status = status, !.run = None, !.beating = FALSE]
    <2>1. row[s] \in Rows /\ None \in Workers \cup {None}
      OBVIOUS
    <2>2. new \in Rows
      BY <2>1 DEF Rows
    <2>3. row' = [row EXCEPT ![s] = new]
      BY DEF Settled
    <2> HIDE DEF new
    <2> QED
      BY <2>2, <2>3, RowWritten
  <1>2. row'[s].status = status /\ row'[s].run = None
        /\ row'[s].previous = row[s].previous
    <2>1. row'[s] = [row[s] EXCEPT !.status = status, !.run = None, !.beating = FALSE]
      BY DEF Settled
    <2>2. row[s] \in Rows
      OBVIOUS
    <2> QED
      BY <2>1, <2>2 DEF Rows
  <1>3. \A t \in Sources \ {s} : row'[t] = row[t]
    BY DEF Settled
  <1> QED
    BY <1>1, <1>2, <1>3

\* The parts of the types a proof cites on their own.
LEMMA Types ==
  ASSUME TypeOK
  PROVE  /\ row \in [Sources -> Rows]
         /\ pc \in [Workers -> Stages] /\ work \in [Workers -> Works]
         /\ proposal \in [Sources -> Proposals]
         /\ draftOf \in [Drafts -> Sources \cup {None}]
         /\ claimant \in [Sources -> Workers \cup {None}]
         /\ cards \in [Topics -> Nat] /\ faults \in 0 .. MaxFaults
  BY DEF TypeOK

\* A heartbeat that comes or lapses moves no lease and no status.
LEMMA BeatingOnly ==
  ASSUME row \in [Sources -> Rows], NEW s \in Sources, NEW beating \in BOOLEAN,
         row' = [row EXCEPT ![s].beating = beating]
  PROVE  /\ row' \in [Sources -> Rows]
         /\ \A t \in Sources : row'[t].run = row[t].run /\ row'[t].status = row[t].status
  <1>1. \A t \in Sources : row'[t] = IF t = s THEN [row[s] EXCEPT !.beating = beating] ELSE row[t]
    OBVIOUS
  <1>2. row[s] \in Rows
    OBVIOUS
  <1>3. LET new == [row[s] EXCEPT !.beating = beating]
        IN  new \in Rows /\ new.run = row[s].run /\ new.status = row[s].status
    BY <1>2 DEF Rows
  <1>4. row' = [row EXCEPT ![s] = [row[s] EXCEPT !.beating = beating]]
    OBVIOUS
  <1> QED
    BY <1>1, <1>3, <1>4, RowWritten

\* Every step of a worker keeps the types.
LEMMA WorkerTypes ==
  ASSUME IInv, NEW w \in Workers,
         \/ \E s \in Sources : Claim(w, s)
         \/ WorkerStep(w) \/ Heartbeat(w) \/ WorkerDies(w)
  PROVE  TypeOK'
  <1> USE DEF IInv
  <1>0. pc[w] # "idle" => work[w].source \in Sources
    BY Types DEF WorkersAtSources, Works
  <1>1. CASE \E s \in Sources : Claim(w, s)
    <2>1. PICK s \in Sources : Claim(w, s)
      BY <1>1
    <2>2. work' \in [Workers -> Works]
      <3>1. [NoWork EXCEPT !.source = s] \in Works
        BY BoundsAssumption DEF Works, NoWork
      <3> QED
        BY <2>1, <3>1, Types DEF Claim
    <2>3. row' \in [Sources -> Rows] /\ row'[s].status = "processing"
      <3>1. row' = [row EXCEPT ![s] = [row[s] EXCEPT !.status = "processing",
                                          !.run = w, !.beating = TRUE]]
        BY <2>1 DEF Claim
      <3>2. row[s] \in Rows /\ "processing" \in Statuses
        BY Types DEF Statuses, Unfinished
      <3>3. [row[s] EXCEPT !.status = "processing", !.run = w, !.beating = TRUE] \in Rows
        BY <3>2 DEF Rows
      <3> QED
        BY <3>1, <3>2, <3>3, Types DEF Rows
    <2>4. \A t \in Sources \ {s} : row'[t] = row[t]
      BY <2>1, Types DEF Claim
    <2> QED
      BY <2>1, <2>2, <2>3, <2>4 DEF Claim, TypeOK, Goto, Stages
  <1>2. CASE Load(w)
    <2>1. row[work[w].source].draft \in Drafts \cup {None}
      BY <1>0, <1>2, Types DEF Load, Rows
    <2>2. work' \in [Workers -> Works] /\ pc' \in [Workers -> Stages]
      <3>1. CASE Quit(w)
        BY <3>1, QuitTypes
      <3>2. CASE work' = [work EXCEPT ![w].draft = row[work[w].source].draft]
                 /\ \E stage \in Stages : Goto(w, stage)
        <4>1. [work[w] EXCEPT !.draft = row[work[w].source].draft] \in Works
          BY <2>1, Types DEF Works
        <4> QED
          BY <3>2, <4>1, Types DEF Goto
      <3> QED
        BY <1>2, <3>1, <3>2 DEF Load, Stages
    <2> QED
      BY <1>2, <2>2 DEF Load, TypeOK
  <1>3. CASE CreateDraft(w)
    <2> DEFINE s == work[w].source
    <2>1. CASE UNCHANGED <<row, draftOf, work>> /\ pc' \in [Workers -> Stages]
      BY <1>3, <2>1 DEF CreateDraft, TypeOK
    <2>2. CASE \E d \in Drafts : /\ draftOf' = [draftOf EXCEPT ![d] = s]
                                 /\ row' = [row EXCEPT ![s].draft = d]
                                 /\ work' = [work EXCEPT ![w].draft = d]
                                 /\ Goto(w, "authorize")
      <3>1. PICK d \in Drafts : /\ draftOf' = [draftOf EXCEPT ![d] = s]
                               /\ row' = [row EXCEPT ![s].draft = d]
                               /\ work' = [work EXCEPT ![w].draft = d]
        BY <2>2
      <3>2. s \in Sources
        BY <1>0, <1>3 DEF CreateDraft
      <3>3. draftOf' \in [Drafts -> Sources \cup {None}] /\ work' \in [Workers -> Works]
        BY <3>1, <3>2, Types DEF Works
      <3>4. row' \in [Sources -> Rows]
        BY <3>1, <3>2, Types DEF Rows
      <3>5. \A t \in Sources : row'[t].run = row[t].run /\ row'[t].status = row[t].status
        BY <3>1, <3>2, Types DEF Rows
      <3>6. pc' \in [Workers -> Stages]
        BY <2>2, Types DEF Goto, Stages
      <3> QED
        BY <1>3, <3>3, <3>4, <3>5, <3>6 DEF CreateDraft, TypeOK
    <2> QED
      BY <1>3, <2>1, <2>2, Types DEF CreateDraft, Goto, Stages
  <1>4. CASE Authorize(w)
    <2>1. CASE Goto(w, "fail") /\ UNCHANGED work
      BY <1>4, <2>1 DEF Authorize, TypeOK, Goto, Stages
    <2>2. CASE Goto(w, "provider") /\ work' = [work EXCEPT ![w].tries = @ + 1]
      <3>1. work[w] \in Works /\ work[w].tries + 1 \in 0 .. Attempts
        BY <1>4, Types, BoundsAssumption DEF Authorize, CallsAreLeft, Works
      <3>2. [work[w] EXCEPT !.tries = @ + 1] \in Works
        BY <3>1 DEF Works
      <3>3. work' \in [Workers -> Works] /\ pc' \in [Workers -> Stages]
        BY <2>2, <3>2, Types DEF Goto, Stages
      <3> QED
        BY <1>4, <3>3 DEF Authorize, TypeOK
    <2> QED
      BY <1>4, <2>1, <2>2 DEF Authorize
  <1>5. CASE CallProvider(w)
    BY <1>5 DEF CallProvider, TypeOK, Goto, Stages
  <1>6. CASE StoreResult(w)
    <2> DEFINE s == work[w].source
    <2>1. pc' \in [Workers -> Stages] /\ work' \in [Workers -> Works]
      BY <1>6, QuitTypes DEF StoreResult
    <2>2. CASE UNCHANGED <<row, proposal>>
      BY <1>6, <2>1, <2>2 DEF StoreResult, TypeOK
    <2>3. CASE \E t \in Topics, verdict \in {"clean", "attention"}, status \in Reviewable :
                 /\ proposal' = [proposal EXCEPT ![s] = [topic |-> t, status |-> verdict]]
                 /\ row' = Settled(s, status)
      <3>1. PICK t \in Topics, verdict \in {"clean", "attention"}, status \in Reviewable :
                 /\ proposal' = [proposal EXCEPT ![s] = [topic |-> t, status |-> verdict]]
                 /\ row' = Settled(s, status)
        BY <2>3
      <3>2. s \in Sources /\ status \in Statuses
        BY <1>0, <1>6 DEF StoreResult, Statuses
      <3>3. proposal' \in [Sources -> Proposals]
        BY <3>1, <3>2, Types DEF Proposals
      <3>4. /\ row' \in [Sources -> Rows]
            /\ row'[s].run = None /\ \A t1 \in Sources \ {s} : row'[t1] = row[t1]
        BY <3>1, <3>2, Types, SettledTypes
      <3> QED
        BY <1>6, <2>1, <3>3, <3>4 DEF StoreResult, TypeOK
    <2> QED
      BY <1>6, <2>2, <2>3 DEF StoreResult, Reviewable
  <1>7. CASE StoreFailure(w)
    <2>1. pc' \in [Workers -> Stages] /\ work' \in [Workers -> Works]
      BY <1>7, QuitTypes DEF StoreFailure
    <2>2. CASE row' = Settled(work[w].source, "failed")
      <3>1. work[w].source \in Sources /\ "failed" \in Statuses
        BY <1>0, <1>7 DEF StoreFailure, Statuses
      <3>2. /\ row' \in [Sources -> Rows] /\ row'[work[w].source].run = None
            /\ \A t \in Sources \ {work[w].source} : row'[t] = row[t]
        BY <2>2, <3>1, Types, SettledTypes
      <3> QED
        BY <1>7, <2>1, <3>2 DEF StoreFailure, TypeOK
    <2> QED
      BY <1>7, <2>1, <2>2 DEF StoreFailure, TypeOK
  <1>8. CASE Heartbeat(w)
    <2>1. CASE Mine(w) /\ row' = [row EXCEPT ![work[w].source].beating = TRUE]
               /\ UNCHANGED <<pc, work>>
      <3>1. work[w].source \in Sources
        BY <1>0, <1>8 DEF Heartbeat
      <3>2. row' \in [Sources -> Rows]
        BY <2>1, <3>1, BeatingOnly, Types
      <3>3. \A t \in Sources : row'[t].run = row[t].run /\ row'[t].status = row[t].status
        BY <2>1, <3>1, BeatingOnly, Types
      <3> QED
        BY <1>8, <2>1, <3>2, <3>3 DEF Heartbeat, TypeOK
    <2>2. CASE Quit(w) /\ UNCHANGED row
      BY <1>8, <2>2, QuitTypes DEF Heartbeat, TypeOK
    <2>3. CASE Goto(w, "fail") /\ UNCHANGED <<row, work>>
      BY <1>8, <2>3 DEF Heartbeat, TypeOK, Goto, Stages
    <2> QED
      BY <1>8, <2>1, <2>2, <2>3 DEF Heartbeat
  <1>9. CASE WorkerDies(w)
    BY <1>9, QuitTypes, BoundsAssumption DEF WorkerDies, TypeOK
  <1> QED
    BY <1>1, <1>2, <1>3, <1>4, <1>5, <1>6, <1>7, <1>8, <1>9 DEF WorkerStep

\* Every step of the learner's handlers keeps the types.
LEMMA LearnerTypes ==
  ASSUME IInv, NEW s \in Sources,
         \/ HeartbeatLapses(s) \/ StartImport(s) \/ RetryImport(s)
         \/ EditTopic(s) \/ DeleteSource(s)
  PROVE  TypeOK'
  <1> USE DEF IInv
  <1>1. CASE HeartbeatLapses(s)
    <2>1. row' \in [Sources -> Rows]
      <3>1. row' = [row EXCEPT ![s].beating = FALSE] /\ row \in [Sources -> Rows]
        BY <1>1, Types DEF HeartbeatLapses
      <3> QED
        BY <3>1, BeatingOnly
    <2>2. \A t \in Sources : row'[t].run = row[t].run /\ row'[t].status = row[t].status
      <3>1. row' = [row EXCEPT ![s].beating = FALSE] /\ row \in [Sources -> Rows]
        BY <1>1, Types DEF HeartbeatLapses
      <3> QED
        BY <3>1, BeatingOnly
    <2>3. faults' \in 0 .. MaxFaults
      BY <1>1, BoundsAssumption DEF HeartbeatLapses, TypeOK
    <2> QED
      BY <1>1, <2>1, <2>2, <2>3 DEF HeartbeatLapses, TypeOK
  <1>2. CASE StartImport(s)
    <2>1. PICK path \in Paths, p \in Sources \cup {None} :
            row' = [row EXCEPT ![s] = [NoRow EXCEPT !.status = "pending", !.path = path,
                                                    !.previous = p]]
      BY <1>2 DEF StartImport
    <2>2. [NoRow EXCEPT !.status = "pending", !.path = path, !.previous = p] \in Rows
      BY DEF NoRow, Rows, Statuses, Unfinished
    <2>3. row' \in [Sources -> Rows] /\ row'[s].run = None
          /\ \A t \in Sources \ {s} : row'[t] = row[t]
      BY <2>1, <2>2, Types DEF NoRow
    <2> QED
      BY <1>2, <2>3 DEF StartImport, TypeOK
  <1>3. CASE RetryImport(s)
    <2>1. "pending" \in Statuses
      BY DEF Statuses, Unfinished
    <2>2. /\ row' \in [Sources -> Rows] /\ row'[s].run = None
          /\ \A t \in Sources \ {s} : row'[t] = row[t]
      BY <1>3, <2>1, Types, SettledTypes DEF RetryImport
    <2> QED
      BY <1>3, <2>2 DEF RetryImport, TypeOK
  <1>4. CASE EditTopic(s)
    <2>1. proposal' \in [Sources -> Proposals]
      BY <1>4, Types DEF EditTopic, Proposals
    <2> QED
      BY <1>4, <2>1 DEF EditTopic, TypeOK
  <1>5. CASE DeleteSource(s)
    <2>1. [NoRow EXCEPT !.status = "deleted"] \in Rows
      BY DEF NoRow, Rows, Statuses, Gone
    <2>2. \A t \in Sources : [row[t] EXCEPT !.previous = None] \in Rows
      BY Types DEF Rows
    <2>3. row' \in [Sources -> Rows]
      BY <1>5, <2>1, <2>2, Types DEF DeleteSource
    <2>4. row'[s].run = None
      BY <1>5 DEF DeleteSource, NoRow
    <2>5. \A t \in Sources \ {s} :
            row'[t].run = row[t].run /\ row'[t].status = row[t].status
      BY <1>5, Types DEF DeleteSource, Rows
    <2>6. proposal' \in [Sources -> Proposals]
      BY <1>5, Types DEF DeleteSource, Proposals, NoProposal
    <2>7. draftOf' \in [Drafts -> Sources \cup {None}]
      BY <1>5, Types DEF DeleteSource
    <2> QED
      BY <1>5, <2>3, <2>4, <2>5, <2>6, <2>7 DEF DeleteSource, TypeOK
  <1> QED
    BY <1>1, <1>2, <1>3, <1>4, <1>5

\* What a commit writes: two statuses and the count of its topic.
LEMMA CommitWrites ==
  ASSUME IInv, NEW c \in Confirms, ConfirmCommit(c)
  PROVE  LET s == confirm[c].source
             p == row[s].previous
         IN /\ row' \in [Sources -> Rows]
            /\ row'[s].status = "confirmed"
            /\ \A t \in Sources \ {s} :
                 row'[t].status = IF t = p THEN "superseded" ELSE row[t].status
            /\ \A t \in Sources : row'[t].run = row[t].run
                                  /\ row'[t].previous = row[t].previous
            /\ proposal' \in [Sources -> Proposals]
            /\ \A t \in Sources \ {s} : proposal'[t] = proposal[t]
  <1> DEFINE s == confirm[c].source
             p == row[s].previous
  <1>1. s \in Sources
    BY DEF IInv, ConfirmsHoldRows, ConfirmHoldsRow, ConfirmCommit
  <1>2. \A t \in Sources : /\ [row[t] EXCEPT !.status = "confirmed"] \in Rows
                           /\ [row[t] EXCEPT !.status = "superseded"] \in Rows
    BY Types DEF IInv, Rows, Statuses
  <1>3. row' \in [Sources -> Rows]
    BY <1>2, Types DEF ConfirmCommit, IInv
  <1>4. /\ row'[s].status = "confirmed"
        /\ \A t \in Sources \ {s} :
             row'[t].status = IF t = p THEN "superseded" ELSE row[t].status
    BY <1>1, Types DEF ConfirmCommit, IInv, Rows
  <1>5. \A t \in Sources : row'[t].run = row[t].run
                           /\ row'[t].previous = row[t].previous
    BY <1>1, Types DEF ConfirmCommit, IInv, Rows
  <1>6. /\ proposal' \in [Sources -> Proposals]
        /\ \A t \in Sources \ {s} : proposal'[t] = proposal[t]
    BY <1>1, Types DEF ConfirmCommit, IInv, Proposals
  <1> QED
    BY <1>3, <1>4, <1>5, <1>6

\* Every step of a confirmation, and a topic made elsewhere, keeps the types.
LEMMA ConfirmTypes ==
  ASSUME IInv,
         \/ \E t \in Topics : CreateTopic(t)
         \/ \E c \in Confirms : \/ \E s \in Sources : ConfirmCall(c, s)
                                \/ ConfirmStep(c) \/ ConfirmDies(c)
  PROVE  TypeOK'
  <1> USE DEF IInv
  <1>1. CASE \E t \in Topics : CreateTopic(t)
    BY <1>1 DEF CreateTopic, TypeOK
  <1>2. ASSUME NEW c \in Confirms, LetGo(c)
        PROVE  confirm' \in [Confirms -> [stage : {"idle", "topics", "commit"},
                                          source : Sources \cup {None}]]
    BY <1>2 DEF LetGo, NotConfirming, TypeOK
  <1>3. ASSUME NEW c \in Confirms, NEW s \in Sources, ConfirmCall(c, s) PROVE TypeOK'
    BY <1>3 DEF ConfirmCall, TypeOK
  <1>4. ASSUME NEW c \in Confirms, ConfirmTopics(c) PROVE TypeOK'
    BY <1>2, <1>4 DEF ConfirmTopics, TypeOK
  <1>5. ASSUME NEW c \in Confirms, ConfirmCommit(c) PROVE TypeOK'
    <2> DEFINE s == confirm[c].source
               p == row[s].previous
    <2>1. row[s].run = None
      BY <1>5 DEF ConfirmCommit, ConfirmsHoldRows, ConfirmHoldsRow, TypeOK, Reviewable
    <2>2. \A t \in Sources : row'[t].run # None => row'[t].status \in {"processing", "superseded"}
      BY <1>5, <2>1, CommitWrites DEF TypeOK
    <2>3. cards' \in [Topics -> Nat]
      <3>1. cards' = [cards EXCEPT ![proposal[s].topic] = @ + 1]
        BY <1>5 DEF ConfirmCommit
      <3>2. cards \in [Topics -> Nat]
        BY Types
      <3>3. CASE proposal[s].topic \in Topics
        <4>1. cards[proposal[s].topic] + 1 \in Nat
          BY <3>2, <3>3
        <4> QED
          BY <3>1, <3>2, <4>1
      <3>4. CASE proposal[s].topic \notin Topics
        BY <3>1, <3>2, <3>4
      <3> QED
        BY <3>3, <3>4
    <2>4. confirm' \in [Confirms -> [stage : {"idle", "topics", "commit"},
                                     source : Sources \cup {None}]]
      BY <1>2, <1>5 DEF ConfirmCommit, LetGo
    <2> QED
      BY <1>5, <2>2, <2>3, <2>4, CommitWrites DEF ConfirmCommit, TypeOK
  <1>6. ASSUME NEW c \in Confirms, DeadlockDetected(c) PROVE TypeOK'
    BY <1>2, <1>6 DEF DeadlockDetected, TypeOK
  <1>7. ASSUME NEW c \in Confirms, ConfirmDies(c) PROVE TypeOK'
    <2>1. faults' \in 0 .. MaxFaults
      BY <1>7, BoundsAssumption, Types DEF ConfirmDies
    <2> QED
      BY <1>2, <1>7, <2>1 DEF ConfirmDies, LetGo, TypeOK
  <1> QED
    BY <1>1, <1>3, <1>4, <1>5, <1>6, <1>7 DEF ConfirmStep

------------------------------------------------------------------------------
(* The lease.                                                                 *)

\* A worker is where its stage says, after every step.
LEMMA WorkersStay ==
  ASSUME IInv, [Next]_vars
  PROVE  WorkersAtSources' /\ CallsAreLeft'
  <1> USE NoneAssumption, Types DEF IInv, WorkersAtSources, CallsAreLeft
  <1>1. ASSUME NEW w \in Workers, NEW s \in Sources, Claim(w, s)
        PROVE  WorkersAtSources' /\ CallsAreLeft'
    BY <1>1 DEF Claim, Goto, NoWork
  <1>2. ASSUME NEW w \in Workers, Load(w)
        PROVE  WorkersAtSources' /\ CallsAreLeft'
    BY <1>2, BoundsAssumption DEF Load, Goto, Quit, NoWork, Works
  <1>3. ASSUME NEW w \in Workers, CreateDraft(w)
        PROVE  WorkersAtSources' /\ CallsAreLeft'
    <2>1. pc' \in {[pc EXCEPT ![w] = "authorize"], [pc EXCEPT ![w] = "fail"]}
      BY <1>3 DEF CreateDraft, Goto
    <2>2. \/ work' = work
          \/ \E d \in Drafts : work' = [work EXCEPT ![w].draft = d]
      BY <1>3 DEF CreateDraft
    <2>3. \A v \in Workers : work'[v].source = work[v].source
                            /\ work'[v].tries = work[v].tries
      BY <2>2 DEF Works
    <2> QED
      BY <1>3, <2>1, <2>3, BoundsAssumption DEF CreateDraft
  <1>4. ASSUME NEW w \in Workers, Authorize(w)
        PROVE  WorkersAtSources' /\ CallsAreLeft'
    BY <1>4 DEF Authorize, Goto, Works
  <1>5. ASSUME NEW w \in Workers, CallProvider(w)
        PROVE  WorkersAtSources' /\ CallsAreLeft'
    BY <1>5 DEF CallProvider, Goto, Works
  <1>6. ASSUME NEW w \in Workers, Quit(w)
        PROVE  WorkersAtSources' /\ CallsAreLeft'
    BY <1>6 DEF Quit, Goto, NoWork
  <1>7. ASSUME NEW w \in Workers, Heartbeat(w)
        PROVE  WorkersAtSources' /\ CallsAreLeft'
    BY <1>6, <1>7 DEF Heartbeat, Goto
  <1>8. CASE UNCHANGED <<pc, work>>
    BY <1>8
  <1> QED
    BY <1>1, <1>2, <1>3, <1>4, <1>5, <1>6, <1>7, <1>8
    DEF Next, WorkerStep, StoreResult, StoreFailure, WorkerDies, HeartbeatLapses,
        StartImport, RetryImport, EditTopic, DeleteSource, CreateTopic, ConfirmCall,
        ConfirmStep, ConfirmTopics, ConfirmCommit, DeadlockDetected, ConfirmDies, vars

\* What a step can do to the status, the run id and the predecessor of a row.
KeepsRow(s) == /\ row'[s].status = row[s].status
               /\ row'[s].run = row[s].run
               /\ row'[s].previous = row[s].previous
KeepsAllBut(s) == \A t \in Sources \ {s} : KeepsRow(t)

Claims(w, s) ==
  /\ row[s].status \in Unfinished
  /\ row'[s].status = "processing" /\ row'[s].run = w
  /\ row'[s].previous = row[s].previous
  /\ KeepsAllBut(s)
  /\ claimant' = [claimant EXCEPT ![s] = w]
Settles(s) ==
  /\ row[s].status \in {"processing", "failed"} /\ RowFree(s)
  /\ row'[s].status \in Reviewable \cup {"failed", "pending"}
  /\ row'[s].previous = row[s].previous
  /\ KeepsAllBut(s)
  /\ UNCHANGED claimant
Starts(s) ==
  /\ row[s].status = "none" /\ row'[s].status = "pending"
  /\ row'[s].previous # None =>
       row'[s].previous \in Sources /\ row[row'[s].previous].status \notin Gone
  /\ KeepsAllBut(s)
  /\ UNCHANGED claimant
Deletes(s) ==
  /\ row[s].status \notin Gone /\ RowFree(s)
  /\ row'[s].status = "deleted" /\ row'[s].previous = None
  /\ \A t \in Sources \ {s} :
       /\ row'[t].status = row[t].status /\ row'[t].run = row[t].run
       /\ row'[t].previous \in {row[t].previous, None}
  /\ UNCHANGED claimant

\* A draft that is noted and a heartbeat change none of the three.
LEMMA RowsKept ==
  ASSUME IInv, \/ \E w \in Workers : CreateDraft(w) \/ Heartbeat(w)
               \/ \E s \in Sources : HeartbeatLapses(s)
  PROVE  (\A s \in Sources : KeepsRow(s)) /\ UNCHANGED claimant
  <1> USE Types DEF IInv
  <1>0. \A w \in Workers : pc[w] # "idle" => work[w].source \in Sources
    BY DEF WorkersAtSources, Works
  <1>1. ASSUME NEW w \in Workers, CreateDraft(w) PROVE \A s \in Sources : KeepsRow(s)
    <2>1. row' = row \/ \E d \in Drafts : row' = [row EXCEPT ![work[w].source].draft = d]
      BY <1>1 DEF CreateDraft
    <2>2. ASSUME NEW d \in Drafts, row' = [row EXCEPT ![work[w].source].draft = d]
          PROVE  \A s \in Sources : KeepsRow(s)
      BY <2>2 DEF KeepsRow, Rows
    <2> QED
      BY <2>1, <2>2 DEF KeepsRow
  <1>2. ASSUME NEW w \in Workers, Heartbeat(w) PROVE \A s \in Sources : KeepsRow(s)
    <2>1. row' = row \/ row' = [row EXCEPT ![work[w].source].beating = TRUE]
      BY <1>2 DEF Heartbeat
    <2> QED
      BY <2>1 DEF KeepsRow, Rows
  <1>3. ASSUME NEW s \in Sources, HeartbeatLapses(s)
        PROVE  \A t \in Sources : KeepsRow(t)
    BY <1>3 DEF HeartbeatLapses, KeepsRow, Rows
  <1> QED
    BY <1>1, <1>2, <1>3 DEF CreateDraft, Heartbeat, HeartbeatLapses

\* A claim moves one row, and its history with it.
LEMMA ClaimClaims ==
  ASSUME IInv, NEW w \in Workers, NEW s \in Sources, Claim(w, s)
  PROVE  Claims(w, s)
  <1> USE Types DEF IInv
  <1>1. KeepsAllBut(s)
    BY DEF Claim, KeepsAllBut, KeepsRow
  <1>2. /\ row'[s].status = "processing" /\ row'[s].run = w
        /\ row'[s].previous = row[s].previous
    BY DEF Claim, Rows
  <1> QED
    BY <1>1, <1>2 DEF Claim, Claims, Recoverable, Unfinished

\* A new import names a predecessor that is there.
LEMMA StartStarts ==
  ASSUME IInv, NEW s \in Sources, StartImport(s)
  PROVE  Starts(s)
  <1> USE Types DEF IInv
  <1>1. PICK path \in Paths, p \in Sources \cup {None} :
          /\ p # None => row[p].status \notin Gone
          /\ row' = [row EXCEPT ![s] = [NoRow EXCEPT !.status = "pending", !.path = path,
                                                     !.previous = p]]
    BY DEF StartImport
  <1>2. row'[s].status = "pending" /\ row'[s].previous = p /\ KeepsAllBut(s)
    BY <1>1 DEF NoRow, KeepsAllBut, KeepsRow
  <1> QED
    BY <1>1, <1>2 DEF Starts, StartImport

\* A deletion touches one status; its successors forget it.
LEMMA DeleteDeletes ==
  ASSUME IInv, NEW s \in Sources, DeleteSource(s)
  PROVE  Deletes(s)
  <1> USE Types DEF IInv
  <1>1. row'[s].status = "deleted" /\ row'[s].previous = None
    BY DEF DeleteSource, NoRow
  <1>2. ASSUME NEW t \in Sources \ {s}
        PROVE  /\ row'[t].status = row[t].status /\ row'[t].run = row[t].run
               /\ row'[t].previous \in {row[t].previous, None}
    BY DEF DeleteSource, Rows
  <1> QED
    BY <1>1, <1>2 DEF DeleteSource, Deletes

\* Every step does one of these things to the rows.
LEMMA RowStep ==
  ASSUME IInv, [Next]_vars
  PROVE  \/ (\A s \in Sources : KeepsRow(s)) /\ UNCHANGED claimant
         \/ \E w \in Workers, s \in Sources : Claim(w, s) /\ Claims(w, s)
         \/ \E s \in Sources : Settles(s) \/ Starts(s) \/ Deletes(s)
         \/ \E c \in Confirms : ConfirmCommit(c)
  <1> USE Types DEF IInv
  <1>0. \A w \in Workers : pc[w] # "idle" => work[w].source \in Sources
    BY DEF WorkersAtSources, Works
  <1>1. CASE UNCHANGED <<row, claimant>>
    BY <1>1 DEF KeepsRow
  <1>2. ASSUME NEW s \in Sources, NEW status \in Statuses, row' = Settled(s, status)
        PROVE  row'[s].status = status /\ row'[s].previous = row[s].previous
               /\ KeepsAllBut(s)
    BY <1>2, SettledTypes DEF KeepsAllBut, KeepsRow
  <1>3. ASSUME NEW w \in Workers, StoreResult(w), row' # row
        PROVE  \E s \in Sources : Settles(s)
    <2> DEFINE s == work[w].source
    <2>1. s \in Sources /\ Mine(w) /\ RowFree(s) /\ UNCHANGED claimant
      BY <1>0, <1>3 DEF StoreResult
    <2>2. PICK status \in Reviewable : row' = Settled(s, status)
      BY <1>3 DEF StoreResult, Reviewable
    <2>3. status \in Statuses
      BY DEF Statuses
    <2> QED
      BY <1>2, <2>1, <2>2, <2>3 DEF Settles, Mine
  <1>4. ASSUME NEW w \in Workers, StoreFailure(w), row' # row
        PROVE  \E s \in Sources : Settles(s)
    <2>1. work[w].source \in Sources /\ "failed" \in Statuses
      BY <1>0, <1>4 DEF StoreFailure, Statuses
    <2> QED
      BY <1>2, <1>4, <2>1 DEF StoreFailure, Settles, Mine
  <1>5. ASSUME NEW s \in Sources, RetryImport(s) PROVE Settles(s)
    <2>1. "pending" \in Statuses
      BY DEF Statuses, Unfinished
    <2> QED
      BY <1>2, <1>5, <2>1 DEF RetryImport, Settles
  <1> QED
    BY <1>1, <1>3, <1>4, <1>5, RowsKept, ClaimClaims, StartStarts, DeleteDeletes
    DEF Next, WorkerStep, Load, Authorize, CallProvider, StoreResult,
        StoreFailure, WorkerDies, EditTopic,
        CreateTopic, ConfirmCall, ConfirmStep, ConfirmTopics, DeadlockDetected,
        ConfirmDies, vars

\* The row of a held import names its latest claim, after every step.
LEMMA LeaseKept ==
  ASSUME IInv, [Next]_vars
  PROVE  RunIsClaim' /\ PreviousExists'
  <1> USE NoneAssumption, Types DEF IInv, RunIsClaim, PreviousExists
  <1>0. \A s \in Sources : row[s].previous \in Sources \cup {None}
    BY DEF Rows
  <1>1. CASE (\A s \in Sources : KeepsRow(s)) /\ UNCHANGED claimant
    BY <1>0, <1>1 DEF KeepsRow
  <1>2. ASSUME NEW w \in Workers, NEW s \in Sources, Claims(w, s)
        PROVE  RunIsClaim' /\ PreviousExists'
    BY <1>0, <1>2 DEF Claims, KeepsAllBut, KeepsRow
  <1>3. ASSUME NEW s \in Sources, Settles(s) PROVE RunIsClaim' /\ PreviousExists'
    BY <1>0, <1>3 DEF Settles, KeepsAllBut, KeepsRow, Reviewable
  <1>4. ASSUME NEW s \in Sources, Starts(s) PROVE RunIsClaim' /\ PreviousExists'
    BY <1>0, <1>4 DEF Starts, KeepsAllBut, KeepsRow, Gone
  <1>5. ASSUME NEW s \in Sources, Deletes(s) PROVE RunIsClaim' /\ PreviousExists'
    BY <1>0, <1>5 DEF Deletes, Gone
  <1>6. ASSUME NEW c \in Confirms, ConfirmCommit(c) PROVE RunIsClaim' /\ PreviousExists'
    <2>1. UNCHANGED claimant
      BY <1>6 DEF ConfirmCommit
    <2>2. \A t \in Sources : /\ row'[t].status \in {row[t].status, "confirmed", "superseded"}
                             /\ row'[t].run = row[t].run
                             /\ row'[t].previous = row[t].previous
      BY <1>6, CommitWrites
    <2> QED
      BY <1>0, <2>1, <2>2
  <1> QED
    BY <1>1, <1>2, <1>3, <1>4, <1>5, <1>6, RowStep

------------------------------------------------------------------------------
(* The confirmations.                                                         *)

\* The row a confirmation holds is changed by nobody else.
LEMMA HeldRowStands ==
  ASSUME IInv, [Next]_vars, NEW c \in Confirms, confirm[c].stage # "idle",
         ~ConfirmCommit(c)
  PROVE  row'[confirm[c].source].status \in Reviewable
  <1> DEFINE s == confirm[c].source
  <1> USE DEF IInv
  <1>0. s \in Sources /\ row[s].status \in Reviewable
    BY DEF ConfirmsHoldRows, ConfirmHoldsRow
  <1>1. CASE \A t \in Sources : KeepsRow(t)
    BY <1>0, <1>1 DEF KeepsRow
  <1>2. ASSUME NEW w \in Workers, NEW t \in Sources, Claims(w, t)
        PROVE  row'[s].status \in Reviewable
    BY <1>0, <1>2 DEF Claims, KeepsAllBut, KeepsRow, Reviewable, Unfinished
  <1>3. ASSUME NEW t \in Sources, Settles(t) \/ Starts(t) \/ Deletes(t)
        PROVE  row'[s].status \in Reviewable
    BY <1>0, <1>3 DEF Settles, Starts, Deletes, KeepsAllBut, KeepsRow, Reviewable, RowFree
  <1>4. ASSUME NEW d \in Confirms, ConfirmCommit(d)
        PROVE  row'[s].status \in Reviewable
    <2>1. d # c /\ confirm[d].source # s
      BY <1>4 DEF ConfirmCommit, ConfirmsHoldRows, ConfirmHoldsRow
    <2>2. row[confirm[d].source].previous # s
      BY <1>0, <1>4, NoneAssumption DEF ConfirmCommit, RowFree
    <2> QED
      BY <1>0, <1>4, <2>1, <2>2, CommitWrites
  <1> QED
    BY <1>1, <1>2, <1>3, <1>4, RowStep

\* A request of confirm_topics keeps its source until it ends, and takes only a
\* row that is free.
LEMMA ConfirmStages ==
  ASSUME IInv, [Next]_vars, NEW c \in Confirms, confirm'[c].stage # "idle"
  PROVE  \/ /\ confirm[c].stage # "idle"
            /\ confirm'[c].source = confirm[c].source
         \/ /\ row[confirm'[c].source].status \in Reviewable
            /\ confirm'[c].source \in Sources /\ RowFree(confirm'[c].source)
            /\ confirm'[c].stage = "topics" /\ UNCHANGED row
            /\ \A d \in Confirms \ {c} : confirm'[d] = confirm[d]
  <1> USE DEF IInv
  <1>0. confirm \in [Confirms -> [stage : {"idle", "topics", "commit"},
                                  source : Sources \cup {None}]]
    BY DEF TypeOK
  <1>1. CASE UNCHANGED confirm
    BY <1>1
  <1>2. ASSUME NEW d \in Confirms, NEW s \in Sources, ConfirmCall(d, s), c = d
        PROVE  /\ row[confirm'[c].source].status \in Reviewable
               /\ confirm'[c].source \in Sources /\ RowFree(confirm'[c].source)
               /\ confirm'[c].stage = "topics" /\ UNCHANGED row
               /\ \A e \in Confirms \ {c} : confirm'[e] = confirm[e]
    BY <1>0, <1>2 DEF ConfirmCall
  <1>3. ASSUME NEW d \in Confirms, NEW s \in Sources, ConfirmCall(d, s), c # d
        PROVE  confirm'[c] = confirm[c]
    BY <1>0, <1>3 DEF ConfirmCall
  <1>4. ASSUME NEW d \in Confirms, LetGo(d) PROVE c # d /\ confirm'[c] = confirm[c]
    BY <1>0, <1>4 DEF LetGo, NotConfirming
  <1>5. ASSUME NEW d \in Confirms, ConfirmTopics(d)
        PROVE  confirm[c].stage # "idle" /\ confirm'[c].source = confirm[c].source
    BY <1>0, <1>4, <1>5 DEF ConfirmTopics
  <1> QED
    BY <1>1, <1>2, <1>3, <1>4, <1>5
    DEF Next, WorkerStep, Claim, Load, CreateDraft, Authorize, CallProvider, StoreResult,
        StoreFailure, WorkerDies, Heartbeat, HeartbeatLapses, StartImport, RetryImport,
        EditTopic, DeleteSource, CreateTopic, ConfirmStep, ConfirmCommit,
        DeadlockDetected, ConfirmDies, LetGo, vars

\* Each confirmation keeps a reviewable row of its own.
LEMMA RowsHeld ==
  ASSUME IInv, [Next]_vars
  PROVE  ConfirmsHoldRows'
  <1> USE DEF IInv
  <1> SUFFICES ASSUME NEW c \in Confirms, confirm'[c].stage # "idle"
               PROVE  /\ confirm'[c].source \in Sources
                      /\ row'[confirm'[c].source].status \in Reviewable
                      /\ \A d \in Confirms \ {c} : confirm'[d].stage # "idle" =>
                           confirm'[d].source # confirm'[c].source
    BY DEF ConfirmsHoldRows, ConfirmHoldsRow
  <1>1. ~ConfirmCommit(c)
    BY DEF ConfirmCommit, NotConfirming, TypeOK
  <1>2. confirm'[c].source \in Sources
    BY ConfirmStages DEF ConfirmsHoldRows, ConfirmHoldsRow
  <1>3. row'[confirm'[c].source].status \in Reviewable
    BY <1>1, ConfirmStages, HeldRowStands
  <1>4. ASSUME NEW d \in Confirms \ {c}, confirm'[d].stage # "idle"
        PROVE  confirm'[d].source # confirm'[c].source
    <2>1. CASE confirm[c].stage # "idle" /\ confirm'[c].source = confirm[c].source
      <3>1. CASE confirm[d].stage # "idle" /\ confirm'[d].source = confirm[d].source
        BY <2>1, <3>1 DEF ConfirmsHoldRows, ConfirmHoldsRow
      <3>2. CASE RowFree(confirm'[d].source)
        BY <2>1, <3>2 DEF RowFree
      <3> QED
        BY <1>4, <3>1, <3>2, ConfirmStages
    <2>2. CASE /\ RowFree(confirm'[c].source)
               /\ \A e \in Confirms \ {c} : confirm'[e] = confirm[e]
      BY <1>4, <2>2 DEF RowFree
    <2> QED
      BY <2>1, <2>2, ConfirmStages
  <1> QED
    BY <1>2, <1>3, <1>4

\* The topic lock: who is past it, and what it protects.
LEMMA TopicLockKept ==
  ASSUME IInv, [Next]_vars
  PROVE  CommitIsAlone' /\ TopicIsNew' /\ OneCardPerTopic'
  <1> USE Types DEF IInv, CommitIsAlone, TopicIsNew, PastLock, OneCardPerTopic
  <1>0. confirm \in [Confirms -> [stage : {"idle", "topics", "commit"},
                                  source : Sources \cup {None}]]
    BY DEF TypeOK
  <1>1. CASE UNCHANGED <<confirm, proposal, cards>>
    BY <1>1
  <1>2. ASSUME NEW c \in Confirms, ConfirmCommit(c)
        PROVE  CommitIsAlone' /\ TopicIsNew' /\ OneCardPerTopic'
    <2>1. \A d \in Confirms : confirm'[d].stage # "commit"
      BY <1>0, <1>2 DEF ConfirmCommit, NotConfirming
    <2>2. cards' = [cards EXCEPT ![proposal[confirm[c].source].topic] = @ + 1]
      BY <1>2 DEF ConfirmCommit
    <2>3. proposal[confirm[c].source].topic \in Topics =>
            cards[proposal[confirm[c].source].topic] = 0
      BY <1>2 DEF ConfirmCommit
    <2>4. \A t \in Topics : cards'[t] <= 1
      <3>1. CASE proposal[confirm[c].source].topic \in Topics
        BY <2>2, <2>3, <3>1
      <3>2. CASE proposal[confirm[c].source].topic \notin Topics
        BY <2>2, <3>2
      <3> QED
        BY <3>1, <3>2
    <2> QED
      BY <2>1, <2>4
  <1>3. ASSUME NEW c \in Confirms, ConfirmTopics(c)
        PROVE  CommitIsAlone' /\ TopicIsNew' /\ OneCardPerTopic'
    <2>1. /\ confirm[c].stage = "topics" /\ UNCHANGED <<proposal, cards>>
          /\ \A d \in Confirms : confirm[d].stage # "commit"
      BY <1>3 DEF ConfirmTopics, TopicLockFree
    <2>2. CASE LetGo(c)
      <3>1. \A d \in Confirms : confirm'[d].stage # "commit"
        BY <1>0, <2>1, <2>2 DEF LetGo, NotConfirming
      <3> QED
        BY <2>1, <3>1
    <2>3. CASE /\ ~(cards[proposal[confirm[c].source].topic] > 0)
               /\ confirm' = [confirm EXCEPT ![c].stage = "commit"]
      <3>1. /\ confirm'[c].source = confirm[c].source
            /\ \A d \in Confirms : confirm'[d].stage = "commit" => d = c
        BY <1>0, <2>1, <2>3
      <3>2. proposal[confirm[c].source].topic \in Topics => cards[proposal[confirm[c].source].topic] = 0
        BY <2>3
      <3> QED
        BY <2>1, <3>1, <3>2
    <2> QED
      BY <1>3, <2>2, <2>3 DEF ConfirmTopics
  <1>4. ASSUME NEW c \in Confirms, LetGo(c), UNCHANGED <<proposal, cards>>
        PROVE  CommitIsAlone' /\ TopicIsNew' /\ OneCardPerTopic'
    BY <1>0, <1>4 DEF LetGo, NotConfirming
  <1>5. ASSUME NEW c \in Confirms, NEW s \in Sources, ConfirmCall(c, s)
        PROVE  CommitIsAlone' /\ TopicIsNew' /\ OneCardPerTopic'
    BY <1>0, <1>5 DEF ConfirmCall
  <1>6. ASSUME NEW t \in Topics, CreateTopic(t)
        PROVE  CommitIsAlone' /\ TopicIsNew' /\ OneCardPerTopic'
    BY <1>0, <1>6 DEF CreateTopic, TopicLockFree
  <1>7. ASSUME NEW s \in Sources, RowFree(s), UNCHANGED <<confirm, cards>>,
               \A t \in Sources \ {s} : proposal'[t] = proposal[t]
        PROVE  CommitIsAlone' /\ TopicIsNew' /\ OneCardPerTopic'
    <2>1. \A c \in Confirms : confirm[c].stage # "idle" =>
            proposal'[confirm[c].source] = proposal[confirm[c].source]
      BY <1>7 DEF RowFree, ConfirmsHoldRows, ConfirmHoldsRow
    <2> QED
      BY <1>7, <2>1
  <1>8. ASSUME NEW w \in Workers, StoreResult(w)
        PROVE  CommitIsAlone' /\ TopicIsNew' /\ OneCardPerTopic'
    <2>1. work[w].source \in Sources
      BY <1>8 DEF StoreResult, WorkersAtSources, Works
    <2> QED
      BY <1>1, <1>7, <1>8, <2>1 DEF StoreResult
  <1>9. ASSUME NEW s \in Sources, EditTopic(s) \/ DeleteSource(s)
        PROVE  CommitIsAlone' /\ TopicIsNew' /\ OneCardPerTopic'
    BY <1>7, <1>9 DEF EditTopic, DeleteSource
  <1> QED
    BY <1>1, <1>2, <1>3, <1>4, <1>5, <1>6, <1>8, <1>9
    DEF Next, WorkerStep, Claim, Load, CreateDraft, Authorize, CallProvider,
        StoreFailure, WorkerDies, Heartbeat, HeartbeatLapses, StartImport, RetryImport,
        ConfirmStep, DeadlockDetected, ConfirmDies, LetGo, vars

------------------------------------------------------------------------------
(* The theorems.                                                              *)

\* Every step keeps the inductive invariant.
LEMMA NextIInv ==
  ASSUME IInv, [Next]_vars
  PROVE  IInv'
  <1>1. TypeOK'
    <2>1. CASE UNCHANGED vars
      BY <2>1 DEF IInv, TypeOK, vars
    <2> QED
      BY <2>1, WorkerTypes, LearnerTypes, ConfirmTypes DEF Next
  <1> QED
    BY <1>1, WorkersStay, LeaseKept, RowsHeld, TopicLockKept DEF IInv

\* The invariant that the theorems of this module rest on.
THEOREM InductiveInvariant == Spec => []IInv
  BY InitIInv, NextIInv, PTL DEF Spec

\* Types, and a lease only where an import is, or was superseded while it was,
\* in processing.
THEOREM TypeCorrect == Spec => []TypeOK
  <1>1. IInv => TypeOK
    BY DEF IInv
  <1> QED
    BY <1>1, InductiveInvariant, PTL

\* A topic enters the library once, whoever confirms or creates it meanwhile.
THEOREM TopicsEnterOnce == Spec => []OneCardPerTopic
  <1>1. IInv => OneCardPerTopic
    BY DEF IInv
  <1> QED
    BY <1>1, InductiveInvariant, PTL

\* What was confirmed or superseded is out of the reach of late workers, retries
\* and edits.
THEOREM ConfirmedIsFinal == Spec => ConfirmedStays
  <1> DEFINE Stays ==
        \A s \in Sources :
          /\ row[s].status = "confirmed" =>
               row'[s].status \in {"confirmed", "superseded", "deleted"}
          /\ row[s].status = "superseded" =>
               row'[s].status \in {"superseded", "deleted"}
          /\ row[s].status \in {"confirmed", "superseded"}
               /\ row'[s].status # "deleted" => proposal'[s] = proposal[s]
  <1>1. ASSUME IInv, [Next]_vars PROVE Stays
    <2> SUFFICES ASSUME NEW s \in Sources, row[s].status \in {"confirmed", "superseded"}
                 PROVE  /\ row[s].status = "confirmed" =>
                             row'[s].status \in {"confirmed", "superseded", "deleted"}
                        /\ row[s].status = "superseded" =>
                             row'[s].status \in {"superseded", "deleted"}
                        /\ row'[s].status # "deleted" => proposal'[s] = proposal[s]
      OBVIOUS
    <2>1. ASSUME NEW c \in Confirms, ConfirmCommit(c)
          PROVE  /\ row'[s].status \in {row[s].status, "superseded"}
                 /\ proposal'[s] = proposal[s]
      <3>1. confirm[c].source # s
        BY <1>1, <2>1 DEF IInv, ConfirmsHoldRows, ConfirmHoldsRow, ConfirmCommit, Reviewable
      <3> QED
        BY <1>1, <2>1, <3>1, CommitWrites
    <2>2. ASSUME ~\E c \in Confirms : ConfirmCommit(c)
          PROVE  row'[s].status \in {row[s].status, "deleted"}
      BY <1>1, <2>2, RowStep
      DEF KeepsRow, KeepsAllBut, Claims, Settles, Starts, Deletes, Unfinished
    <2>3. ASSUME ~\E c \in Confirms : ConfirmCommit(c), row'[s].status # "deleted"
          PROVE  proposal'[s] = proposal[s]
      <3>1. proposal \in [Sources -> Proposals]
        BY <1>1, Types DEF IInv
      <3>2. ASSUME NEW w \in Workers, StoreResult(w) PROVE proposal'[s] = proposal[s]
        BY <3>1, <3>2 DEF StoreResult, Mine
      <3>3. ASSUME NEW t \in Sources, EditTopic(t) PROVE proposal'[s] = proposal[s]
        BY <3>1, <3>3 DEF EditTopic, Reviewable
      <3>4. ASSUME NEW t \in Sources, DeleteSource(t) PROVE proposal'[s] = proposal[s]
        BY <2>3, <3>1, <3>4 DEF DeleteSource, NoRow
      <3> QED
        BY <1>1, <2>3, <3>2, <3>3, <3>4
        DEF Next, WorkerStep, Claim, Load, CreateDraft, Authorize, CallProvider,
            StoreFailure, WorkerDies, Heartbeat, HeartbeatLapses, StartImport,
            RetryImport, CreateTopic, ConfirmCall, ConfirmStep, ConfirmTopics,
            DeadlockDetected, ConfirmDies, vars
    <2> QED
      BY <2>1, <2>2, <2>3
  <1>2. IInv /\ [Next]_vars => [Stays]_vars
    BY <1>1
  <1> QED
    BY <1>2, InductiveInvariant, PTL DEF Spec, ConfirmedStays

------------------------------------------------------------------------------
(* The queue implements the abstract lease.                                   *)

\* The state of the lease in every state of the queue.
Phase == [s \in Sources |-> PhaseOf(s)]
Holder == [s \in Sources |-> IF PhaseOf(s) = "held" THEN claimant[s] ELSE None]
SourceAt == [w \in Workers |-> work[w].source]

\* The phase of an import, read off the status of its row.
LEMMA Phases ==
  ASSUME TypeOK, NEW s \in Sources
  PROVE  /\ PhaseOf(s) \in {"none", "open", "held", "done", "closed"}
         /\ row[s].status = "none" <=> PhaseOf(s) = "none"
         /\ row[s].status = "pending" <=> PhaseOf(s) = "open"
         /\ row[s].status = "processing" <=> PhaseOf(s) = "held"
         /\ row[s].status \in Reviewable \cup {"failed"} <=> PhaseOf(s) = "done"
         /\ row[s].status \in {"deleted", "confirmed", "superseded"}
              <=> PhaseOf(s) = "closed"
  <1>1. row[s].status \in {"none", "deleted", "pending", "processing", "ready",
                           "needs_attention", "failed", "confirmed", "superseded"}
    BY Types DEF Rows, Statuses, Gone, Unfinished, Reviewable
  <1> QED
    BY <1>1 DEF PhaseOf, Reviewable

LEMMA PhasesAfter ==
  ASSUME TypeOK', NEW s \in Sources
  PROVE  /\ PhaseOf(s)' \in {"none", "open", "held", "done", "closed"}
         /\ row'[s].status = "none" <=> PhaseOf(s)' = "none"
         /\ row'[s].status = "pending" <=> PhaseOf(s)' = "open"
         /\ row'[s].status = "processing" <=> PhaseOf(s)' = "held"
         /\ row'[s].status \in Reviewable \cup {"failed"} <=> PhaseOf(s)' = "done"
         /\ row'[s].status \in {"deleted", "confirmed", "superseded"}
              <=> PhaseOf(s)' = "closed"
  <1>1. row'[s].status \in {"none", "deleted", "pending", "processing", "ready",
                            "needs_attention", "failed", "confirmed", "superseded"}
    BY DEF TypeOK, Rows, Statuses, Gone, Unfinished, Reviewable
  <1> QED
    BY <1>1 DEF PhaseOf, Reviewable

\* A row whose status stands is in the phase it was in.
LEMMA PhaseKept ==
  ASSUME NEW s \in Sources, row'[s].status = row[s].status
  PROVE  PhaseOf(s)' = PhaseOf(s)
  BY DEF PhaseOf

\* Where no status and no claim changes, the lease does not either.
LEMMA LeaseRests ==
  ASSUME \A s \in Sources : row'[s].status = row[s].status, UNCHANGED claimant
  PROVE  Phase' = Phase /\ Holder' = Holder
  <1>1. \A s \in Sources : PhaseOf(s)' = PhaseOf(s)
    BY PhaseKept
  <1> QED
    BY <1>1 DEF Phase, Holder

\* A worker that quits leaves its import.
LEMMA QuitLeaves ==
  ASSUME IInv, NEW w \in Workers, pc[w] # "idle", Quit(w)
  PROVE  SourceAt[w] # None /\ SourceAt' = [SourceAt EXCEPT ![w] = None]
  <1>1. work' = [work EXCEPT ![w] = NoWork]
    BY DEF Quit
  <1>2. \A v \in Workers : work'[v].source = IF v = w THEN None ELSE work[v].source
    BY <1>1, Types DEF IInv, NoWork
  <1> QED
    BY <1>2, Types DEF IInv, SourceAt, WorkersAtSources

\* The queue starts as the lease does.
LEMMA InitLease == Init => Lease!Init
  BY DEF Init, Lease!Init, PhaseOf, NoRow, NoWork

\* A step of a worker, seen from the lease.
LEMMA WorkerImplements ==
  ASSUME IInv, IInv', NEW w \in Workers, WorkerStep(w) \/ Heartbeat(w) \/ WorkerDies(w)
  PROVE  [Lease!Next]_Lease!leaseVars
  <1> USE DEF Phase, Holder, SourceAt
  <1>0. PICK s \in Sources : pc[w] # "idle" /\ work[w].source = s /\ SourceAt[w] = s
    BY Types
    DEF IInv, WorkersAtSources, Works, WorkerStep, Load, CreateDraft, Authorize, CallProvider,
        StoreResult, StoreFailure, Heartbeat, WorkerDies
  <1>1. CASE (\A t \in Sources : row'[t].status = row[t].status) /\ UNCHANGED claimant
    <2>1. Phase' = Phase /\ Holder' = Holder
      BY <1>1, LeaseRests
    <2>2. CASE \A v \in Workers : work'[v].source = work[v].source
      <3>1. SourceAt' = SourceAt
        BY <2>2
      <3> QED
        BY <2>1, <3>1 DEF Lease!leaseVars
    <2>3. CASE Quit(w)
      <3>1. Lease!GiveUp(w)
        BY <1>0, <2>1, <2>3, QuitLeaves DEF Lease!GiveUp
      <3> QED
        BY <3>1 DEF Lease!Next
    <2>4. (\A v \in Workers : work'[v].source = work[v].source) \/ Quit(w)
      <3>1. ASSUME NEW d, work' = [work EXCEPT ![w].draft = d]
            PROVE  \A v \in Workers : work'[v].source = work[v].source
        BY <3>1, Types DEF IInv, Works
      <3>2. ASSUME NEW n, work' = [work EXCEPT ![w].tries = n]
            PROVE  \A v \in Workers : work'[v].source = work[v].source
        BY <3>2, Types DEF IInv, Works
      <3> QED
        BY <3>1, <3>2
        DEF WorkerStep, Load, CreateDraft, Authorize, CallProvider, StoreResult,
            StoreFailure, Heartbeat, WorkerDies
    <2> QED
      BY <2>2, <2>3, <2>4
  <1>2. ASSUME NEW status \in Reviewable \cup {"failed"}, Mine(w), Quit(w),
               row' = Settled(s, status), UNCHANGED claimant
        PROVE  [Lease!Next]_Lease!leaseVars
    <2>1. status \in Statuses
      BY DEF Statuses
    <2>2. row'[s].status = status /\ \A t \in Sources \ {s} : row'[t] = row[t]
      BY <1>0, <1>2, <2>1, Types, SettledTypes DEF IInv
    <2>3. PhaseOf(s) = "held" /\ PhaseOf(s)' = "done"
      <3>1. row[s].status = "processing" /\ row'[s].status \in Reviewable \cup {"failed"}
        BY <1>0, <1>2, <2>2 DEF Mine
      <3> QED
        BY <3>1, Phases, PhasesAfter DEF IInv
    <2>4. \A t \in Sources \ {s} : PhaseOf(t)' = PhaseOf(t)
      BY <2>2, PhaseKept
    <2>5. Phase' = [Phase EXCEPT ![s] = "done"]
      BY <2>3, <2>4
    <2>6. Holder' = [Holder EXCEPT ![s] = None]
      BY <1>2, <2>3, <2>4
    <2>7. Holder[s] = w /\ Phase[s] = "held"
      BY <1>0, <1>2, <2>3 DEF IInv, RunIsClaim, Mine
    <2>8. Lease!Finish(w, s)
      BY <1>0, <1>2, <2>5, <2>6, <2>7, QuitLeaves DEF Lease!Finish
    <2> QED
      BY <2>8 DEF Lease!Next
  <1>3. CASE StoreResult(w) \/ StoreFailure(w)
    <2>1. Quit(w) /\ UNCHANGED claimant
      BY <1>3 DEF StoreResult, StoreFailure
    <2>2. \/ UNCHANGED row
          \/ Mine(w) /\ \E status \in Reviewable \cup {"failed"} : row' = Settled(s, status)
      BY <1>0, <1>3 DEF StoreResult, StoreFailure, Reviewable
    <2> QED
      BY <1>1, <1>2, <2>1, <2>2
  <1>4. CASE CreateDraft(w) \/ Heartbeat(w)
    BY <1>1, <1>4, RowsKept DEF KeepsRow
  <1> QED
    BY <1>1, <1>3, <1>4 DEF WorkerStep, Load, Authorize, CallProvider, WorkerDies

\* A step of the queue is a step of the lease, or leaves it alone.
LEMMA StepImplements ==
  ASSUME IInv, IInv', [Next]_vars
  PROVE  [Lease!Next]_Lease!leaseVars
  <1> USE DEF Phase, Holder, SourceAt
  <1>1. ASSUME NEW w \in Workers, NEW s \in Sources, Claim(w, s) PROVE Lease!Claim(w, s)
    <2>1. Claims(w, s)
      BY <1>1, ClaimClaims
    <2>2. PhaseOf(s) \in {"open", "held"} /\ PhaseOf(s)' = "held"
      BY <2>1, Phases, PhasesAfter DEF IInv, Claims, Unfinished
    <2>3. \A t \in Sources \ {s} : PhaseOf(t)' = PhaseOf(t)
      BY <2>1, PhaseKept DEF Claims, KeepsAllBut, KeepsRow
    <2>4. Phase' = [Phase EXCEPT ![s] = "held"] /\ Holder' = [Holder EXCEPT ![s] = w]
      BY <2>1, <2>2, <2>3, Types DEF Claims, IInv
    <2>5. SourceAt[w] = None /\ SourceAt' = [SourceAt EXCEPT ![w] = s]
      BY <1>1, Types DEF Claim, IInv, WorkersAtSources, NoWork
    <2> QED
      BY <2>2, <2>4, <2>5 DEF Lease!Claim
  <1>2. ASSUME NEW s \in Sources, Starts(s), UNCHANGED work PROVE Lease!Submit(s)
    <2>1. PhaseOf(s) = "none" /\ PhaseOf(s)' = "open"
      BY <1>2, Phases, PhasesAfter DEF IInv, Starts
    <2>2. \A t \in Sources \ {s} : PhaseOf(t)' = PhaseOf(t)
      BY <1>2, PhaseKept DEF Starts, KeepsAllBut, KeepsRow
    <2> QED
      BY <1>2, <2>1, <2>2 DEF Lease!Submit, Starts
  <1>3. ASSUME NEW s \in Sources, RetryImport(s) PROVE Lease!Reopen(s)
    <2>1. /\ row'[s].status = "pending" /\ \A t \in Sources \ {s} : row'[t] = row[t]
      BY <1>3, SettledTypes, Types DEF RetryImport, IInv, Statuses, Unfinished
    <2>2. PhaseOf(s) = "done" /\ PhaseOf(s)' = "open"
      BY <1>3, <2>1, Phases, PhasesAfter DEF IInv, RetryImport
    <2>3. \A t \in Sources \ {s} : PhaseOf(t)' = PhaseOf(t)
      BY <2>1, PhaseKept
    <2> QED
      BY <1>3, <2>2, <2>3 DEF Lease!Reopen, RetryImport
  <1>4. ASSUME NEW S \in SUBSET Sources, UNCHANGED <<claimant, work>>,
               \A t \in S : row[t].status # "none"
                            /\ row'[t].status \in {"deleted", "confirmed", "superseded"},
               \A t \in Sources \ S : row'[t].status = row[t].status
        PROVE  Lease!Close(S)
    <2>1. \A t \in S : PhaseOf(t) # "none" /\ PhaseOf(t)' = "closed"
      BY <1>4, Phases, PhasesAfter DEF IInv
    <2>2. \A t \in Sources \ S : PhaseOf(t)' = PhaseOf(t)
      BY <1>4, PhaseKept
    <2> QED
      BY <1>4, <2>1, <2>2 DEF Lease!Close
  <1>5. ASSUME NEW s \in Sources, DeleteSource(s) PROVE Lease!Close({s})
    <2>1. Deletes(s) /\ UNCHANGED work
      BY <1>5, DeleteDeletes DEF DeleteSource
    <2> QED
      BY <1>4, <2>1 DEF Deletes, Gone
  <1>6. ASSUME NEW c \in Confirms, ConfirmCommit(c)
        PROVE  \E S \in SUBSET Sources : Lease!Close(S)
    <2> DEFINE S == {confirm[c].source} \cup (Sources \cap {row[confirm[c].source].previous})
    <2>1. S \in SUBSET Sources /\ \A t \in S : row[t].status # "none"
      BY <1>6, NoneAssumption
      DEF IInv, ConfirmsHoldRows, ConfirmHoldsRow, ConfirmCommit, Reviewable, PreviousExists
    <2>2. \A t \in S : row'[t].status \in {"confirmed", "superseded"}
      BY <1>6, <2>1, CommitWrites
    <2>3. \A t \in Sources \ S : row'[t].status = row[t].status
      BY <1>6, CommitWrites
    <2>4. UNCHANGED <<claimant, work>>
      BY <1>6 DEF ConfirmCommit
    <2> QED
      BY <1>4, <2>1, <2>2, <2>3, <2>4
  <1>7. CASE (\A t \in Sources : row'[t].status = row[t].status) /\ UNCHANGED <<claimant, work>>
    BY <1>7, LeaseRests DEF Lease!leaseVars
  <1>8. ASSUME NEW s \in Sources, HeartbeatLapses(s)
        PROVE  (\A t \in Sources : row'[t].status = row[t].status) /\ UNCHANGED <<claimant, work>>
    BY <1>8, RowsKept DEF KeepsRow, HeartbeatLapses
  <1> QED
    BY <1>1, <1>2, <1>3, <1>5, <1>6, <1>7, <1>8, WorkerImplements, StartStarts
    DEF Next, Lease!Next, StartImport, EditTopic, CreateTopic, ConfirmCall, ConfirmStep,
        ConfirmTopics, DeadlockDetected, ConfirmDies, vars

\* Whatever the workers, sweepers and handlers do, the rows are a lease.
THEOREM LeaseImplemented == Spec => ImplementsLease
  <1>1. IInv /\ IInv' /\ [Next]_vars => [Lease!Next]_Lease!leaseVars
    BY StepImplements
  <1> QED
    BY <1>1, InitLease, InductiveInvariant, PTL DEF Spec, ImplementsLease, Lease!Spec

\* What an import or its owner settled stands.
THEOREM SettledStands == Spec => ResultsStand
  BY LeaseImplemented, ConfirmedIsFinal, PTL DEF ResultsStand

-----------------------------------------------------------------------------
(***************************************************************************)
(* The pilot of imported lessons: the operators' side (PilotProtocol)      *)
(***************************************************************************)

LessonStatuses ==
  {"none", "draft", "pending", "processing", "ready", "needs_attention", "failed",
   "confirmed", "deleted"}
AssignmentRows ==
  [kept : BOOLEAN, sequence : Nat, condition : Conditions \cup {"none"},
   intended : Concepts \cup {0}, target : Concepts \cup {0}]
TopicRows ==
  [status : {"none", "clean", "needs_attention", "confirmed", "excluded"},
   text : {"none", "original", "repaired", "corrected", "edited"}, verified : BOOLEAN]
Verdict == {"none", "pending", "approved", "corrected", "blocked"}

ProtocolTypes ==
  /\ enrollment = [status |-> enrollment.status, seed |-> enrollment.seed]
  /\ enrollment.status # "none" => enrollment.seed \in Seeds
  /\ manifest \in [Lessons -> AssignmentRows]
  /\ lesson \in [Lessons -> LessonStatuses]
  /\ topic \in [Lessons -> [Concepts -> TopicRows]]
  /\ audit \in [Lessons -> [Concepts -> Verdict]]

\* A lesson without a turn is not assigned; with one, its participant is enrolled.
AssignedWhole ==
  \A l \in Lessons : IF manifest[l].sequence = 0 THEN manifest[l] = Unassigned
                     ELSE enrollment.status # "none" /\ manifest[l].condition \in Conditions

BoundIsReviewable ==
  \A l \in Lessons : manifest[l].target # 0 => lesson[l] \in LessonReviewable \cup {"confirmed"}

ProtocolInv ==
  /\ ProtocolTypes /\ AssignedWhole /\ BoundIsReviewable
  /\ AssignmentsFollowSeed /\ TargetWasReviewed /\ CleanIsVerified

\* Before the enrolment nothing is assigned, reviewed or bound.
LEMMA ProtocolBegins ==
  ASSUME ProtocolInit
  PROVE  ProtocolInv
  <1> USE DEF ProtocolInit, Unassigned, NoTopics, NoTopic, NoAudits
  <1>1. ProtocolTypes
    BY DEF ProtocolTypes, AssignmentRows, LessonStatuses, TopicRows, Verdict, Conditions
  <1>2. AssignedWhole /\ BoundIsReviewable
    BY DEF AssignedWhole, BoundIsReviewable
  <1>3. AssignmentsFollowSeed
    BY DEF AssignmentsFollowSeed
  <1>4. TargetWasReviewed /\ CleanIsVerified
    BY DEF TargetWasReviewed, CleanIsVerified
  <1> QED
    BY <1>1, <1>2, <1>3, <1>4 DEF ProtocolInv

\* What passes a grounding without an issue, the verifier has passed as it stands.
LEMMA GroundingPasses ==
  ASSUME NEW g \in PossibleGroundings, NEW p \in Concepts, p \notin g.issues
  PROVE  p \in g.verified
  <1> DEFINE usable == {r \in Reviews : ReviewSound(r, Issued)}
  <1>1. CASE \E r \in usable : g = Outcome(GroundedOnce(r), Original, r)
    BY <1>1 DEF Outcome, GroundedOnce, Verified
  <1>2. CASE \E r, s \in usable : g = Outcome(GroundedTwice(r, s), Repaired(r), s)
    BY <1>2 DEF Outcome, GroundedTwice, Verified
  <1> QED
    BY <1>1, <1>2 DEF PossibleGroundings, Groundings

\* The topics of a lesson are proposed anew, or decided upon.
LEMMA ProposedRows ==
  ASSUME NEW g \in PossibleGroundings, NEW taken
  PROVE  /\ Proposed(g, taken) \in [Concepts -> TopicRows]
         /\ \A p \in Concepts : Proposed(g, taken)[p].status = "clean" => Proposed(g, taken)[p].verified
         /\ \A p \in Concepts : Proposed(g, taken)[p].status # "confirmed"
  <1> DEFINE Marked(p) == p \in g.issues \cup taken
             Status(p) == IF Marked(p) THEN "needs_attention" ELSE "clean"
             Text(p) == IF \E field \in Fields : g.texts[p][field] = "repaired"
                        THEN "repaired" ELSE "original"
             Seen(p) == p \in g.verified
             Written(p) == [status |-> Status(p), text |-> Text(p), verified |-> Seen(p)]
  <1>1. Proposed(g, taken) = [p \in Concepts |-> Written(p)]
    BY DEF Proposed
  <1>2. ASSUME NEW p \in Concepts
        PROVE  /\ Status(p) \in {"needs_attention", "clean"} /\ Text(p) \in {"repaired", "original"}
               /\ Seen(p) \in BOOLEAN /\ (Status(p) = "clean" => Seen(p))
    BY GroundingPasses
  <1> HIDE DEF Status, Text, Seen
  <1>3. ASSUME NEW p \in Concepts
        PROVE  /\ Written(p) \in TopicRows /\ Written(p).status \in {"needs_attention", "clean"}
               /\ (Written(p).status = "clean" => Written(p).verified)
    <2>1. Written(p).status = Status(p) /\ Written(p).verified = Seen(p)
      OBVIOUS
    <2>2. Written(p) \in TopicRows
      BY <1>2 DEF TopicRows
    <2> QED
      BY <1>2, <2>1, <2>2
  <1> HIDE DEF Written
  <1> QED
    BY <1>1, <1>3

\* Steps that leave the manifest alone but for assignments that lose their lesson.
ManifestStays(l) ==
  /\ manifest'[l].sequence = manifest[l].sequence /\ manifest'[l].condition = manifest[l].condition
  /\ manifest'[l] = manifest[l] \/ (manifest'[l].kept = FALSE /\ manifest'[l].target = 0)

\* A step that leaves the turns and the conditions leaves the seed's plan in force.
LEMMA AssignmentsStay ==
  ASSUME ProtocolInv, ProtocolTypes', UNCHANGED enrollment, \A l \in Lessons : ManifestStays(l),
         \A l, m \in Lessons : lesson'[l] = "draft" => lesson'[m] \in {"draft", "deleted"}
  PROVE  AssignmentsFollowSeed'
  <1> DEFINE assigned == {l \in Lessons : manifest[l].sequence # 0}
  <1>1. assigned' = assigned
    BY DEF ManifestStays
  <1>2. /\ assigned \in {{}, Lessons}
        /\ \A l \in assigned : PlanOf[enrollment.seed][l] = [sequence |-> manifest[l].sequence,
                                                             condition |-> manifest[l].condition]
    BY DEF ProtocolInv, AssignmentsFollowSeed
  <1>3. \A l \in assigned : PlanOf[enrollment'.seed][l] = [sequence |-> manifest'[l].sequence,
                                                             condition |-> manifest'[l].condition]
    BY <1>2 DEF ManifestStays
  <1> QED
    BY <1>1, <1>2, <1>3 DEF AssignmentsFollowSeed

\* An enrolment fixes the seed while nothing is assigned.
LEMMA EnrollKeeps ==
  ASSUME ProtocolInv, NEW seed \in Seeds, Enroll(seed)
  PROVE  ProtocolInv'
  <1>1. ProtocolTypes'
    BY DEF Enroll, ProtocolInv, ProtocolTypes
  <1>2. \A l \in Lessons : manifest[l].sequence = 0
    BY DEF Enroll, ProtocolInv, AssignedWhole
  <1>3. AssignedWhole'
    BY <1>2 DEF Enroll, ProtocolInv, AssignedWhole
  <1>4. AssignmentsFollowSeed'
    <2>1. {l \in Lessons : manifest'[l].sequence # 0} = {}
      BY <1>2 DEF Enroll
    <2>2. \A l, m \in Lessons : lesson'[l] = "draft" => lesson'[m] \in {"draft", "deleted"}
      BY DEF Enroll, ProtocolInv, AssignmentsFollowSeed
    <2> QED
      BY <2>1, <2>2 DEF AssignmentsFollowSeed
  <1>5. BoundIsReviewable' /\ TargetWasReviewed' /\ CleanIsVerified'
    BY DEF Enroll, ProtocolInv, BoundIsReviewable, TargetWasReviewed, CleanIsVerified, Decided
  <1> QED
    BY <1>1, <1>3, <1>4, <1>5 DEF ProtocolInv

\* A plan gives every lesson a turn and a condition.
LEMMA PlansAre ==
  ASSUME NEW plan \in AssignmentPlans, NEW l \in Lessons
  PROVE  /\ plan[l].sequence \in Nat /\ plan[l].sequence # 0 /\ plan[l].condition \in Conditions
         /\ plan[l] = [sequence |-> plan[l].sequence, condition |-> plan[l].condition]
  BY DEF AssignmentPlans

\* What an assignment writes for a lesson.
LEMMA AssignmentIs ==
  ASSUME NEW sequence \in Nat, NEW condition \in Conditions, NEW aim \in Concepts, NEW entry,
         entry = [kept |-> TRUE, sequence |-> sequence, condition |-> condition,
                intended |-> aim, target |-> 0]
  PROVE  /\ entry \in AssignmentRows /\ entry.sequence = sequence /\ entry.condition = condition
         /\ entry.target = 0
  BY DEF AssignmentRows

\* The assignments are made all at once, of lessons not reviewed yet.
LEMMA AssignmentsMade ==
  ASSUME ProtocolInv, Enrolled, NEW intended \in [Lessons -> Concepts],
         manifest' = Assignments(PlanOf[enrollment.seed], intended),
         UNCHANGED <<enrollment, topic, audit>>, lesson' \in [Lessons -> LessonStatuses],
         \A l, m \in Lessons : lesson'[l] = "draft" => lesson'[m] \in {"draft", "deleted"}
  PROVE  ProtocolInv'
  <1> DEFINE plan == PlanOf[enrollment.seed]
  <1>1. plan \in AssignmentPlans
    BY PlansAssumption DEF ProtocolInv, ProtocolTypes, Enrolled
  <1> HIDE DEF plan
  <1>2. ASSUME NEW l \in Lessons
        PROVE  /\ manifest'[l] = [kept |-> TRUE, sequence |-> plan[l].sequence,
                                  condition |-> plan[l].condition, intended |-> intended[l], target |-> 0]
               /\ plan[l].sequence \in Nat /\ plan[l].sequence # 0 /\ plan[l].condition \in Conditions
               /\ plan[l] = [sequence |-> plan[l].sequence, condition |-> plan[l].condition]
    BY <1>1, PlansAre DEF Assignments, plan
  <1>3. ASSUME NEW l \in Lessons
        PROVE  /\ manifest'[l] \in AssignmentRows /\ manifest'[l].sequence = plan[l].sequence
               /\ manifest'[l].condition = plan[l].condition /\ manifest'[l].target = 0
    <2> DEFINE sequence == plan[l].sequence
               condition == plan[l].condition
               aim == intended[l]
               entry == manifest'[l]
    <2>1. sequence \in Nat /\ condition \in Conditions /\ aim \in Concepts
      BY <1>2
    <2>2. entry = [kept |-> TRUE, sequence |-> sequence, condition |-> condition,
                 intended |-> aim, target |-> 0]
      BY <1>2
    <2> HIDE DEF sequence, condition, aim, entry
    <2>3. /\ entry \in AssignmentRows /\ entry.sequence = sequence /\ entry.condition = condition
          /\ entry.target = 0
      BY <2>1, <2>2, AssignmentIs
    <2> QED
      BY <2>3 DEF sequence, condition, entry
  <1>4. ProtocolTypes'
    <2>1. manifest' = [l \in Lessons |-> manifest'[l]]
      BY DEF Assignments
    <2>2. manifest' \in [Lessons -> AssignmentRows]
      BY <1>3, <2>1
    <2> QED
      BY <2>2 DEF ProtocolInv, ProtocolTypes
  <1>5. AssignedWhole'
    BY <1>2, <1>3 DEF AssignedWhole, Enrolled
  <1>6. BoundIsReviewable' /\ TargetWasReviewed' /\ CleanIsVerified'
    BY <1>3 DEF ProtocolInv, BoundIsReviewable, TargetWasReviewed, CleanIsVerified
  <1>7. AssignmentsFollowSeed'
    <2>1. {l \in Lessons : manifest'[l].sequence # 0} = Lessons
      BY <1>2, <1>3
    <2>2. \A l \in Lessons : PlanOf[enrollment'.seed][l] = [sequence |-> manifest'[l].sequence,
                                                            condition |-> manifest'[l].condition]
      BY <1>2, <1>3 DEF plan
    <2> QED
      BY <2>1, <2>2 DEF AssignmentsFollowSeed
  <1> QED
    BY <1>4, <1>5, <1>6, <1>7 DEF ProtocolInv

\* The drafts get the assignments of the enrolled seed, all at once.
LEMMA ProvisionKeeps ==
  ASSUME ProtocolInv, NEW intended \in [Lessons -> Concepts], Provision(intended)
  PROVE  ProtocolInv'
  <1>1. lesson' = [l \in Lessons |-> "draft"]
    BY DEF Provision
  <1>2. lesson' \in [Lessons -> LessonStatuses]
    BY <1>1 DEF LessonStatuses
  <1> QED
    BY <1>1, <1>2, AssignmentsMade DEF Provision

\* The operator's plan is the one of the seed.
LEMMA AssignManifestKeeps ==
  ASSUME ProtocolInv, NEW intended \in [Lessons -> Concepts], NEW plan \in AssignmentPlans,
         AssignManifest(plan, intended)
  PROVE  ProtocolInv'
  <1>1. lesson' \in [Lessons -> LessonStatuses]
    BY DEF AssignManifest, ProtocolInv, ProtocolTypes
  <1>2. \A l, m \in Lessons : lesson'[l] = "draft" => lesson'[m] \in {"draft", "deleted"}
    BY DEF AssignManifest, ProtocolInv, AssignmentsFollowSeed
  <1> QED
    BY <1>1, <1>2, AssignmentsMade DEF AssignManifest, PlanAccepted

\* The status of a lesson changes before it can be bound.
LEMMA StatusMoves ==
  ASSUME ProtocolInv, UNCHANGED <<enrollment, manifest, topic, audit>>,
         lesson' \in [Lessons -> LessonStatuses],
         \A l \in Lessons : lesson'[l] # lesson[l] =>
             lesson[l] \notin LessonReviewable \cup {"confirmed", "deleted"},
         \A l, m \in Lessons : lesson'[l] = "draft" => lesson'[m] \in {"draft", "deleted"}
  PROVE  ProtocolInv'
  <1>1. ProtocolTypes' /\ AssignedWhole' /\ BoundIsReviewable'
    BY DEF ProtocolInv, ProtocolTypes, AssignedWhole, BoundIsReviewable
  <1>2. TargetWasReviewed' /\ CleanIsVerified'
    BY DEF ProtocolInv, TargetWasReviewed, CleanIsVerified, Decided
  <1>3. \A l \in Lessons : ManifestStays(l)
    BY DEF ManifestStays
  <1> QED
    BY <1>1, <1>2, <1>3, AssignmentsStay DEF ProtocolInv

\* The drafts are released together.
LEMMA StartProcessingKeeps ==
  ASSUME ProtocolInv, StartProcessing
  PROVE  ProtocolInv'
  <1>1. lesson' = [l \in Lessons |-> "pending"]
    BY DEF StartProcessing
  <1> QED
    BY <1>1, StatusMoves DEF StartProcessing, LessonStatuses, LessonReviewable

\* A single lesson that is no draft moves on.
LEMMA OneMoves ==
  ASSUME ProtocolInv, NEW l \in Lessons, NEW status \in LessonStatuses \ {"draft", "none"},
         lesson' = [lesson EXCEPT ![l] = status], lesson[l] \notin {"draft", "deleted"}
  PROVE  /\ lesson' \in [Lessons -> LessonStatuses]
         /\ \A k \in Lessons : lesson'[k] = IF k = l THEN status ELSE lesson[k]
         /\ \A k, m \in Lessons : lesson'[k] = "draft" => lesson'[m] \in {"draft", "deleted"}
  <1>1. lesson \in [Lessons -> LessonStatuses] /\ status \in LessonStatuses
    BY DEF ProtocolInv, ProtocolTypes
  <1>2. /\ lesson' \in [Lessons -> LessonStatuses]
        /\ \A k \in Lessons : lesson'[k] = IF k = l THEN status ELSE lesson[k]
    BY <1>1
  <1>3. \A k, m \in Lessons : lesson[k] = "draft" => lesson[m] \in {"draft", "deleted"}
    BY DEF ProtocolInv, AssignmentsFollowSeed
  <1>4. ASSUME NEW k \in Lessons, NEW m \in Lessons, lesson'[k] = "draft"
        PROVE  lesson'[m] \in {"draft", "deleted"}
    <2>1. k # l /\ lesson[k] = "draft"
      BY <1>2, <1>4
    <2> QED
      BY <1>3, <2>1
  <1> QED
    BY <1>2, <1>4

\* An upload, a claim and a retry move the status of one lesson.
LEMMA UploadKeeps ==
  ASSUME ProtocolInv, NEW l \in Lessons, UploadLesson(l)
  PROVE  ProtocolInv'
  BY OneMoves, StatusMoves DEF UploadLesson, LessonStatuses, LessonReviewable

LEMMA ClaimKeeps ==
  ASSUME ProtocolInv, NEW l \in Lessons, ClaimLesson(l)
  PROVE  ProtocolInv'
  BY OneMoves, StatusMoves DEF ClaimLesson, LessonStatuses, LessonReviewable

LEMMA RetryKeeps ==
  ASSUME ProtocolInv, NEW l \in Lessons, RetryLesson(l)
  PROVE  ProtocolInv'
  BY OneMoves, StatusMoves DEF RetryLesson, LessonStatuses, LessonReviewable

\* What is written of one lesson: its topics and their audits, and how far it is.
LessonWritten(l) ==
  /\ UNCHANGED enrollment
  /\ lesson' \in [Lessons -> LessonStatuses] /\ manifest' \in [Lessons -> AssignmentRows]
  /\ topic' \in [Lessons -> [Concepts -> TopicRows]]
  /\ audit' \in [Lessons -> [Concepts -> Verdict]]
  /\ \A k \in Lessons \ {l} : /\ lesson'[k] = lesson[k] /\ manifest'[k] = manifest[k]
                              /\ topic'[k] = topic[k] /\ audit'[k] = audit[k]

\* What is left to show of a step that writes one lesson.
LEMMA OneLessonKeeps ==
  ASSUME ProtocolInv, NEW l \in Lessons, LessonWritten(l),
         manifest'[l].sequence = manifest[l].sequence,
         manifest'[l].condition = manifest[l].condition,
         manifest'[l] = Unassigned \/ manifest'[l].sequence # 0,
         lesson'[l] = lesson[l] \/ lesson[l] \notin {"draft", "deleted"} \/ lesson'[l] = "deleted",
         lesson'[l] = lesson[l] \/ lesson'[l] # "draft",
         manifest'[l].target # 0 =>
           /\ lesson'[l] \in LessonReviewable \cup {"confirmed"}
           /\ Decided(l)' /\ audit'[l][manifest'[l].target] # "blocked"
           /\ \A q \in Concepts \ {manifest'[l].target} : topic'[l][q].status \notin {"clean", "confirmed"},
         \A p \in Concepts : topic'[l][p].status \in {"clean", "confirmed"} => topic'[l][p].verified
  PROVE  ProtocolInv'
  <1>1. ProtocolTypes'
    BY DEF ProtocolInv, ProtocolTypes, LessonWritten
  <1>2. AssignedWhole'
    BY DEF ProtocolInv, AssignedWhole, LessonWritten
  <1>3. BoundIsReviewable'
    BY DEF ProtocolInv, BoundIsReviewable, LessonWritten
  <1>4. TargetWasReviewed'
    BY DEF ProtocolInv, TargetWasReviewed, LessonWritten, Decided
  <1>5. CleanIsVerified'
    BY DEF ProtocolInv, CleanIsVerified, LessonWritten
  <1>6. ASSUME NEW k \in Lessons, NEW m \in Lessons, lesson'[k] = "draft"
        PROVE  lesson'[m] \in {"draft", "deleted"}
    <2>1. lesson[k] = "draft"
      BY <1>6 DEF LessonWritten
    <2>2. lesson[m] \in {"draft", "deleted"} /\ lesson[l] \in {"draft", "deleted"}
      BY <2>1 DEF ProtocolInv, AssignmentsFollowSeed
    <2> QED
      BY <2>2 DEF LessonWritten
  <1>7. AssignmentsFollowSeed'
    <2> DEFINE assigned == {k \in Lessons : manifest[k].sequence # 0}
    <2>1. \A k \in Lessons : /\ manifest'[k].sequence = manifest[k].sequence
                            /\ manifest'[k].condition = manifest[k].condition
      BY DEF LessonWritten
    <2>2. assigned' = assigned
      BY <2>1
    <2>3. /\ assigned \in {{}, Lessons}
          /\ \A k \in assigned : PlanOf[enrollment.seed][k] = [sequence |-> manifest[k].sequence,
                                                              condition |-> manifest[k].condition]
      BY DEF ProtocolInv, AssignmentsFollowSeed
    <2>4. \A k \in assigned : PlanOf[enrollment'.seed][k] = [sequence |-> manifest'[k].sequence,
                                                              condition |-> manifest'[k].condition]
      BY <2>1, <2>3 DEF LessonWritten
    <2> HIDE DEF assigned
    <2>5. assigned' \in {{}, Lessons} /\ \A k \in assigned' :
             PlanOf[enrollment'.seed][k] = [sequence |-> manifest'[k].sequence,
                                            condition |-> manifest'[k].condition]
      BY <2>2, <2>3, <2>4
    <2> QED
      BY <1>6, <2>5 DEF AssignmentsFollowSeed, assigned
  <1> QED
    BY <1>1, <1>2, <1>3, <1>4, <1>5, <1>7 DEF ProtocolInv

\* The types, one by one.
LEMMA RowsAre ==
  ASSUME ProtocolInv, NEW l \in Lessons
  PROVE  /\ lesson \in [Lessons -> LessonStatuses] /\ manifest \in [Lessons -> AssignmentRows]
         /\ topic \in [Lessons -> [Concepts -> TopicRows]]
         /\ audit \in [Lessons -> [Concepts -> Verdict]]
         /\ manifest[l] \in AssignmentRows /\ topic[l] \in [Concepts -> TopicRows]
         /\ (manifest[l].sequence = 0 => manifest[l] = Unassigned)
         /\ \A p \in Concepts : topic[l][p].status \in {"clean", "confirmed"} => topic[l][p].verified
         /\ (manifest[l].target # 0 =>
              /\ lesson[l] \in LessonReviewable \cup {"confirmed"}
              /\ Decided(l) /\ audit[l][manifest[l].target] # "blocked"
              /\ \A q \in Concepts \ {manifest[l].target} :
                   topic[l][q].status \notin {"clean", "confirmed"})
  BY DEF ProtocolInv, ProtocolTypes, AssignedWhole, CleanIsVerified, BoundIsReviewable, TargetWasReviewed

\* An extraction proposes the topics of an unbound lesson anew.
LEMMA ExtractKeeps ==
  ASSUME ProtocolInv, NEW l \in Lessons, ExtractLesson(l)
  PROVE  ProtocolInv'
  <1>1. lesson[l] = "processing" /\ UNCHANGED <<enrollment, manifest>>
    BY DEF ExtractLesson
  <1>2. manifest[l].target = 0
    BY <1>1, RowsAre DEF LessonReviewable
  <1>3. CASE lesson' = [lesson EXCEPT ![l] = "failed"] /\ UNCHANGED <<topic, audit>>
    <2>1. "failed" \in LessonStatuses \ {"draft", "none"}
      BY DEF LessonStatuses
    <2> QED
      BY <1>1, <1>3, <2>1, OneMoves, StatusMoves DEF LessonReviewable
  <1>4. ASSUME NEW g \in PossibleGroundings, NEW taken \in SUBSET Concepts,
               topic' = [topic EXCEPT ![l] = Proposed(g, taken)],
               lesson' = [lesson EXCEPT ![l] = IF g.issues \cup taken = {} THEN "ready"
                                               ELSE "needs_attention"],
               audit' = [audit EXCEPT ![l] = [p \in Concepts |->
                           IF AuditAuthorized(l) THEN "pending" ELSE "none"]]
        PROVE  ProtocolInv'
    <2>1. lesson'[l] \in {"ready", "needs_attention"} /\ topic'[l] = Proposed(g, taken)
      BY <1>4, RowsAre
    <2>2. LessonWritten(l)
      <3>1. [p \in Concepts |-> IF AuditAuthorized(l) THEN "pending" ELSE "none"] \in [Concepts -> Verdict]
        BY DEF Verdict
      <3>2. audit' \in [Lessons -> [Concepts -> Verdict]] /\ \A k \in Lessons \ {l} : audit'[k] = audit[k]
        BY <1>4, <3>1, RowsAre
      <3>3. Proposed(g, taken) \in [Concepts -> TopicRows]
        BY ProposedRows
      <3>4. topic' \in [Lessons -> [Concepts -> TopicRows]] /\ \A k \in Lessons \ {l} : topic'[k] = topic[k]
        BY <1>4, <3>3, RowsAre
      <3>5. lesson' \in [Lessons -> LessonStatuses] /\ \A k \in Lessons \ {l} : lesson'[k] = lesson[k]
        BY <1>4, RowsAre DEF LessonStatuses
      <3> QED
        BY <1>1, <3>2, <3>4, <3>5, RowsAre DEF LessonWritten
    <2>3. \A p \in Concepts : topic'[l][p].status \in {"clean", "confirmed"} => topic'[l][p].verified
      BY <2>1, ProposedRows
    <2>4. manifest'[l] = Unassigned \/ manifest'[l].sequence # 0
      BY <1>1, RowsAre
    <2> QED
      BY <1>1, <1>2, <2>1, <2>2, <2>3, <2>4, OneLessonKeeps
  <1> QED
    BY <1>3, <1>4 DEF ExtractLesson

\* A deletion leaves an unassigned lesson unassigned.
LEMMA StaysUnassigned ==
  [Unassigned EXCEPT !.kept = FALSE, !.target = 0] = Unassigned
  <1> DEFINE u == Unassigned
             e == [u EXCEPT !.kept = FALSE, !.target = 0]
  <1>1. /\ u = [x \in DOMAIN u |-> u[x]] /\ DOMAIN u = {"kept", "sequence", "condition", "intended", "target"}
        /\ u["kept"] = FALSE /\ u["target"] = 0
    BY DEF Unassigned
  <1> HIDE DEF u
  <1>2. e = [x \in DOMAIN u |-> e[x]]
    OBVIOUS
  <1>3. \A x \in DOMAIN u : e[x] = u[x]
    BY <1>1
  <1>4. e = u
    BY <1>1, <1>2, <1>3
  <1> QED
    BY <1>4 DEF u

\* An assignment that loses its lesson.
LEMMA AssignmentEnds ==
  ASSUME ProtocolInv, NEW l \in Lessons,
         manifest' = [manifest EXCEPT ![l].kept = FALSE, ![l].target = 0]
  PROVE  /\ manifest' \in [Lessons -> AssignmentRows] /\ manifest'[l].target = 0
         /\ manifest'[l].sequence = manifest[l].sequence /\ manifest'[l].condition = manifest[l].condition
         /\ manifest'[l].kept = FALSE /\ \A k \in Lessons \ {l} : manifest'[k] = manifest[k]
         /\ manifest'[l] = Unassigned \/ manifest'[l].sequence # 0
  <1> DEFINE entry == [manifest[l] EXCEPT !.kept = FALSE, !.target = 0]
  <1>1. manifest \in [Lessons -> AssignmentRows] /\ manifest[l] \in AssignmentRows
    BY RowsAre
  <1>2. /\ entry \in AssignmentRows /\ entry.target = 0 /\ entry.sequence = manifest[l].sequence
        /\ entry.condition = manifest[l].condition /\ entry.kept = FALSE
    BY <1>1 DEF AssignmentRows
  <1>3. ASSUME manifest[l] = Unassigned PROVE entry = Unassigned
    BY <1>3, StaysUnassigned
  <1>4. manifest' = [manifest EXCEPT ![l] = entry]
    BY <1>1
  <1>5. manifest[l].sequence = 0 => manifest[l] = Unassigned
    BY RowsAre
  <1> HIDE DEF entry
  <1>6. /\ manifest' \in [Lessons -> AssignmentRows] /\ manifest'[l] = entry
        /\ \A k \in Lessons \ {l} : manifest'[k] = manifest[k]
    BY <1>1, <1>2, <1>4
  <1> QED
    BY <1>2, <1>3, <1>5, <1>6

\* A deleted lesson has no topics, and its assignment no target.
LEMMA DeleteKeeps ==
  ASSUME ProtocolInv, NEW l \in Lessons, DeleteLesson(l)
  PROVE  ProtocolInv'
  <1>1. NoTopics \in [Concepts -> TopicRows] /\ NoAudits \in [Concepts -> Verdict]
        /\ \A p \in Concepts : NoTopics[p].status = "none"
    BY DEF NoTopics, NoAudits, NoTopic, TopicRows, Verdict
  <1>2. lesson' \in [Lessons -> LessonStatuses] /\ lesson'[l] = "deleted"
        /\ \A k \in Lessons \ {l} : lesson'[k] = lesson[k]
    BY RowsAre DEF DeleteLesson, LessonStatuses
  <1>3. /\ topic' \in [Lessons -> [Concepts -> TopicRows]] /\ topic'[l] = NoTopics
        /\ \A k \in Lessons \ {l} : topic'[k] = topic[k]
    BY <1>1, RowsAre DEF DeleteLesson
  <1>4. /\ audit' \in [Lessons -> [Concepts -> Verdict]]
        /\ \A k \in Lessons \ {l} : audit'[k] = audit[k]
    BY <1>1, RowsAre DEF DeleteLesson
  <1>5. LessonWritten(l)
    BY <1>2, <1>3, <1>4, AssignmentEnds DEF LessonWritten, DeleteLesson
  <1>6. \A p \in Concepts : topic'[l][p].status \in {"clean", "confirmed"} => topic'[l][p].verified
    BY <1>1, <1>3
  <1>7. /\ manifest'[l].target = 0 /\ manifest'[l].sequence = manifest[l].sequence
        /\ manifest'[l].condition = manifest[l].condition
        /\ manifest'[l] = Unassigned \/ manifest'[l].sequence # 0
    BY AssignmentEnds DEF DeleteLesson
  <1> QED
    BY <1>2, <1>5, <1>6, <1>7, OneLessonKeeps

\* The topics of a lesson are written, and the audits.
TopicsWritten(l, rows, audits) ==
  /\ topic' = [topic EXCEPT ![l] = rows] /\ audit' = [audit EXCEPT ![l] = audits]
  /\ rows \in [Concepts -> TopicRows] /\ audits \in [Concepts -> Verdict]

\* Such a step writes one lesson.
LEMMA TopicsAreWritten ==
  ASSUME ProtocolInv, NEW l \in Lessons, NEW rows, NEW audits, TopicsWritten(l, rows, audits),
         UNCHANGED enrollment,
         lesson' \in [Lessons -> LessonStatuses], manifest' \in [Lessons -> AssignmentRows],
         \A k \in Lessons \ {l} : lesson'[k] = lesson[k] /\ manifest'[k] = manifest[k]
  PROVE  LessonWritten(l) /\ topic'[l] = rows /\ audit'[l] = audits
  BY RowsAre DEF TopicsWritten, LessonWritten

\* A review decides about a proposal that is pending, so that its lesson is not bound.
LEMMA ReviewKeeps ==
  ASSUME ProtocolInv, NEW l \in Lessons, NEW p \in Concepts,
         NEW decision \in {"approved", "corrected", "blocked"}, ReviewProposal(l, p, decision)
  PROVE  ProtocolInv'
  <1>1. /\ audit[l][p] = "pending" /\ UNCHANGED <<enrollment, manifest, lesson>>
        /\ audit' = [audit EXCEPT ![l][p] = decision]
    BY DEF ReviewProposal
  <1>2. manifest[l].target = 0
    BY <1>1, RowsAre DEF Decided
  <1> DEFINE audits == [audit[l] EXCEPT ![p] = decision]
             corrected == [status |-> "clean", text |-> "corrected", verified |-> TRUE]
             entry == CASE decision = "approved" -> topic[l][p]
                      [] decision = "blocked" -> [topic[l][p] EXCEPT !.status = "needs_attention"]
                      [] decision = "corrected" -> corrected
             rows == [topic[l] EXCEPT ![p] = entry]
  <1>3. audits \in [Concepts -> Verdict] /\ audit' = [audit EXCEPT ![l] = audits]
    BY <1>1, RowsAre DEF Verdict
  <1>4. entry \in TopicRows /\ (entry.status \in {"clean", "confirmed"} => entry.verified)
    <2>1. topic[l][p] \in TopicRows /\ (topic[l][p].status \in {"clean", "confirmed"} => topic[l][p].verified)
      BY RowsAre
    <2>2. CASE decision = "approved"
      BY <2>1, <2>2
    <2>3. CASE decision = "blocked"
      BY <2>1, <2>3 DEF TopicRows
    <2>4. CASE decision = "corrected"
      BY <2>4 DEF TopicRows
    <2> QED
      BY <2>2, <2>3, <2>4
  <1>5. topic' = [topic EXCEPT ![l] = rows]
    <2>1. topic[l] \in [Concepts -> TopicRows] /\ topic \in [Lessons -> [Concepts -> TopicRows]]
      BY RowsAre
    <2>2. CASE decision = "approved"
      BY <2>1, <2>2 DEF ReviewProposal
    <2>3. CASE decision = "blocked"
      BY <2>1, <2>3 DEF ReviewProposal
    <2>4. CASE decision = "corrected"
      BY <2>1, <2>4 DEF ReviewProposal
    <2> QED
      BY <2>2, <2>3, <2>4
  <1> HIDE DEF entry, audits
  <1>6. rows \in [Concepts -> TopicRows]
        /\ \A q \in Concepts : rows[q] = IF q = p THEN entry ELSE topic[l][q]
    BY <1>4, RowsAre
  <1> HIDE DEF rows
  <1>7. LessonWritten(l) /\ topic'[l] = rows
    BY <1>1, <1>3, <1>5, <1>6, TopicsAreWritten, RowsAre DEF TopicsWritten
  <1>8. \A q \in Concepts : topic'[l][q].status \in {"clean", "confirmed"} => topic'[l][q].verified
    BY <1>4, <1>6, <1>7, RowsAre
  <1>9. manifest'[l] = Unassigned \/ manifest'[l].sequence # 0
    BY <1>1, RowsAre
  <1> QED
    BY <1>1, <1>2, <1>7, <1>8, <1>9, OneLessonKeeps

\* A binding takes the reviewed target and excludes the rest.
LEMMA BindKeeps ==
  ASSUME ProtocolInv, NEW l \in Lessons, BindAssignment(l)
  PROVE  ProtocolInv'
  <1> DEFINE p == manifest[l].intended
             entry == [manifest[l] EXCEPT !.target = p]
             rows == [q \in Concepts |-> IF q = p THEN topic[l][q]
                                         ELSE [topic[l][q] EXCEPT !.status = "excluded"]]
  <1>1. /\ manifest[l].kept /\ lesson[l] \in LessonReviewable /\ Decided(l) /\ p \in Concepts
        /\ audit[l][p] \in {"approved", "corrected"} /\ UNCHANGED <<enrollment, lesson, audit>>
    BY DEF BindAssignment
  <1>2. manifest[l].sequence # 0
    BY <1>1, RowsAre DEF Unassigned
  <1>3. /\ entry \in AssignmentRows /\ entry.target = p /\ entry.sequence = manifest[l].sequence
        /\ entry.condition = manifest[l].condition
    <2>1. manifest[l] \in AssignmentRows
      BY RowsAre
    <2> QED
      BY <1>1, <2>1 DEF AssignmentRows
  <1>4. ASSUME NEW q \in Concepts
        PROVE  /\ rows[q] \in TopicRows
               /\ q = p => rows[q] = topic[l][q]
               /\ q # p => rows[q].status = "excluded"
    <2>1. topic[l][q] \in TopicRows
      BY RowsAre
    <2> QED
      BY <2>1 DEF TopicRows
  <1>5. topic' = [topic EXCEPT ![l] = rows] /\ manifest' = [manifest EXCEPT ![l] = entry]
    <2>1. topic \in [Lessons -> [Concepts -> TopicRows]] /\ manifest \in [Lessons -> AssignmentRows]
      BY RowsAre
    <2>2. manifest' = [manifest EXCEPT ![l] = entry]
      BY <2>1 DEF BindAssignment
    <2>3. topic' = [topic EXCEPT ![l] = rows]
      BY <2>1 DEF BindAssignment
    <2> QED
      BY <2>2, <2>3
  <1>6. rows \in [Concepts -> TopicRows]
    BY <1>4
  <1> HIDE DEF entry, rows
  <1>7. /\ manifest' \in [Lessons -> AssignmentRows] /\ manifest'[l] = entry
        /\ \A k \in Lessons \ {l} : manifest'[k] = manifest[k]
    <2>1. manifest \in [Lessons -> AssignmentRows]
      BY RowsAre
    <2> QED
      BY <1>3, <1>5, <2>1
  <1>8. LessonWritten(l) /\ topic'[l] = rows
    <2>1. audit' = [audit EXCEPT ![l] = audit[l]] /\ audit[l] \in [Concepts -> Verdict]
      BY <1>1, RowsAre
    <2> QED
      BY <1>1, <1>5, <1>6, <1>7, <2>1, TopicsAreWritten, RowsAre DEF TopicsWritten
  <1>9. \A q \in Concepts : topic'[l][q].status \in {"clean", "confirmed"} => topic'[l][q].verified
    BY <1>4, <1>8, RowsAre
  <1>10. /\ Decided(l)' /\ audit'[l][manifest'[l].target] # "blocked"
         /\ \A q \in Concepts \ {manifest'[l].target} : topic'[l][q].status \notin {"clean", "confirmed"}
    BY <1>1, <1>3, <1>4, <1>7, <1>8 DEF Decided
  <1> QED
    BY <1>1, <1>2, <1>3, <1>7, <1>8, <1>9, <1>10, OneLessonKeeps

\* A withdrawal keeps the seed.
LEMMA WithdrawKeeps ==
  ASSUME ProtocolInv, Withdraw
  PROVE  ProtocolInv'
  <1>1. /\ enrollment' = [status |-> "withdrawn", seed |-> enrollment.seed] /\ enrollment.status = "active"
        /\ UNCHANGED <<manifest, lesson, topic, audit>>
    BY DEF Withdraw, Enrolled, ProtocolInv, ProtocolTypes
  <1>2. enrollment'.status # "none" /\ enrollment'.seed = enrollment.seed
        /\ enrollment' = [status |-> enrollment'.status, seed |-> enrollment'.seed]
    BY <1>1
  <1>3. ProtocolTypes' /\ AssignedWhole'
    BY <1>1, <1>2 DEF ProtocolInv, ProtocolTypes, AssignedWhole
  <1>4. AssignmentsFollowSeed'
    BY <1>1, <1>2 DEF ProtocolInv, AssignmentsFollowSeed
  <1>5. BoundIsReviewable' /\ TargetWasReviewed' /\ CleanIsVerified'
    BY <1>1 DEF ProtocolInv, BoundIsReviewable, TargetWasReviewed, CleanIsVerified, Decided
  <1> QED
    BY <1>3, <1>4, <1>5 DEF ProtocolInv

\* An edited topic is clean no more.
LEMMA EditKeeps ==
  ASSUME ProtocolInv, NEW l \in Lessons, NEW p \in Concepts, NEW change \in {"exclude", "rewrite"},
         EditLessonTopic(l, p, change)
  PROVE  ProtocolInv'
  <1> DEFINE edited == [status |-> "needs_attention", text |-> "edited", verified |-> FALSE]
             entry == IF change = "exclude" THEN [topic[l][p] EXCEPT !.status = "excluded"] ELSE edited
             rows == [topic[l] EXCEPT ![p] = entry]
  <1>1. UNCHANGED <<enrollment, manifest, lesson, audit>>
    BY DEF EditLessonTopic
  <1>2. /\ topic \in [Lessons -> [Concepts -> TopicRows]] /\ topic[l] \in [Concepts -> TopicRows]
        /\ topic[l][p] \in TopicRows
    BY RowsAre
  <1>3. entry \in TopicRows /\ entry.status \in {"excluded", "needs_attention"}
    BY <1>2 DEF TopicRows
  <1>4. topic' = [topic EXCEPT ![l] = rows]
    BY <1>2 DEF EditLessonTopic
  <1> HIDE DEF entry
  <1>5. rows \in [Concepts -> TopicRows]
        /\ \A q \in Concepts : rows[q] = IF q = p THEN entry ELSE topic[l][q]
    BY <1>2, <1>3
  <1> HIDE DEF rows
  <1>6. LessonWritten(l) /\ topic'[l] = rows
    <2>1. audit' = [audit EXCEPT ![l] = audit[l]] /\ audit[l] \in [Concepts -> Verdict]
      BY <1>1, RowsAre
    <2> QED
      BY <1>1, <1>4, <1>5, <2>1, TopicsAreWritten, RowsAre DEF TopicsWritten
  <1>7. \A q \in Concepts : topic'[l][q].status \in {"clean", "confirmed"} =>
            topic[l][q].status \in {"clean", "confirmed"} /\ topic'[l][q] = topic[l][q]
    BY <1>3, <1>5, <1>6
  <1>8. manifest'[l] = Unassigned \/ manifest'[l].sequence # 0
    BY <1>1, RowsAre
  <1>9. \A q \in Concepts : topic'[l][q].status \in {"clean", "confirmed"} => topic'[l][q].verified
    BY <1>7, RowsAre
  <1>10. manifest'[l].target # 0 =>
           /\ lesson'[l] \in LessonReviewable \cup {"confirmed"}
           /\ Decided(l)' /\ audit'[l][manifest'[l].target] # "blocked"
           /\ \A q \in Concepts \ {manifest'[l].target} : topic'[l][q].status \notin {"clean", "confirmed"}
    BY <1>1, <1>7, RowsAre DEF Decided
  <1> QED
    BY <1>1, <1>6, <1>8, <1>9, <1>10, OneLessonKeeps

\* The part of a confirmation that is the operators'.
ConfirmsTarget(keep) ==
  /\ manifest[Studied].target # 0 /\ lesson[Studied] \in LessonReviewable
  /\ keep => Target.status = "clean"
  /\ lesson' = [lesson EXCEPT ![Studied] = "confirmed"]
  /\ topic' = [topic EXCEPT ![Studied][manifest[Studied].target].status =
                 IF keep THEN "confirmed" ELSE "excluded"]
  /\ UNCHANGED <<enrollment, manifest, audit>>

\* A confirmation keeps the target, which is verified, or excludes it.
LEMMA ConfirmKeeps ==
  ASSUME ProtocolInv, NEW keep \in BOOLEAN, ConfirmsTarget(keep)
  PROVE  ProtocolInv'
  <1> DEFINE l == Studied
             p == manifest[l].target
             status == IF keep THEN "confirmed" ELSE "excluded"
             entry == [topic[l][p] EXCEPT !.status = status]
             rows == [topic[l] EXCEPT ![p] = entry]
  <1>1. UNCHANGED <<enrollment, manifest, audit>> /\ l \in Lessons /\ p # 0 /\ lesson[l] \in LessonReviewable
    BY StudiedAssumption DEF ConfirmsTarget
  <1>2. /\ topic \in [Lessons -> [Concepts -> TopicRows]] /\ topic[l] \in [Concepts -> TopicRows]
        /\ p \in Concepts /\ topic[l][p] \in TopicRows
    BY <1>1, RowsAre DEF AssignmentRows
  <1>3. keep => topic[l][p].verified
    BY <1>1, <1>2, RowsAre DEF ConfirmsTarget, Target
  <1>4. entry \in TopicRows /\ entry.status = status /\ entry.verified = topic[l][p].verified
    BY <1>2 DEF TopicRows
  <1>5. topic' = [topic EXCEPT ![l] = rows]
    BY <1>1, <1>2 DEF ConfirmsTarget
  <1> HIDE DEF entry
  <1>6. rows \in [Concepts -> TopicRows]
        /\ \A q \in Concepts : rows[q] = IF q = p THEN entry ELSE topic[l][q]
    BY <1>2, <1>4
  <1> HIDE DEF rows
  <1>7. lesson' \in [Lessons -> LessonStatuses] /\ lesson'[l] = "confirmed"
        /\ \A k \in Lessons \ {l} : lesson'[k] = lesson[k]
    BY <1>1, RowsAre DEF ConfirmsTarget, LessonStatuses
  <1>8. LessonWritten(l) /\ topic'[l] = rows
    <2>1. audit' = [audit EXCEPT ![l] = audit[l]] /\ audit[l] \in [Concepts -> Verdict]
      BY <1>1, RowsAre
    <2>2. manifest' \in [Lessons -> AssignmentRows] /\ \A k \in Lessons : manifest'[k] = manifest[k]
      BY <1>1, RowsAre
    <2> HIDE DEF l
    <2>3. TopicsWritten(l, rows, audit[l])
      BY <1>5, <1>6, <2>1 DEF TopicsWritten
    <2> QED
      BY <1>1, <1>7, <2>2, <2>3, TopicsAreWritten
  <1>9. \A q \in Concepts : topic'[l][q].status \in {"clean", "confirmed"} => topic'[l][q].verified
    BY <1>1, <1>2, <1>3, <1>4, <1>6, <1>8, RowsAre
  <1>10. /\ Decided(l)' /\ audit'[l][manifest'[l].target] # "blocked"
         /\ \A q \in Concepts \ {manifest'[l].target} : topic'[l][q].status \notin {"clean", "confirmed"}
    <2>1. /\ Decided(l) /\ audit[l][p] # "blocked"
          /\ \A q \in Concepts \ {p} : topic[l][q].status \notin {"clean", "confirmed"}
      BY <1>1, RowsAre
    <2> QED
      BY <1>1, <1>6, <1>8, <2>1 DEF Decided
  <1>11. manifest'[l].sequence # 0 \/ manifest'[l] = Unassigned
    BY <1>1, RowsAre
  <1>12. lesson[l] # "draft" /\ lesson[l] # "deleted"
    BY <1>1 DEF LessonReviewable
  <1> HIDE DEF l
  <1> QED
    BY <1>1, <1>7, <1>8, <1>9, <1>10, <1>11, <1>12, OneLessonKeeps

\* What a step leaves of the studied lesson: a confirmed or deleted one stays so,
\* nothing but its owner deletes it, and its assignment stands.
LessonStands ==
  /\ lesson[Studied] \in {"confirmed", "deleted"} => lesson'[Studied] = lesson[Studied]
  /\ lesson'[Studied] = "deleted" => lesson[Studied] = "deleted"
  /\ manifest[Studied].sequence # 0 =>
       manifest'[Studied].sequence # 0 /\ manifest'[Studied].condition = manifest[Studied].condition

\* The operators' commands, imports, edits and other deletions.
LEMMA OperatorStep ==
  ASSUME ProtocolInv, OperatorNext
  PROVE  ProtocolInv' /\ LessonStands
  <1>1. Studied \in Lessons /\ lesson \in [Lessons -> LessonStatuses]
        /\ (manifest[Studied].sequence # 0 => manifest[Studied] # Unassigned)
    BY StudiedAssumption, RowsAre DEF Unassigned
  <1>2. ASSUME NEW seed \in Seeds, Enroll(seed) PROVE ProtocolInv' /\ LessonStands
    BY <1>2, EnrollKeeps DEF Enroll, LessonStands
  <1>3. ASSUME NEW intended \in [Lessons -> Concepts], Provision(intended)
        PROVE  ProtocolInv' /\ LessonStands
    <2>1. lesson[Studied] = "none" /\ lesson'[Studied] = "draft" /\ manifest[Studied] = Unassigned
      BY <1>1, <1>3 DEF Provision
    <2> QED
      BY <1>1, <1>3, <2>1, ProvisionKeeps DEF LessonStands
  <1>4. ASSUME NEW intended \in [Lessons -> Concepts], NEW plan \in AssignmentPlans,
               AssignManifest(plan, intended)
        PROVE  ProtocolInv' /\ LessonStands
    <2>1. UNCHANGED lesson /\ manifest[Studied] = Unassigned
      BY <1>1, <1>4 DEF AssignManifest
    <2> QED
      BY <1>1, <1>4, <2>1, AssignManifestKeeps DEF LessonStands
  <1>5. CASE StartProcessing
    <2>1. lesson[Studied] = "draft" /\ lesson'[Studied] = "pending" /\ UNCHANGED manifest
      BY <1>1, <1>5 DEF StartProcessing
    <2> QED
      BY <1>5, <2>1, StartProcessingKeeps DEF LessonStands
  <1>6. CASE Withdraw
    BY <1>6, WithdrawKeeps DEF Withdraw, LessonStands
  <1>7. ASSUME NEW l \in Lessons, UploadLesson(l) PROVE ProtocolInv' /\ LessonStands
    BY <1>1, <1>7, UploadKeeps DEF UploadLesson, LessonStands
  <1>8. ASSUME NEW l \in Lessons, ClaimLesson(l) PROVE ProtocolInv' /\ LessonStands
    BY <1>1, <1>8, ClaimKeeps DEF ClaimLesson, LessonStands
  <1>9. ASSUME NEW l \in Lessons, ExtractLesson(l) PROVE ProtocolInv' /\ LessonStands
    <2>1. /\ lesson[l] = "processing" /\ UNCHANGED manifest
          /\ \E status \in {"ready", "needs_attention", "failed"} : lesson' = [lesson EXCEPT ![l] = status]
      BY <1>9 DEF ExtractLesson
    <2> QED
      BY <1>1, <1>9, <2>1, ExtractKeeps DEF LessonStands
  <1>10. ASSUME NEW l \in Lessons, RetryLesson(l) PROVE ProtocolInv' /\ LessonStands
    BY <1>1, <1>10, RetryKeeps DEF RetryLesson, LessonStands
  <1>11. ASSUME NEW l \in Lessons, BindAssignment(l) PROVE ProtocolInv' /\ LessonStands
    <2>1. manifest \in [Lessons -> AssignmentRows] /\ manifest[Studied] \in AssignmentRows
      BY <1>1, RowsAre
    <2>2. UNCHANGED lesson /\ manifest' = [manifest EXCEPT ![l].target = manifest[l].intended]
      BY <1>11 DEF BindAssignment
    <2>3. /\ manifest'[Studied].sequence = manifest[Studied].sequence
          /\ manifest'[Studied].condition = manifest[Studied].condition
      BY <1>1, <2>1, <2>2 DEF AssignmentRows
    <2> QED
      BY <1>11, <2>2, <2>3, BindKeeps DEF LessonStands
  <1>12. ASSUME NEW l \in Lessons, NEW p \in Concepts,
                NEW decision \in {"approved", "corrected", "blocked"}, ReviewProposal(l, p, decision)
         PROVE  ProtocolInv' /\ LessonStands
    BY <1>12, ReviewKeeps DEF ReviewProposal, LessonStands
  <1>13. ASSUME NEW l \in Lessons, NEW p \in Concepts, NEW change \in {"exclude", "rewrite"},
                EditLessonTopic(l, p, change)
         PROVE  ProtocolInv' /\ LessonStands
    BY <1>13, EditKeeps DEF EditLessonTopic, LessonStands
  <1>14. ASSUME NEW l \in Lessons, l # Studied, DeleteLesson(l) PROVE ProtocolInv' /\ LessonStands
    <2>1. lesson'[Studied] = lesson[Studied]
      BY <1>1, <1>14 DEF DeleteLesson
    <2>2. manifest'[Studied] = manifest[Studied]
      BY <1>1, <1>14, AssignmentEnds DEF DeleteLesson
    <2> QED
      BY <1>14, <2>1, <2>2, DeleteKeeps DEF LessonStands
  <1> QED
    BY <1>2, <1>3, <1>4, <1>5, <1>6, <1>7, <1>8, <1>9, <1>10, <1>11, <1>12, <1>13, <1>14
    DEF OperatorNext, ProtocolNext

-----------------------------------------------------------------------------
(***************************************************************************)
(* The learner's side (LessonPilot)                                        *)
(***************************************************************************)

MaybeAnswer == Answers \cup {NoAnswer}
GateRows == [exposed : Nat, gate : Nat]
KeptRows == [made : BOOLEAN, exposed : Nat, gate : Nat, session : Nat, recalled : Nat]
CheckRows == [status : {"none", "open", "exposed"}, draft : MaybeAnswer, answer : MaybeAnswer,
           exposed : Nat]
TransferRows == [status : {"none", "open", "submitted", "exposed"}, draft : MaybeAnswer,
              answer : MaybeAnswer, available : Nat, opened : BOOLEAN, debriefed : Nat,
              boundary : Nat, qualified : Nat]
EvaluationRows == [calls : Nat, outcome : {"none", "pending", "failed", "committed"}]
SubmitRows == [stage : {"idle", "authorize", "evaluate", "result", "error", "commit"},
                process : Processes \cup {NoProcess}, answer : MaybeAnswer, operation : Nat]

PilotTypes ==
  /\ clock \in Nat \ {0} /\ hold \in Holds /\ hold \in zones /\ IsFiniteSet(zones)
  /\ gates \in GateRows /\ kept \in KeptRows /\ formation \in CheckRows /\ transfer \in TransferRows
  /\ ledger \in Seq(EvaluationRows) /\ submit \in [Submits -> SubmitRows] /\ disclosed \in Nat

\* An evaluation that may have been paid for and has not failed on record.
Paid(i) == ledger[i].calls > 0 /\ ledger[i].outcome # "failed"
PaidOnce == \A i, j \in DOMAIN ledger : Paid(i) /\ Paid(j) => i = j

\* A submission has an operation of its own, which ends as the submission does.
SubmissionsSound ==
  /\ \A r \in Submits : submit[r].stage # "idle" =>
       /\ submit[r].answer \in Answers /\ submit[r].operation \in DOMAIN ledger
       /\ ledger[submit[r].operation].outcome =
            IF submit[r].stage = "commit" THEN "pending" ELSE "none"
       /\ submit[r].stage # "authorize" => ledger[submit[r].operation].calls > 0
  /\ \A r, q \in Submits : /\ submit[r].stage # "idle" /\ submit[q].stage # "idle"
                           /\ submit[r].operation = submit[q].operation
                           => r = q

Deleted == lesson[Studied] = "deleted"
Revealed == formation.status = "exposed" \/ Deleted
Committed == \E i \in DOMAIN ledger : ledger[i].outcome = "committed"

\* The check is of an assigned lesson; what was evaluated, shown or kept was revealed.
CheckSound ==
  /\ formation.status # "none" => ~Deleted /\ manifest[Studied].sequence # 0
  /\ ledger # << >> => manifest[Studied].sequence # 0 /\ Condition = "attempt_first"
  /\ formation.status = "exposed" /\ Condition = "attempt_first" =>
       formation.answer # NoAnswer /\ Committed
  /\ Committed \/ disclosed # 0 \/ kept.made => Revealed
  /\ kept.made => lesson[Studied] \in {"confirmed", "deleted"}
  /\ ~kept.made => kept = NotKept

\* What was shown is behind a hold: the proposal's, and then the card's.
HoldsSound ==
  /\ disclosed # 0 /\ kept.made =>
       kept.gate > disclosed /\ (kept.session # 0 => kept.session > disclosed)
  /\ disclosed # 0 /\ ~kept.made /\ ~Deleted => gates.gate > disclosed
  /\ zones = {hold} => kept.gate <= clock + hold /\ gates.gate <= clock + hold

TransferSound ==
  /\ transfer.status \in {"none", "open"} => transfer.answer = NoAnswer
  /\ transfer.status # "exposed" => transfer.qualified = 0

PilotInv ==
  /\ ProtocolInv /\ PilotTypes /\ PaidOnce /\ SubmissionsSound
  /\ CheckSound /\ HoldsSound /\ TransferSound

\* Before the study nothing is shown, kept or evaluated.
LEMMA PilotBegins ==
  ASSUME StudyInit
  PROVE  PilotInv
  <1> USE DEF StudyInit, PilotInit, NotKept, NoCheck, NoTransfer, NotSubmitting
  <1>1. ProtocolInv
    BY ProtocolBegins
  <1>2. PilotTypes
    <2>1. IsFiniteSet(zones) /\ hold \in zones
      BY FS_Singleton
    <2>2. ledger \in Seq(EvaluationRows)
      OBVIOUS
    <2>3. submit \in [Submits -> SubmitRows]
      BY DEF SubmitRows, MaybeAnswer
    <2>4. gates \in GateRows /\ kept \in KeptRows /\ formation \in CheckRows /\ transfer \in TransferRows
      BY DEF GateRows, KeptRows, CheckRows, TransferRows, MaybeAnswer
    <2> QED
      BY <2>1, <2>2, <2>3, <2>4 DEF PilotTypes
  <1>3. PaidOnce /\ SubmissionsSound /\ ~Committed
    BY DEF PaidOnce, SubmissionsSound, Committed
  <1>4. CheckSound
    BY <1>3 DEF CheckSound
  <1>5. HoldsSound /\ TransferSound
    BY TimesAssumption DEF HoldsSound, TransferSound
  <1> QED
    BY <1>1, <1>2, <1>3, <1>4, <1>5 DEF PilotInv

\* The parts of the rows.
LEMMA PartsAre ==
  ASSUME PilotTypes
  PROVE  /\ clock \in Nat /\ clock # 0 /\ hold \in Nat /\ hold # 0 /\ disclosed \in Nat
         /\ gates.exposed \in Nat /\ gates.gate \in Nat
         /\ kept.made \in BOOLEAN /\ kept.exposed \in Nat /\ kept.gate \in Nat /\ kept.session \in Nat
         /\ kept.recalled \in Nat
         /\ formation.exposed \in Nat /\ formation.status \in {"none", "open", "exposed"}
         /\ formation.answer \in MaybeAnswer
         /\ transfer.qualified \in Nat /\ transfer.answer \in MaybeAnswer
         /\ transfer.status \in {"none", "open", "submitted", "exposed"}
         /\ DOMAIN ledger = 1 .. Len(ledger) /\ Len(ledger) \in Nat
         /\ \A i \in DOMAIN ledger :
              /\ ledger[i] \in EvaluationRows /\ ledger[i].calls \in Nat
              /\ ledger[i].outcome \in {"none", "pending", "failed", "committed"}
  <1>1. /\ clock \in Nat /\ clock # 0 /\ hold \in Nat /\ hold # 0 /\ disclosed \in Nat
    BY TimesAssumption DEF PilotTypes
  <1>2. gates.exposed \in Nat /\ gates.gate \in Nat
    BY DEF PilotTypes, GateRows
  <1>3. /\ kept.made \in BOOLEAN /\ kept.exposed \in Nat /\ kept.gate \in Nat /\ kept.session \in Nat
        /\ kept.recalled \in Nat
    BY DEF PilotTypes, KeptRows
  <1>4. /\ formation.exposed \in Nat /\ formation.status \in {"none", "open", "exposed"}
        /\ formation.answer \in MaybeAnswer
    BY DEF PilotTypes, CheckRows
  <1>5. /\ transfer.qualified \in Nat /\ transfer.answer \in MaybeAnswer
        /\ transfer.status \in {"none", "open", "submitted", "exposed"}
    BY DEF PilotTypes, TransferRows
  <1>6. ledger \in Seq(EvaluationRows)
    BY DEF PilotTypes
  <1>7. /\ DOMAIN ledger = 1 .. Len(ledger) /\ Len(ledger) \in Nat
        /\ \A i \in DOMAIN ledger : ledger[i] \in EvaluationRows
    BY <1>6
  <1>8. \A entry \in EvaluationRows :
          entry.calls \in Nat /\ entry.outcome \in {"none", "pending", "failed", "committed"}
    BY DEF EvaluationRows
  <1> QED
    BY <1>1, <1>2, <1>3, <1>4, <1>5, <1>7, <1>8

\* A disclosure puts the proposal behind a new hold, and its card with it.
LEMMA Discloses ==
  ASSUME PilotInv, AdvanceExposure, Disclose, UNCHANGED <<clock, hold, zones, lesson>>
  PROVE  /\ HoldsSound' /\ gates' \in GateRows /\ kept' \in KeptRows /\ disclosed' = clock
         /\ kept'.made = kept.made /\ (~kept.made => kept' = kept)
         /\ gates'.gate >= gates.gate /\ (zones = {hold} => kept'.gate >= kept.gate)
  <1> DEFINE gate == Later(gates.gate, clock + hold)
  <1>1. PilotTypes /\ HoldsSound
    BY DEF PilotInv
  <1>2. /\ gate \in Nat /\ gate > clock /\ gate >= gates.gate
        /\ gates.gate <= clock + hold => gate = clock + hold
    <2>1. clock \in Nat /\ hold \in Nat /\ hold # 0 /\ gates.gate \in Nat
      BY <1>1, PartsAre
    <2> QED
      BY <2>1 DEF Later
  <1>3. /\ kept.session = 0 /\ gates' = [exposed |-> clock, gate |-> gate] /\ disclosed' = clock
        /\ kept' = IF kept.made THEN [kept EXCEPT !.exposed = clock, !.gate = gate] ELSE kept
    BY DEF AdvanceExposure, Advanced, Boundary, Disclose
  <1> HIDE DEF gate
  <1>4. gates' \in GateRows /\ gates'.gate = gate
    BY <1>1, <1>2, <1>3, PartsAre DEF GateRows
  <1>5. CASE kept.made
    <2>1. /\ kept' \in KeptRows /\ kept'.gate = gate /\ kept'.session = 0 /\ kept'.made = kept.made
      BY <1>1, <1>2, <1>3, <1>5, PartsAre DEF PilotTypes, KeptRows
    <2>2. zones = {hold} => kept.gate <= clock + hold /\ gate = clock + hold
      BY <1>1, <1>2 DEF HoldsSound
    <2>3. HoldsSound'
      BY <1>2, <1>3, <1>4, <1>5, <2>1, <2>2, PartsAre, <1>1 DEF HoldsSound
    <2> QED
      BY <1>1, <1>2, <1>3, <1>4, <1>5, <2>1, <2>2, <2>3, PartsAre
  <1>6. CASE ~kept.made
    <2>1. kept' = kept /\ kept \in KeptRows
      BY <1>1, <1>3, <1>6 DEF PilotTypes
    <2>2. zones = {hold} => kept.gate <= clock + hold /\ gate = clock + hold
      BY <1>1, <1>2 DEF HoldsSound
    <2>3. HoldsSound'
      BY <1>1, <1>2, <1>3, <1>4, <1>6, <2>1, <2>2, PartsAre DEF HoldsSound
    <2> QED
      BY <1>1, <1>2, <1>3, <1>4, <1>6, <2>1, <2>3, PartsAre
  <1> QED
    BY <1>5, <1>6, <1>1, PartsAre

\* The ledger rests.
LEMMA LedgerRests ==
  ASSUME PaidOnce, SubmissionsSound, UNCHANGED <<ledger, submit>>
  PROVE  PaidOnce' /\ SubmissionsSound' /\ (Committed' <=> Committed)
  BY DEF PaidOnce, Paid, SubmissionsSound, Committed

\* The target of an assigned lesson can be studied.
LEMMA ReadyIs ==
  ASSUME ProtocolInv, TargetReady
  PROVE  ~Deleted /\ manifest[Studied].sequence # 0
  <1>1. manifest[Studied].kept /\ lesson[Studied] \in LessonReviewable \cup {"confirmed"}
    BY DEF TargetReady
  <1>2. manifest[Studied].sequence # 0
    BY <1>1, StudiedAssumption, RowsAre DEF Unassigned
  <1> QED
    BY <1>1, <1>2 DEF Deleted, LessonReviewable

\* The invariant without the operators' side.
Learns == PilotTypes /\ PaidOnce /\ SubmissionsSound /\ CheckSound /\ HoldsSound /\ TransferSound

\* A disclosure is of a check that stands exposed, whatever its submissions do.
LEMMA Reveals ==
  ASSUME PilotInv, TargetReady, AdvanceExposure, Disclose,
         UNCHANGED <<clock, hold, zones>>, UNCHANGED protocolVars,
         formation' \in CheckRows, formation'.status = "exposed",
         Condition = "attempt_first" => formation'.answer # NoAnswer /\ Committed',
         transfer' \in TransferRows, TransferSound',
         ledger' \in Seq(EvaluationRows), submit' \in [Submits -> SubmitRows],
         PaidOnce', SubmissionsSound', ledger' # << >> => ledger # << >>
  PROVE  Learns'
  <1>1. UNCHANGED <<manifest, lesson>>
    BY DEF protocolVars
  <1>2. /\ HoldsSound' /\ gates' \in GateRows /\ kept' \in KeptRows /\ disclosed' = clock
        /\ kept'.made = kept.made /\ (~kept.made => kept' = kept)
    BY <1>1, Discloses
  <1>3. ~Deleted /\ manifest[Studied].sequence # 0
    BY ReadyIs DEF PilotInv
  <1>4. PilotTypes'
    BY <1>2, PartsAre DEF PilotInv, PilotTypes
  <1>5. CheckSound'
    BY <1>1, <1>2, <1>3 DEF PilotInv, CheckSound, Deleted, Revealed, Condition
  <1> QED
    BY <1>2, <1>4, <1>5 DEF Learns

\* What a disclosure leaves alone.
LEMMA RevealsOnly ==
  ASSUME PilotInv, TargetReady, AdvanceExposure, Disclose,
         UNCHANGED <<clock, hold, zones>>, UNCHANGED protocolVars,
         formation' \in CheckRows, formation'.status = "exposed",
         Condition = "attempt_first" => formation.status = "exposed" /\ UNCHANGED formation,
         UNCHANGED <<transfer, ledger, submit>>
  PROVE  Learns'
  <1>1. PaidOnce' /\ SubmissionsSound' /\ (Committed' <=> Committed)
    BY LedgerRests DEF PilotInv
  <1>2. Condition = "attempt_first" => formation'.answer # NoAnswer /\ Committed'
    BY <1>1 DEF PilotInv, CheckSound
  <1>3. TransferSound'
    BY DEF PilotInv, TransferSound
  <1>4. /\ transfer' \in TransferRows /\ ledger' \in Seq(EvaluationRows)
        /\ submit' \in [Submits -> SubmitRows]
    BY DEF PilotInv, PilotTypes
  <1> QED
    BY <1>1, <1>2, <1>3, <1>4, Reveals

\* A restudied check is exposed as it is shown.
LEMMA RestudyKeeps ==
  ASSUME PilotInv, Restudy, UNCHANGED protocolVars
  PROVE  Learns'
  <1>1. formation \in CheckRows /\ clock \in Nat
    BY PartsAre DEF PilotInv, PilotTypes
  <1>2. formation' \in CheckRows /\ formation'.status = "exposed"
    BY <1>1 DEF Restudy, CheckRows
  <1> QED
    BY <1>2, RevealsOnly DEF Restudy

\* What is shown again was exposed before.
LEMMA ReplayKeeps ==
  ASSUME PilotInv, ReplayAuthority, UNCHANGED protocolVars
  PROVE  Learns'
  <1>1. formation' \in CheckRows /\ formation'.status = "exposed"
    BY DEF PilotInv, PilotTypes, ReplayAuthority
  <1> QED
    BY <1>1, RevealsOnly DEF ReplayAuthority

\* Only the check changes.
LEMMA CheckChanges ==
  ASSUME PilotInv, formation' \in CheckRows,
         UNCHANGED <<clock, hold, opened, gates, kept, transfer, ledger, submit, deaths, disclosed, zones>>,
         UNCHANGED protocolVars, formation'.status = "open",
         formation.status # "exposed", ~Deleted, manifest[Studied].sequence # 0
  PROVE  Learns'
  <1>1. UNCHANGED <<manifest, lesson>>
    BY DEF protocolVars
  <1>2. PilotTypes'
    BY DEF PilotInv, PilotTypes
  <1>3. PaidOnce' /\ SubmissionsSound' /\ (Committed' <=> Committed)
    BY LedgerRests DEF PilotInv
  <1>4. CheckSound'
    BY <1>1, <1>3 DEF PilotInv, CheckSound, Deleted, Revealed, Condition
  <1>5. HoldsSound' /\ TransferSound'
    BY <1>1 DEF PilotInv, HoldsSound, TransferSound, Deleted
  <1> QED
    BY <1>2, <1>3, <1>4, <1>5 DEF Learns

\* The check of a lesson starts before it is exposed.
LEMMA StartFormationKeeps ==
  ASSUME PilotInv, StartFormation, UNCHANGED protocolVars
  PROVE  Learns'
  <1>1. formation' \in CheckRows /\ formation'.status = "open"
    BY DEF StartFormation, NoCheck, CheckRows, MaybeAnswer
  <1> QED
    BY <1>1, CheckChanges, ReadyIs DEF StartFormation, PilotInv

\* A draft is written while the check is open.
LEMMA SaveFormationKeeps ==
  ASSUME PilotInv, NEW text \in Answers, SaveFormationDraft(text), UNCHANGED protocolVars
  PROVE  Learns'
  <1>1. formation' \in CheckRows /\ formation'.status = "open" /\ formation.status = "open"
    BY DEF SaveFormationDraft, PilotInv, PilotTypes, CheckRows, MaybeAnswer
  <1> QED
    BY <1>1, CheckChanges DEF SaveFormationDraft, PilotInv, CheckSound

\* Only the evaluation of the check goes on.
LEMMA EvaluationGoesOn ==
  ASSUME PilotInv, UNCHANGED <<clock, hold, opened, gates, kept, transfer, disclosed, zones>>,
         UNCHANGED protocolVars, formation' \in CheckRows,
         formation'.status = formation.status, formation'.answer = formation.answer,
         ledger' \in Seq(EvaluationRows), submit' \in [Submits -> SubmitRows],
         PaidOnce', SubmissionsSound', Committed' <=> Committed,
         ledger' # << >> => manifest[Studied].sequence # 0 /\ Condition = "attempt_first"
  PROVE  Learns'
  <1>1. UNCHANGED <<manifest, lesson>>
    BY DEF protocolVars
  <1>2. PilotTypes'
    BY DEF PilotInv, PilotTypes
  <1>3. CheckSound'
    BY <1>1 DEF PilotInv, CheckSound, Deleted, Revealed, Condition
  <1>4. HoldsSound' /\ TransferSound'
    BY <1>1 DEF PilotInv, HoldsSound, TransferSound, Deleted
  <1> QED
    BY <1>2, <1>3, <1>4 DEF Learns

\* One operation of the ledger is written.
LEMMA LedgerWritten ==
  ASSUME PilotTypes, NEW i \in DOMAIN ledger, NEW entry \in EvaluationRows,
         ledger' = [ledger EXCEPT ![i] = entry]
  PROVE  /\ ledger' \in Seq(EvaluationRows) /\ DOMAIN ledger' = DOMAIN ledger
         /\ ledger' # << >> /\ ledger # << >>
         /\ \A j \in DOMAIN ledger : ledger'[j] = IF j = i THEN entry ELSE ledger[j]
  <1>1. ledger \in Seq(EvaluationRows)
    BY DEF PilotTypes
  <1> QED
    BY <1>1

\* One submission is written.
LEMMA SubmitWritten ==
  ASSUME PilotTypes, NEW r \in Submits, NEW entry \in SubmitRows, submit' = [submit EXCEPT ![r] = entry]
  PROVE  /\ submit' \in [Submits -> SubmitRows]
         /\ \A q \in Submits : submit'[q] = IF q = r THEN entry ELSE submit[q]
  BY DEF PilotTypes

\* The rows of a submission.
LEMMA IdleRow ==
  /\ NotSubmitting \in SubmitRows /\ NotSubmitting.stage = "idle"
  /\ \A entry \in SubmitRows, stage \in {"authorize", "evaluate", "result", "error", "commit"} :
       /\ [entry EXCEPT !.stage = stage] \in SubmitRows /\ [entry EXCEPT !.stage = stage].stage = stage
       /\ [entry EXCEPT !.stage = stage].answer = entry.answer
       /\ [entry EXCEPT !.stage = stage].operation = entry.operation
  BY DEF NotSubmitting, SubmitRows, MaybeAnswer

\* The steps of a submission: it ends, or goes to another stage.
GoesTo(r, stage) ==
  /\ submit' \in [Submits -> SubmitRows]
  /\ submit'[r].stage = stage
  /\ stage # "idle" => submit'[r].answer = submit[r].answer /\ submit'[r].operation = submit[r].operation
  /\ \A q \in Submits \ {r} : submit'[q] = submit[q]

\* The model's steps of a submission are such steps.
LEMMA StagesIs ==
  ASSUME PilotTypes, NEW r \in Submits
  PROVE  /\ End(r) => GoesTo(r, "idle")
         /\ \A stage \in {"authorize", "evaluate", "result", "error", "commit"} :
              Stage(r, stage) => GoesTo(r, stage)
  <1>1. submit \in [Submits -> SubmitRows] /\ submit[r] \in SubmitRows
    BY DEF PilotTypes
  <1>2. End(r) => GoesTo(r, "idle")
    <2> SUFFICES ASSUME End(r) PROVE GoesTo(r, "idle")
      OBVIOUS
    <2> DEFINE entry == NotSubmitting
    <2>1. submit' = [submit EXCEPT ![r] = entry] /\ entry \in SubmitRows /\ entry.stage = "idle"
      BY IdleRow DEF End
    <2> HIDE DEF entry
    <2> QED
      BY <2>1, SubmitWritten DEF GoesTo
  <1>3. ASSUME NEW stage \in {"authorize", "evaluate", "result", "error", "commit"}, Stage(r, stage)
        PROVE  GoesTo(r, stage)
    <2> DEFINE entry == [submit[r] EXCEPT !.stage = stage]
    <2>1. submit' = [submit EXCEPT ![r] = entry]
      BY <1>1, <1>3 DEF Stage
    <2>2. /\ entry \in SubmitRows /\ entry.stage = stage
          /\ entry.answer = submit[r].answer /\ entry.operation = submit[r].operation
      BY <1>1, IdleRow
    <2> HIDE DEF entry
    <2> QED
      BY <2>1, <2>2, SubmitWritten DEF GoesTo
  <1> QED
    BY <1>2, <1>3

\* A submission ends, or the ledger stays as it goes on.
LEMMA StagesKeep ==
  ASSUME PilotInv, NEW r \in Submits, NEW stage, GoesTo(r, stage), UNCHANGED ledger,
         stage # "idle" => submit[r].stage \notin {"idle", "commit"} /\ stage # "commit",
         stage \notin {"idle", "authorize"} => submit[r].stage # "authorize"
  PROVE  PaidOnce' /\ SubmissionsSound' /\ (Committed' <=> Committed)
  <1>1. PaidOnce' /\ (Committed' <=> Committed)
    BY DEF PilotInv, PaidOnce, Paid, Committed
  <1>2. SubmissionsSound
    BY DEF PilotInv
  <1>3. ASSUME NEW q \in Submits, submit'[q].stage # "idle"
        PROVE  /\ submit[q].stage # "idle"
               /\ submit'[q].answer = submit[q].answer /\ submit'[q].operation = submit[q].operation
               /\ submit'[q].stage = "commit" <=> submit[q].stage = "commit"
               /\ submit'[q].stage # "authorize" => submit[q].stage # "authorize"
    <2>1. CASE q = r
      BY <1>3, <2>1 DEF GoesTo
    <2>2. CASE q # r
      BY <1>3, <2>2 DEF GoesTo
    <2> QED
      BY <2>1, <2>2
  <1>4. ASSUME NEW q \in Submits, submit'[q].stage # "idle"
        PROVE  /\ submit'[q].answer \in Answers /\ submit'[q].operation \in DOMAIN ledger
               /\ ledger[submit'[q].operation].outcome =
                    IF submit'[q].stage = "commit" THEN "pending" ELSE "none"
               /\ submit'[q].stage # "authorize" => ledger[submit'[q].operation].calls > 0
    BY <1>2, <1>3, <1>4 DEF SubmissionsSound
  <1>5. SubmissionsSound'
    BY <1>2, <1>3, <1>4 DEF SubmissionsSound
  <1> QED
    BY <1>1, <1>5

\* Nothing of the check changes but its evaluations and their submissions.
LEMMA SubmissionGoesOn ==
  ASSUME PilotInv,
         UNCHANGED <<clock, hold, opened, gates, kept, formation, transfer, disclosed, zones>>,
         UNCHANGED protocolVars, ledger' \in Seq(EvaluationRows), submit' \in [Submits -> SubmitRows],
         PaidOnce', SubmissionsSound', Committed' <=> Committed,
         ledger' # << >> => ledger # << >>
  PROVE  Learns'
  <1>1. formation \in CheckRows
    BY DEF PilotInv, PilotTypes
  <1>2. ledger # << >> => manifest[Studied].sequence # 0 /\ Condition = "attempt_first"
    BY DEF PilotInv, CheckSound
  <1> QED
    BY <1>1, <1>2, EvaluationGoesOn

\* One operation of the ledger and its submission move on together.
LEMMA OperationMoves ==
  ASSUME PilotInv, NEW r \in Submits, submit[r].stage # "idle", NEW entry \in EvaluationRows, NEW stage,
         ledger' = [ledger EXCEPT ![submit[r].operation] = entry], GoesTo(r, stage),
         stage # "idle" =>
           /\ entry.outcome = IF stage = "commit" THEN "pending" ELSE "none"
           /\ stage # "authorize" => entry.calls > 0
         
  PROVE  /\ ledger' \in Seq(EvaluationRows) /\ ledger # << >> /\ SubmissionsSound'
         /\ DOMAIN ledger' = DOMAIN ledger /\ submit[r].operation \in DOMAIN ledger
         /\ \A j \in DOMAIN ledger : ledger'[j] = IF j = submit[r].operation THEN entry ELSE ledger[j]
  <1>1. PilotTypes /\ SubmissionsSound
    BY DEF PilotInv
  <1>2. submit[r].operation \in DOMAIN ledger
    BY <1>1 DEF SubmissionsSound
  <1>3. /\ ledger' \in Seq(EvaluationRows) /\ DOMAIN ledger' = DOMAIN ledger /\ ledger # << >>
        /\ \A j \in DOMAIN ledger : ledger'[j] = IF j = submit[r].operation THEN entry ELSE ledger[j]
    BY <1>1, <1>2, LedgerWritten
  <1>4. ASSUME NEW q \in Submits, submit'[q].stage # "idle"
        PROVE  /\ submit[q].stage # "idle" /\ submit'[q].operation = submit[q].operation
               /\ submit'[q].answer = submit[q].answer
    BY <1>4 DEF GoesTo
  <1>5. ASSUME NEW q \in Submits, submit'[q].stage # "idle"
        PROVE  /\ submit'[q].answer \in Answers /\ submit'[q].operation \in DOMAIN ledger'
               /\ ledger'[submit'[q].operation].outcome =
                    IF submit'[q].stage = "commit" THEN "pending" ELSE "none"
               /\ submit'[q].stage # "authorize" => ledger'[submit'[q].operation].calls > 0
    <2>1. submit[q].answer \in Answers /\ submit[q].operation \in DOMAIN ledger
      BY <1>1, <1>4, <1>5 DEF SubmissionsSound
    <2>2. CASE q = r
      BY <1>3, <1>4, <1>5, <2>1, <2>2 DEF GoesTo
    <2>3. CASE q # r
      <3>1. submit'[q] = submit[q] /\ submit[q].operation # submit[r].operation
        BY <1>1, <1>4, <1>5, <2>3 DEF SubmissionsSound, GoesTo
      <3> QED
        BY <1>1, <1>3, <1>5, <2>1, <3>1 DEF SubmissionsSound
    <2> QED
      BY <2>2, <2>3
  <1>6. SubmissionsSound'
    BY <1>1, <1>4, <1>5 DEF SubmissionsSound
  <1> QED
    BY <1>2, <1>3, <1>6

\* An answer of the provider changes only the stage.
LEMMA EvaluationReturnsKeeps ==
  ASSUME PilotInv, NEW r \in Submits, EvaluationReturns(r), UNCHANGED protocolVars
  PROVE  Learns'
  <1>1. /\ At(r, "evaluate") /\ UNCHANGED ledger
        /\ UNCHANGED <<clock, hold, opened, gates, kept, formation, transfer, disclosed, zones>>
    BY DEF EvaluationReturns
  <1>2. PICK stage \in {"result", "error", "authorize"} : Stage(r, stage)
    BY DEF EvaluationReturns
  <1>3. GoesTo(r, stage)
    BY <1>2, StagesIs DEF PilotInv
  <1>4. PaidOnce' /\ SubmissionsSound' /\ (Committed' <=> Committed)
    BY <1>1, <1>3, StagesKeep DEF At
  <1>5. ledger' \in Seq(EvaluationRows) /\ submit' \in [Submits -> SubmitRows]
    BY <1>1, <1>3 DEF PilotInv, PilotTypes, GoesTo
  <1> QED
    BY <1>1, <1>4, <1>5, SubmissionGoesOn

\* A call is authorized when no other operation is paid for and unsettled; none is
\* committed, since the check is open.
LEMMA AuthorizeKeeps ==
  ASSUME PilotInv, NEW r \in Submits, AuthorizeEvaluation(r), UNCHANGED protocolVars
  PROVE  Learns'
  <1>1. /\ At(r, "authorize") /\ PilotTypes /\ SubmissionsSound /\ CheckSound /\ PaidOnce
        /\ UNCHANGED <<clock, hold, opened, gates, kept, formation, transfer, disclosed, zones>>
    BY DEF AuthorizeEvaluation, PilotInv
  <1>2. CASE End(r) /\ UNCHANGED ledger
    <2>1. GoesTo(r, "idle")
      BY <1>1, <1>2, StagesIs
    <2>2. PaidOnce' /\ SubmissionsSound' /\ (Committed' <=> Committed)
      BY <1>2, <2>1, StagesKeep
    <2>3. ledger' \in Seq(EvaluationRows) /\ submit' \in [Submits -> SubmitRows]
      BY <1>1, <1>2, <2>1 DEF PilotTypes, GoesTo
    <2> QED
      BY <1>1, <1>2, <2>2, <2>3, SubmissionGoesOn
  <1>3. CASE ~(End(r) /\ UNCHANGED ledger)
    <2> DEFINE o == submit[r].operation
               entry == [ledger[o] EXCEPT !.calls = @ + 1]
    <2>1. /\ formation.status = "open" /\ lesson[Studied] \in LessonReviewable
          /\ \A i \in DOMAIN ledger : i # o => ~Unsettled(ledger[i])
          /\ ledger' = [ledger EXCEPT ![o].calls = @ + 1] /\ Stage(r, "evaluate")
      BY <1>3 DEF AuthorizeEvaluation
    <2>2. o \in DOMAIN ledger /\ ledger[o] \in EvaluationRows /\ ledger[o].outcome = "none"
      BY <1>1, PartsAre DEF SubmissionsSound, At
    <2>3. /\ entry \in EvaluationRows /\ entry.calls > 0 /\ entry.outcome = "none"
          /\ ledger' = [ledger EXCEPT ![o] = entry]
      <3>1. ledger' = [ledger EXCEPT ![o] = entry]
        BY <2>1, <2>2
      <3>2. entry = [calls |-> ledger[o].calls + 1, outcome |-> "none"] /\ ledger[o].calls \in Nat
        BY <2>2 DEF EvaluationRows
      <3> HIDE DEF entry
      <3> QED
        BY <3>1, <3>2 DEF EvaluationRows
    <2>4. GoesTo(r, "evaluate")
      BY <1>1, <2>1, StagesIs
    <2> HIDE DEF entry
    <2>5. /\ ledger' \in Seq(EvaluationRows) /\ ledger # << >> /\ SubmissionsSound'
          /\ DOMAIN ledger' = DOMAIN ledger
          /\ \A j \in DOMAIN ledger : ledger'[j] = IF j = o THEN entry ELSE ledger[j]
      <3>1. submit[r].stage # "idle"
        BY <1>1 DEF At
      <3> QED
        BY <2>3, <2>4, <3>1, OperationMoves
    <2>6. ~Committed
      BY <1>1, <2>1 DEF CheckSound, Revealed, Deleted, LessonReviewable
    <2>7. ASSUME NEW i \in DOMAIN ledger, i # o PROVE ~Paid(i)
      <3>1. ledger[i].outcome # "committed" /\ ledger[i].outcome \in {"none", "pending", "failed", "committed"}
        BY <1>1, <2>6, <2>7, PartsAre DEF Committed
      <3> QED
        BY <2>1, <2>7, <3>1 DEF Paid, Unsettled
    <2>8. PaidOnce'
      BY <2>5, <2>7 DEF PaidOnce, Paid
    <2>9. Committed' <=> Committed
      BY <2>2, <2>3, <2>5, <2>6 DEF Committed
    <2>10. submit' \in [Submits -> SubmitRows]
      BY <2>4 DEF GoesTo
    <2> QED
      BY <1>1, <2>5, <2>8, <2>9, <2>10, SubmissionGoesOn
  <1> QED
    BY <1>2, <1>3

\* The terminal rows settle what was paid for, or keep its result pending.
LEMMA RecordTerminalKeeps ==
  ASSUME PilotInv, NEW r \in Submits, RecordTerminal(r), UNCHANGED protocolVars
  PROVE  Learns'
  <1> DEFINE o == submit[r].operation
             outcome == IF At(r, "result") THEN "pending" ELSE "failed"
             stage == IF At(r, "result") THEN "commit" ELSE "idle"
             entry == [ledger[o] EXCEPT !.outcome = outcome]
  <1>1. /\ submit[r].stage \in {"result", "error"} /\ PilotTypes /\ SubmissionsSound /\ PaidOnce
        /\ UNCHANGED <<clock, hold, opened, gates, kept, formation, transfer, disclosed, zones>>
    BY DEF RecordTerminal, PilotInv, At
  <1>2. o \in DOMAIN ledger /\ ledger[o] \in EvaluationRows /\ ledger[o].outcome = "none" /\ ledger[o].calls > 0
    BY <1>1, PartsAre DEF SubmissionsSound
  <1>3. /\ entry \in EvaluationRows /\ entry.calls = ledger[o].calls /\ entry.outcome = outcome
        /\ ledger' = [ledger EXCEPT ![o] = entry]
    BY <1>2 DEF EvaluationRows, RecordTerminal
  <1>4. GoesTo(r, stage)
    BY <1>1, StagesIs DEF RecordTerminal
  <1>5. stage # "idle" => outcome = "pending" /\ stage = "commit"
    OBVIOUS
  <1>6. outcome \in {"pending", "failed"}
    OBVIOUS
  <1> HIDE DEF entry, outcome, stage
  <1>7. /\ ledger' \in Seq(EvaluationRows) /\ ledger # << >> /\ SubmissionsSound'
        /\ DOMAIN ledger' = DOMAIN ledger
        /\ \A j \in DOMAIN ledger : ledger'[j] = IF j = o THEN entry ELSE ledger[j]
    <2>1. submit[r].stage # "idle"
      BY <1>1
    <2>2. stage # "idle" => entry.outcome = (IF stage = "commit" THEN "pending" ELSE "none") /\ entry.calls > 0
      BY <1>2, <1>3, <1>5
    <2> QED
      BY <1>3, <1>4, <2>1, <2>2, OperationMoves
  <1>8. PaidOnce'
    BY <1>1, <1>2, <1>3, <1>7 DEF PaidOnce, Paid
  <1>9. Committed' <=> Committed
    BY <1>2, <1>3, <1>6, <1>7 DEF Committed
  <1>10. submit' \in [Submits -> SubmitRows]
    BY <1>4 DEF GoesTo
  <1> QED
    BY <1>1, <1>7, <1>8, <1>9, <1>10, SubmissionGoesOn

\* A submission opens an operation of its own, or shows the answer again.
LEMMA SubmitKeeps ==
  ASSUME PilotInv, NEW r \in Submits, NEW p \in Processes, NEW text \in Answers, Submit(r, p, text),
         UNCHANGED protocolVars
  PROVE  Learns'
  <1>1. /\ submit[r].stage = "idle" /\ TargetReady /\ Condition = "attempt_first"
        /\ UNCHANGED <<clock, hold, opened, transfer, zones>>
        /\ PilotTypes /\ SubmissionsSound /\ PaidOnce
    BY DEF Submit, Idle, NotSubmitting, PilotInv
  <1>2. CASE formation.status = "open"
    <2> DEFINE operation == [calls |-> 0, outcome |-> "none"]
               entry == [stage |-> "authorize", process |-> p, answer |-> text,
                       operation |-> Len(ledger) + 1]
    <2>1. /\ formation' = [formation EXCEPT !.draft = text] /\ ledger' = Append(ledger, operation)
          /\ submit' = [submit EXCEPT ![r] = entry] /\ UNCHANGED <<gates, kept, disclosed>>
      BY <1>2 DEF Submit
    <2>2. /\ operation \in EvaluationRows /\ ledger \in Seq(EvaluationRows) /\ Len(ledger) \in Nat
          /\ operation.calls = 0 /\ operation.outcome = "none"
      BY <1>1 DEF PilotTypes, EvaluationRows
    <2>3. /\ entry \in SubmitRows /\ entry.stage = "authorize" /\ entry.answer = text
          /\ entry.operation = Len(ledger) + 1
      BY <2>2 DEF SubmitRows, MaybeAnswer
    <2> HIDE DEF operation, entry
    <2>4. /\ ledger' \in Seq(EvaluationRows) /\ Len(ledger) + 1 \in DOMAIN ledger'
          /\ ledger'[Len(ledger) + 1] = operation /\ Len(ledger) + 1 \notin DOMAIN ledger
          /\ \A i \in DOMAIN ledger' : i \in DOMAIN ledger \/ i = Len(ledger) + 1
          /\ \A i \in DOMAIN ledger : i \in DOMAIN ledger' /\ ledger'[i] = ledger[i]
      BY <2>1, <2>2
    <2>5. /\ submit' \in [Submits -> SubmitRows]
          /\ \A q \in Submits : submit'[q] = IF q = r THEN entry ELSE submit[q]
      BY <1>1, <2>1, <2>3, SubmitWritten
    <2>6. PaidOnce'
      BY <1>1, <2>2, <2>4 DEF PaidOnce, Paid
    <2>7. Committed' <=> Committed
      BY <2>2, <2>4 DEF Committed
    <2>8. ASSUME NEW q \in Submits, submit'[q].stage # "idle"
          PROVE  /\ submit'[q].answer \in Answers /\ submit'[q].operation \in DOMAIN ledger'
                 /\ ledger'[submit'[q].operation].outcome =
                      IF submit'[q].stage = "commit" THEN "pending" ELSE "none"
                 /\ submit'[q].stage # "authorize" => ledger'[submit'[q].operation].calls > 0
                 /\ submit'[q].operation \notin DOMAIN ledger => q = r
                 /\ submit'[q].operation \in DOMAIN ledger => q # r
      <3>1. CASE q = r
        BY <2>2, <2>3, <2>4, <2>5, <3>1
      <3>2. CASE q # r
        BY <1>1, <2>4, <2>5, <2>8, <3>2 DEF SubmissionsSound
      <3> QED
        BY <3>1, <3>2
    <2>9. \A q, s \in Submits : /\ submit'[q].stage # "idle" /\ submit'[s].stage # "idle"
                                 /\ submit'[q].operation = submit'[s].operation
                                 => q = s
      BY <1>1, <2>5, <2>8 DEF SubmissionsSound
    <2>10. SubmissionsSound'
      BY <2>8, <2>9 DEF SubmissionsSound
    <2>11. /\ formation' \in CheckRows /\ formation'.status = formation.status
           /\ formation'.answer = formation.answer
      BY <1>1, <2>1 DEF PilotTypes, CheckRows, MaybeAnswer
    <2>12. manifest[Studied].sequence # 0
      BY <1>1, ReadyIs DEF PilotInv
    <2> QED
      BY <1>1, <2>1, <2>4, <2>5, <2>6, <2>7, <2>10, <2>11, <2>12, EvaluationGoesOn
  <1>3. CASE formation.status # "open"
    <2>1. /\ formation.status = "exposed" /\ AdvanceExposure /\ Disclose
          /\ UNCHANGED <<formation, ledger, submit>>
      BY <1>3 DEF Submit
    <2>2. formation' \in CheckRows
      BY <1>1, <2>1 DEF PilotTypes
    <2> QED
      BY <1>1, <2>1, <2>2, RevealsOnly
  <1> QED
    BY <1>2, <1>3

\* A result lands with its exposure, or not at all.
LEMMA CommitKeeps ==
  ASSUME PilotInv, NEW r \in Submits, CommitFormation(r), UNCHANGED protocolVars
  PROVE  Learns'
  <1>1. /\ submit[r].stage = "commit" /\ PilotTypes /\ SubmissionsSound /\ PaidOnce /\ End(r)
        /\ UNCHANGED <<clock, hold, opened, transfer, deaths, zones>>
    BY DEF CommitFormation, PilotInv, At
  <1>2. GoesTo(r, "idle")
    BY <1>1, StagesIs
  <1>3. submit' \in [Submits -> SubmitRows] /\ ledger \in Seq(EvaluationRows) /\ formation \in CheckRows
        /\ transfer' \in TransferRows
    BY <1>1, <1>2 DEF PilotTypes, GoesTo
  <1>4. TransferSound'
    BY <1>1 DEF PilotInv, TransferSound
  <1>5. CASE ~TargetReady
    <2>1. UNCHANGED <<gates, kept, formation, ledger, disclosed>>
      BY <1>5 DEF CommitFormation
    <2>2. PaidOnce' /\ SubmissionsSound' /\ (Committed' <=> Committed)
      BY <1>2, <2>1, StagesKeep
    <2> QED
      BY <1>1, <1>3, <2>1, <2>2, SubmissionGoesOn
  <1>6. CASE TargetReady /\ formation.status = "exposed"
    <2>1. AdvanceExposure /\ Disclose /\ UNCHANGED <<formation, ledger>>
      BY <1>6 DEF CommitFormation
    <2>2. PaidOnce' /\ SubmissionsSound' /\ (Committed' <=> Committed)
      BY <1>2, <2>1, StagesKeep
    <2>3. Condition = "attempt_first" => formation'.answer # NoAnswer /\ Committed'
      BY <1>6, <2>1, <2>2 DEF PilotInv, CheckSound
    <2> QED
      BY <1>1, <1>3, <1>4, <1>6, <2>1, <2>2, <2>3, Reveals
  <1>7. CASE TargetReady /\ formation.status # "exposed"
    <2> DEFINE o == submit[r].operation
               entry == [ledger[o] EXCEPT !.outcome = "committed"]
    <2>1. /\ AdvanceExposure /\ Disclose
          /\ formation' = [formation EXCEPT !.status = "exposed", !.exposed = clock,
                                            !.answer = submit[r].answer]
          /\ ledger' = [ledger EXCEPT ![o].outcome = "committed"]
      BY <1>7 DEF CommitFormation
    <2>2. /\ o \in DOMAIN ledger /\ ledger[o] \in EvaluationRows /\ ledger[o].outcome = "pending"
          /\ ledger[o].calls > 0 /\ submit[r].answer \in Answers
      BY <1>1, PartsAre DEF SubmissionsSound
    <2>3. /\ formation' \in CheckRows /\ formation'.status = "exposed" /\ formation'.answer # NoAnswer
      BY <1>1, <1>3, <2>1, <2>2, PartsAre, StudiedAssumption DEF CheckRows, MaybeAnswer
    <2>4. /\ entry \in EvaluationRows /\ entry.calls = ledger[o].calls /\ entry.outcome = "committed"
          /\ ledger' = [ledger EXCEPT ![o] = entry]
      BY <2>1, <2>2 DEF EvaluationRows
    <2> HIDE DEF entry
    <2>5. /\ ledger' \in Seq(EvaluationRows) /\ ledger # << >> /\ SubmissionsSound'
          /\ DOMAIN ledger' = DOMAIN ledger
          /\ \A j \in DOMAIN ledger : ledger'[j] = IF j = o THEN entry ELSE ledger[j]
      <3>1. submit[r].stage # "idle"
        BY <1>1
      <3> QED
        BY <1>2, <2>4, <3>1, OperationMoves
    <2>6. PaidOnce'
      BY <1>1, <2>2, <2>4, <2>5 DEF PaidOnce, Paid
    <2>7. Committed'
      BY <2>2, <2>4, <2>5 DEF Committed
    <2> QED
      BY <1>1, <1>3, <1>4, <1>7, <2>1, <2>3, <2>5, <2>6, <2>7, Reveals
  <1> QED
    BY <1>5, <1>6, <1>7

\* A death leaves the operations of its submissions as they are.
LEMMA ProcessDiesKeeps ==
  ASSUME PilotInv, NEW p \in Processes, ProcessDies(p), UNCHANGED protocolVars
  PROVE  Learns'
  <1>1. /\ UNCHANGED <<clock, hold, opened, gates, kept, formation, transfer, ledger, disclosed, zones>>
        /\ submit' = [r \in Submits |-> IF submit[r].process = p THEN NotSubmitting ELSE submit[r]]
        /\ PilotTypes /\ SubmissionsSound
    BY DEF ProcessDies, PilotInv
  <1>2. NotSubmitting \in SubmitRows /\ NotSubmitting.stage = "idle"
    BY IdleRow
  <1>3. /\ submit' \in [Submits -> SubmitRows] /\ ledger' \in Seq(EvaluationRows)
        /\ \A q \in Submits : submit'[q] = NotSubmitting \/ submit'[q] = submit[q]
    BY <1>1, <1>2 DEF PilotTypes
  <1>4. SubmissionsSound'
    BY <1>1, <1>2, <1>3 DEF SubmissionsSound
  <1>5. PaidOnce' /\ (Committed' <=> Committed)
    BY <1>1 DEF PilotInv, PaidOnce, Paid, Committed
  <1> QED
    BY <1>1, <1>3, <1>4, <1>5, SubmissionGoesOn

\* The check, its evaluations and what was shown of it rest.
LEMMA CheckRests ==
  ASSUME PilotInv, UNCHANGED <<formation, ledger, submit, disclosed, lesson, manifest>>,
         kept'.made = kept.made, ~kept.made => kept' = kept
  PROVE  PaidOnce' /\ SubmissionsSound' /\ CheckSound'
  <1>1. PaidOnce' /\ SubmissionsSound' /\ (Committed' <=> Committed)
    BY LedgerRests DEF PilotInv
  <1>2. CheckSound'
    BY <1>1 DEF PilotInv, CheckSound, Deleted, Revealed, Condition
  <1> QED
    BY <1>1, <1>2

\* A recall starts behind the hold.
LEMMA StartRecallKeeps ==
  ASSUME PilotInv, StartRecall, UNCHANGED protocolVars
  PROVE  Learns'
  <1>1. /\ UNCHANGED <<clock, hold, gates, formation, transfer, ledger, submit, disclosed, zones>>
        /\ UNCHANGED <<lesson, manifest>>
        /\ kept.made /\ kept.gate <= clock /\ kept' = [kept EXCEPT !.session = clock]
        /\ PilotTypes /\ HoldsSound
    BY DEF StartRecall, protocolVars, PilotInv
  <1>2. /\ kept' \in KeptRows /\ kept'.made = kept.made /\ kept'.gate = kept.gate /\ kept'.session = clock
    BY <1>1, PartsAre DEF PilotTypes, KeptRows
  <1>3. PilotTypes'
    BY <1>1, <1>2 DEF PilotTypes
  <1>4. HoldsSound'
    BY <1>1, <1>2, PartsAre DEF HoldsSound, Deleted
  <1>5. TransferSound'
    BY <1>1 DEF PilotInv, TransferSound
  <1> QED
    BY <1>1, <1>2, <1>3, <1>4, <1>5, CheckRests DEF Learns

\* A recall ends.
LEMMA EndRecallKeeps ==
  ASSUME PilotInv, NEW completed \in BOOLEAN, EndRecall(completed), UNCHANGED protocolVars
  PROVE  Learns'
  <1>1. /\ UNCHANGED <<clock, hold, gates, formation, transfer, ledger, submit, disclosed, zones>>
        /\ UNCHANGED <<lesson, manifest>>
        /\ kept.session # 0
        /\ kept' = [kept EXCEPT !.session = 0, !.recalled = IF completed THEN kept.session ELSE @]
        /\ PilotTypes /\ HoldsSound
    BY DEF EndRecall, protocolVars, PilotInv
  <1>2. /\ kept' \in KeptRows /\ kept'.made = kept.made /\ kept'.gate = kept.gate /\ kept'.session = 0
    BY <1>1, PartsAre DEF PilotTypes, KeptRows
  <1>3. PilotTypes'
    BY <1>1, <1>2 DEF PilotTypes
  <1>4. HoldsSound'
    BY <1>1, <1>2, PartsAre DEF HoldsSound, Deleted
  <1>5. TransferSound'
    BY <1>1 DEF PilotInv, TransferSound
  <1>6. kept.made
    BY <1>1 DEF PilotInv, CheckSound, NotKept
  <1> QED
    BY <1>1, <1>2, <1>3, <1>4, <1>5, <1>6, CheckRests DEF Learns

\* The card's authority is shown behind a new hold of the card.
LEMMA OpenLearnKeeps ==
  ASSUME PilotInv, OpenLearn, UNCHANGED protocolVars
  PROVE  Learns'
  <1> DEFINE gate == Later(kept.gate, clock + hold)
  <1>1. /\ UNCHANGED <<clock, hold, gates, formation, transfer, ledger, submit, zones>>
        /\ UNCHANGED <<lesson, manifest>> /\ disclosed' = clock
        /\ kept.made /\ kept.session = 0
        /\ kept' = [kept EXCEPT !.exposed = clock, !.gate = gate]
        /\ PilotTypes /\ HoldsSound
    BY DEF OpenLearn, Boundary, Disclose, protocolVars, PilotInv
  <1>2. /\ gate \in Nat /\ gate > clock /\ gate >= kept.gate
        /\ kept.gate <= clock + hold => gate <= clock + hold
    BY <1>1, PartsAre DEF Later
  <1> HIDE DEF gate
  <1>3. /\ kept' \in KeptRows /\ kept'.made = kept.made /\ kept'.gate = gate /\ kept'.session = 0
    BY <1>1, <1>2, PartsAre DEF PilotTypes, KeptRows
  <1>4. PilotTypes'
    BY <1>1, <1>3, PartsAre DEF PilotTypes
  <1>5. HoldsSound'
    BY <1>1, <1>2, <1>3, PartsAre DEF HoldsSound, Deleted
  <1>6. TransferSound' /\ PaidOnce' /\ SubmissionsSound' /\ (Committed' <=> Committed)
    BY <1>1, LedgerRests DEF PilotInv, TransferSound
  <1>7. CheckSound'
    BY <1>1, <1>3, <1>6 DEF PilotInv, CheckSound, Deleted, Revealed, Condition
  <1> QED
    BY <1>4, <1>5, <1>6, <1>7 DEF Learns

\* Only the transfer check changes.
LEMMA TransferChanges ==
  ASSUME PilotInv, UNCHANGED protocolVars,
         UNCHANGED <<clock, hold, opened, gates, kept, formation, ledger, submit, disclosed, zones>>,
         transfer' \in TransferRows, TransferSound'
  PROVE  Learns'
  <1>1. UNCHANGED <<lesson, manifest>>
    BY DEF protocolVars
  <1>2. PilotTypes'
    BY DEF PilotInv, PilotTypes
  <1>3. HoldsSound'
    BY <1>1 DEF PilotInv, HoldsSound, Deleted
  <1> QED
    BY <1>1, <1>2, <1>3, CheckRests DEF Learns

\* The steps of the transfer check that show nothing.
LEMMA TransferStepsKeep ==
  ASSUME PilotInv, UNCHANGED protocolVars
  PROVE  /\ ApproveTransfer \/ StartTransfer => Learns'
         /\ \A text \in Answers : SaveTransferDraft(text) \/ SubmitTransfer(text) => Learns'
  <1>1. PilotTypes /\ TransferSound /\ transfer \in TransferRows
    BY DEF PilotInv, PilotTypes
  <1>2. formation.exposed + TransferDelay \in Nat
    BY <1>1, PartsAre, TimesAssumption
  <1>3. ASSUME ApproveTransfer PROVE transfer' \in TransferRows /\ TransferSound'
    BY <1>2, <1>3 DEF ApproveTransfer, NoTransfer, TransferRows, MaybeAnswer, TransferSound
  <1>4. ASSUME StartTransfer PROVE transfer' \in TransferRows /\ TransferSound'
    BY <1>1, <1>2, <1>4 DEF StartTransfer, TransferRows, TransferSound
  <1>5. ASSUME NEW text \in Answers, SaveTransferDraft(text)
        PROVE  transfer' \in TransferRows /\ TransferSound'
    BY <1>1, <1>5 DEF SaveTransferDraft, TransferRows, MaybeAnswer, TransferSound
  <1>6. ASSUME NEW text \in Answers, SubmitTransfer(text)
        PROVE  transfer' \in TransferRows /\ TransferSound'
    BY <1>1, <1>6 DEF SubmitTransfer, TransferRows, MaybeAnswer, TransferSound
  <1> QED
    BY <1>3, <1>4, <1>5, <1>6, TransferChanges
    DEF ApproveTransfer, StartTransfer, SaveTransferDraft, SubmitTransfer

\* A debrief shows the authority.
LEMMA DebriefKeeps ==
  ASSUME PilotInv, TransferDebrief, UNCHANGED protocolVars
  PROVE  Learns'
  <1>1. /\ TargetReady /\ formation.status = "exposed" /\ AdvanceExposure /\ Disclose
        /\ UNCHANGED <<clock, hold, opened, formation, ledger, submit, zones>>
        /\ PilotTypes /\ CheckSound /\ HoldsSound
        /\ transfer' = [transfer EXCEPT !.status = "exposed", !.debriefed = gates'.exposed,
                        !.boundary = gates'.gate, !.qualified = EarningBoundary]
    BY DEF TransferDebrief, OpenedTransfer, TransferEligible, PilotInv
  <1>2. gates' \in GateRows
    BY <1>1, Discloses DEF protocolVars
  <1>3. EarningBoundary \in Nat
    BY <1>1, PartsAre DEF EarningBoundary
  <1>4. transfer' \in TransferRows /\ transfer'.status = "exposed"
    BY <1>1, <1>2, <1>3 DEF PilotTypes, TransferRows, GateRows
  <1>5. TransferSound'
    BY <1>4 DEF TransferSound
  <1>6. PaidOnce' /\ SubmissionsSound' /\ (Committed' <=> Committed)
    BY <1>1, LedgerRests DEF PilotInv
  <1>7. Condition = "attempt_first" => formation'.answer # NoAnswer /\ Committed'
    BY <1>1, <1>6 DEF CheckSound
  <1>8. formation' \in CheckRows /\ ledger' \in Seq(EvaluationRows) /\ submit' \in [Submits -> SubmitRows]
    BY <1>1 DEF PilotTypes
  <1> QED
    BY <1>1, <1>4, <1>5, <1>6, <1>7, <1>8, Reveals

\* Time leaves every hold where it is.
LEMMA TickKeeps ==
  ASSUME PilotInv, Tick, UNCHANGED protocolVars
  PROVE  Learns'
  <1>1. /\ clock' = clock + 1 /\ PilotTypes /\ HoldsSound /\ UNCHANGED <<lesson, manifest>>
        /\ UNCHANGED <<hold, opened, gates, kept, formation, transfer, ledger, submit, disclosed, zones>>
    BY DEF Tick, PilotInv, protocolVars
  <1>2. PilotTypes'
    BY <1>1 DEF PilotTypes
  <1>3. HoldsSound'
    <2>1. clock \in Nat /\ hold \in Nat /\ kept.gate \in Nat /\ gates.gate \in Nat
      BY <1>1, PartsAre
    <2>2. Deleted' <=> Deleted
      BY <1>1 DEF Deleted
    <2>3. \A gate \in Nat : gate <= clock + hold => gate <= clock' + hold'
      BY <1>1, <2>1
    <2> QED
      BY <1>1, <2>1, <2>2, <2>3 DEF HoldsSound
  <1>4. TransferSound'
    BY <1>1 DEF PilotInv, TransferSound
  <1> QED
    BY <1>1, <1>2, <1>3, <1>4, CheckRests DEF Learns

\* After a change of zone there has been more than one hold.
LEMMA ChangeZoneKeeps ==
  ASSUME PilotInv, NEW length \in Holds, ChangeZone(length), UNCHANGED protocolVars
  PROVE  Learns'
  <1>1. /\ length # hold /\ hold' = length /\ zones' = zones \cup {length}
        /\ PilotTypes /\ HoldsSound /\ UNCHANGED <<lesson, manifest>>
        /\ UNCHANGED <<clock, opened, gates, kept, formation, transfer, ledger, submit, disclosed>>
    BY DEF ChangeZone, PilotInv, protocolVars
  <1>2. IsFiniteSet(zones') /\ hold' \in zones' /\ zones' # {hold'}
    BY <1>1, FS_AddElement DEF PilotTypes
  <1>3. PilotTypes'
    BY <1>1, <1>2 DEF PilotTypes
  <1>4. HoldsSound'
    BY <1>1, <1>2 DEF HoldsSound, Deleted
  <1>5. TransferSound'
    BY <1>1 DEF PilotInv, TransferSound
  <1> QED
    BY <1>1, <1>3, <1>4, <1>5, CheckRests DEF Learns

\* Every step of the learner that leaves the protocol alone.
LEMMA LearningKeeps ==
  ASSUME PilotInv, Learning, UNCHANGED protocolVars
  PROVE  Learns'
  <1>1. ASSUME NEW text \in Answers,
               SaveFormationDraft(text) \/ SaveTransferDraft(text) \/ SubmitTransfer(text)
        PROVE  Learns'
    BY <1>1, SaveFormationKeeps, TransferStepsKeep
  <1>2. ASSUME NEW text \in Answers, NEW r \in Submits, NEW p \in Processes, Submit(r, p, text)
        PROVE  Learns'
    BY <1>2, SubmitKeeps
  <1>3. ASSUME NEW r \in Submits,
               AuthorizeEvaluation(r) \/ EvaluationReturns(r) \/ RecordTerminal(r) \/ CommitFormation(r)
        PROVE  Learns'
    BY <1>3, AuthorizeKeeps, EvaluationReturnsKeeps, RecordTerminalKeeps, CommitKeeps
  <1>4. ASSUME NEW p \in Processes, ProcessDies(p) PROVE Learns'
    BY <1>4, ProcessDiesKeeps
  <1>5. ASSUME NEW completed \in BOOLEAN, EndRecall(completed) PROVE Learns'
    BY <1>5, EndRecallKeeps
  <1>6. ASSUME NEW length \in Holds, ChangeZone(length) PROVE Learns'
    BY <1>6, ChangeZoneKeeps
  <1>7. ASSUME OpenReview PROVE Learns'
    <2>1. /\ UNCHANGED <<clock, hold, gates, kept, formation, transfer, ledger, submit, disclosed, zones>>
          /\ UNCHANGED <<lesson, manifest>>
      BY <1>7 DEF OpenReview, protocolVars
    <2>2. PilotTypes' /\ HoldsSound' /\ TransferSound'
      BY <2>1 DEF PilotInv, PilotTypes, HoldsSound, TransferSound, Deleted
    <2> QED
      BY <2>1, <2>2, CheckRests DEF Learns
  <1>8. CASE Restudy \/ ReplayAuthority \/ StartFormation
    BY <1>8, RestudyKeeps, ReplayKeeps, StartFormationKeeps
  <1>9. CASE StartRecall \/ OpenLearn \/ TransferDebrief \/ Tick
    BY <1>9, StartRecallKeeps, OpenLearnKeeps, DebriefKeeps, TickKeeps
  <1>10. CASE ApproveTransfer \/ StartTransfer
    BY <1>10, TransferStepsKeep
  <1> QED
    BY <1>1, <1>2, <1>3, <1>4, <1>5, <1>6, <1>7, <1>8, <1>9, <1>10 DEF Learning

\* The lesson moves, and nothing of the learner.
LEMMA LearnerWaits ==
  ASSUME PilotInv, LessonStands, UNCHANGED pilotVars
  PROVE  Learns'
  <1>1. UNCHANGED <<clock, hold, gates, kept, formation, transfer, ledger, submit, disclosed, zones>>
    BY DEF pilotVars
  <1>2. PilotTypes' /\ TransferSound'
    BY <1>1 DEF PilotInv, PilotTypes, TransferSound
  <1>3. HoldsSound'
    BY <1>1 DEF PilotInv, HoldsSound, Deleted, LessonStands
  <1>4. PaidOnce' /\ SubmissionsSound' /\ (Committed' <=> Committed)
    BY <1>1, LedgerRests DEF PilotInv
  <1>5. CheckSound'
    BY <1>1, <1>4 DEF PilotInv, CheckSound, Deleted, Revealed, Condition, LessonStands
  <1> QED
    BY <1>2, <1>3, <1>4, <1>5 DEF Learns

\* The card takes over the hold of its proposal.
LEMMA ConfirmLessonKeeps ==
  ASSUME PilotInv, NEW keep \in BOOLEAN, ConfirmLesson(keep)
  PROVE  PilotInv'
  <1>1. /\ lesson[Studied] \in LessonReviewable /\ formation.status = "exposed"
        /\ lesson' = [lesson EXCEPT ![Studied] = "confirmed"] /\ UNCHANGED manifest
        /\ kept' = IF keep THEN [NotKept EXCEPT !.made = TRUE, !.exposed = gates.exposed,
                                                !.gate = gates.gate]
                   ELSE kept
        /\ UNCHANGED <<clock, hold, gates, formation, transfer, ledger, submit, disclosed, zones>>
    BY DEF ConfirmLesson
  <1>2. ProtocolInv /\ PilotTypes /\ CheckSound /\ HoldsSound
    BY DEF PilotInv
  <1>3. ProtocolInv'
    BY <1>2, ConfirmKeeps DEF ConfirmLesson, ConfirmsTarget
  <1>4. ~kept.made /\ ~Deleted
    BY <1>1, <1>2 DEF CheckSound, Deleted, LessonReviewable
  <1>5. lesson'[Studied] = "confirmed"
    BY <1>1, <1>2, StudiedAssumption, RowsAre
  <1>6. /\ kept' \in KeptRows /\ (~kept'.made => kept' = NotKept)
        /\ kept'.made => kept'.gate = gates.gate /\ kept'.session = 0
        /\ kept'.gate \in {gates.gate, kept.gate}
    BY <1>1, <1>2, <1>4, PartsAre DEF PilotTypes, CheckSound, NotKept, KeptRows
  <1>7. PilotTypes'
    BY <1>1, <1>2, <1>6 DEF PilotTypes
  <1>8. HoldsSound'
    BY <1>1, <1>2, <1>4, <1>6, PartsAre DEF HoldsSound, Deleted
  <1>9. PaidOnce' /\ SubmissionsSound' /\ (Committed' <=> Committed) /\ TransferSound'
    BY <1>1, LedgerRests DEF PilotInv, TransferSound
  <1>10. CheckSound'
    BY <1>1, <1>2, <1>5, <1>6, <1>9 DEF CheckSound, Deleted, Revealed, Condition
  <1> QED
    BY <1>3, <1>7, <1>8, <1>9, <1>10 DEF PilotInv

\* The checks go with the source, and the card stays.
LEMMA DeleteStudiedKeeps ==
  ASSUME PilotInv, DeleteStudied
  PROVE  PilotInv'
  <1>1. /\ DeleteLesson(Studied) /\ formation' = NoCheck /\ transfer' = NoTransfer
        /\ gates' = [exposed |-> 0, gate |-> 0]
        /\ UNCHANGED <<clock, hold, kept, ledger, submit, disclosed, zones>>
    BY DEF DeleteStudied
  <1>2. ProtocolInv /\ PilotTypes /\ CheckSound /\ HoldsSound /\ Studied \in Lessons
    BY StudiedAssumption DEF PilotInv
  <1>3. ProtocolInv'
    BY <1>1, <1>2, DeleteKeeps
  <1>4. Deleted'
    BY <1>1, <1>2, RowsAre DEF DeleteLesson, Deleted
  <1>5. /\ manifest'[Studied].sequence = manifest[Studied].sequence
        /\ manifest'[Studied].condition = manifest[Studied].condition
    BY <1>1, <1>2, AssignmentEnds DEF DeleteLesson
  <1>6. gates' \in GateRows /\ formation' \in CheckRows /\ transfer' \in TransferRows
    BY <1>1 DEF GateRows, CheckRows, TransferRows, NoCheck, NoTransfer, MaybeAnswer
  <1>7. PilotTypes'
    BY <1>1, <1>2, <1>6 DEF PilotTypes
  <1>8. HoldsSound'
    BY <1>1, <1>2, <1>4, PartsAre DEF HoldsSound
  <1>9. PaidOnce' /\ SubmissionsSound' /\ (Committed' <=> Committed)
    BY <1>1, LedgerRests DEF PilotInv
  <1>10. TransferSound' /\ formation'.status = "none"
    BY <1>1 DEF TransferSound, NoTransfer, NoCheck
  <1>11. CheckSound'
    BY <1>1, <1>2, <1>4, <1>5, <1>9, <1>10 DEF CheckSound, Deleted, Revealed, Condition
  <1> QED
    BY <1>3, <1>7, <1>8, <1>9, <1>10, <1>11 DEF PilotInv

\* The protocol rests.
LEMMA ProtocolRests ==
  ASSUME ProtocolInv, UNCHANGED protocolVars
  PROVE  ProtocolInv' /\ LessonStands
  <1>1. UNCHANGED <<enrollment, manifest, lesson, topic, audit>>
    BY DEF protocolVars
  <1> QED
    BY <1>1 DEF ProtocolInv, ProtocolTypes, AssignedWhole, BoundIsReviewable, AssignmentsFollowSeed,
       TargetWasReviewed, CleanIsVerified, Decided, LessonStands

\* The invariant is inductive.
LEMMA StudyStep ==
  ASSUME PilotInv, [StudyNext]_<<protocolVars, pilotVars>>
  PROVE  PilotInv'
  <1>1. ProtocolInv
    BY DEF PilotInv
  <1>2. CASE Learning /\ UNCHANGED protocolVars
    BY <1>1, <1>2, LearningKeeps, ProtocolRests DEF PilotInv, Learns
  <1>3. ASSUME NEW keep \in BOOLEAN, ConfirmLesson(keep) PROVE PilotInv'
    BY <1>3, ConfirmLessonKeeps
  <1>4. CASE DeleteStudied
    BY <1>4, DeleteStudiedKeeps
  <1>5. CASE OperatorNext
    <2>1. ProtocolInv' /\ LessonStands /\ UNCHANGED pilotVars
      BY <1>1, <1>5, OperatorStep DEF OperatorNext
    <2> QED
      BY <2>1, LearnerWaits DEF PilotInv, Learns
  <1>6. CASE UNCHANGED <<protocolVars, pilotVars>>
    <2>1. ProtocolInv' /\ LessonStands /\ UNCHANGED pilotVars
      BY <1>1, <1>6, ProtocolRests
    <2> QED
      BY <2>1, LearnerWaits DEF PilotInv, Learns
  <1> QED
    BY <1>2, <1>3, <1>4, <1>5, <1>6 DEF StudyNext, LearnerNext

\* What the invariant says of the evaluations and of the condition.
LEMMA PilotPromises ==
  ASSUME PilotInv
  PROVE  /\ AssignmentsFollowSeed /\ TargetWasReviewed /\ CleanIsVerified
         /\ EvaluatedOnce /\ ConditionIsKept
  <1>1. PilotTypes /\ PaidOnce /\ CheckSound /\ HoldsSound
    BY DEF PilotInv
  <1>2. EvaluatedOnce
    <2> DEFINE paid == {i \in DOMAIN ledger : ledger[i].calls > 0 /\ ledger[i].outcome # "failed"}
    <2>1. Cardinality(paid) <= 1
      <3>1. CASE paid = {}
        BY <3>1, FS_EmptySet
      <3>2. CASE paid # {}
        <4>1. PICK i \in paid : TRUE
          BY <3>2
        <4>2. paid = {i}
          BY <1>1, <4>1 DEF PaidOnce, Paid
        <4> QED
          BY <4>2, FS_Singleton
      <3> QED
        BY <3>1, <3>2
    <2>2. (formation.status = "exposed" /\ Condition = "attempt_first") => Committed
      BY <1>1 DEF CheckSound
    <2> QED
      BY <2>1, <2>2 DEF EvaluatedOnce, Committed
  <1>3. ConditionIsKept
    BY <1>1 DEF ConditionIsKept, CheckSound, HoldsSound, Revealed
  <1> QED
    BY <1>2, <1>3 DEF PilotInv, ProtocolInv

\* A disclosure moves no boundary back.
LEMMA DisclosureGrows ==
  ASSUME PilotInv, AdvanceExposure
  PROVE  gates'.gate >= gates.gate /\ (Cardinality(zones) = 1 => kept'.gate >= kept.gate)
  <1> DEFINE gate == Later(gates.gate, clock + hold)
  <1>1. PilotTypes /\ HoldsSound
    BY DEF PilotInv
  <1>2. /\ gates' = [exposed |-> clock, gate |-> gate]
        /\ kept' = IF kept.made THEN [kept EXCEPT !.exposed = clock, !.gate = gate] ELSE kept
    BY DEF AdvanceExposure, Advanced, Boundary
  <1>3. gate \in Nat /\ gate >= gates.gate /\ gate >= clock + hold
    BY <1>1, PartsAre DEF Later
  <1>4. Cardinality(zones) = 1 => kept.gate <= clock + hold
    <2>1. Cardinality(zones) = 1 => zones = {hold}
      BY <1>1, FS_Singleton DEF PilotTypes
    <2> QED
      BY <1>1, <2>1 DEF HoldsSound
  <1> HIDE DEF gate
  <1>5. kept'.gate \in {gate, kept.gate}
    BY <1>1, <1>2, PartsAre DEF PilotTypes, KeptRows
  <1> QED
    BY <1>1, <1>2, <1>3, <1>4, <1>5, PartsAre

\* Which steps move the boundaries.
LEMMA HoldsStep ==
  ASSUME PilotInv, StudyNext
  PROVE  /\ gates'.exposed # 0 => gates'.gate >= gates.gate
         /\ Cardinality(zones) = 1 => kept'.gate >= kept.gate
  <1>1. PilotTypes /\ CheckSound /\ kept \in KeptRows
    BY DEF PilotInv, PilotTypes
  <1>2. CASE UNCHANGED <<gates, kept>>
    BY <1>1, <1>2, PartsAre
  <1>3. CASE AdvanceExposure
    BY <1>3, DisclosureGrows
  <1>4. CASE (StartRecall \/ \E completed \in BOOLEAN : EndRecall(completed))
    <2>1. UNCHANGED gates /\ kept'.gate = kept.gate
      BY <1>1, <1>4 DEF StartRecall, EndRecall, KeptRows
    <2> QED
      BY <1>1, <2>1, PartsAre
  <1>5. CASE OpenLearn
    <2>1. UNCHANGED gates /\ kept' = [kept EXCEPT !.exposed = clock, !.gate = Later(kept.gate, clock + hold)]
      BY <1>5 DEF OpenLearn, Boundary
    <2>2. kept'.gate = Later(kept.gate, clock + hold)
      BY <1>1, <2>1 DEF KeptRows
    <2> QED
      BY <1>1, <2>1, <2>2, PartsAre DEF Later
  <1>6. ASSUME NEW keep \in BOOLEAN, ConfirmLesson(keep)
        PROVE  UNCHANGED gates /\ kept'.gate >= kept.gate
    <2>1. /\ UNCHANGED gates /\ lesson[Studied] \in LessonReviewable
          /\ kept' = IF keep THEN [NotKept EXCEPT !.made = TRUE, !.exposed = gates.exposed,
                                                  !.gate = gates.gate]
                     ELSE kept
      BY <1>6 DEF ConfirmLesson
    <2>2. kept = NotKept
      BY <1>1, <2>1 DEF CheckSound, LessonReviewable
    <2> QED
      BY <1>1, <2>1, <2>2, PartsAre DEF NotKept
  <1>7. CASE DeleteStudied
    BY <1>1, <1>7, PartsAre DEF DeleteStudied
  <1>8. CASE Learning
    <2>1. ASSUME NEW text \in Answers, NEW r \in Submits, NEW p \in Processes, Submit(r, p, text)
          PROVE  AdvanceExposure \/ UNCHANGED <<gates, kept>>
      BY <2>1 DEF Submit
    <2>2. ASSUME NEW r \in Submits, CommitFormation(r)
          PROVE  AdvanceExposure \/ UNCHANGED <<gates, kept>>
      BY <2>2 DEF CommitFormation
    <2>3. CASE \E text \in Answers :
                 SaveFormationDraft(text) \/ SaveTransferDraft(text) \/ SubmitTransfer(text)
      BY <1>2, <2>3 DEF SaveFormationDraft, SaveTransferDraft, SubmitTransfer
    <2>4. CASE \E r \in Submits : AuthorizeEvaluation(r) \/ EvaluationReturns(r) \/ RecordTerminal(r)
      BY <1>2, <2>4 DEF AuthorizeEvaluation, EvaluationReturns, RecordTerminal
    <2>5. CASE (\E p \in Processes : ProcessDies(p)) \/ (\E length \in Holds : ChangeZone(length)) \/ Tick
      BY <1>2, <2>5 DEF ProcessDies, ChangeZone, Tick
    <2>6. CASE StartFormation \/ OpenReview \/ ApproveTransfer \/ StartTransfer
      BY <1>2, <2>6 DEF StartFormation, OpenReview, ApproveTransfer, StartTransfer
    <2>7. CASE Restudy \/ ReplayAuthority \/ TransferDebrief
      BY <1>3, <2>7 DEF Restudy, ReplayAuthority, TransferDebrief
    <2> QED
      BY <1>2, <1>3, <1>4, <1>5, <1>8, <2>1, <2>2, <2>3, <2>4, <2>5, <2>6, <2>7 DEF Learning
  <1>9. CASE OperatorNext
    BY <1>2, <1>9 DEF OperatorNext, pilotVars
  <1> QED
    BY <1>6, <1>7, <1>8, <1>9, <1>1, PartsAre DEF StudyNext, LearnerNext

\* An answer of the check stands, and one of the transfer is earned.
TransferStep ==
  /\ formation.status = "exposed" /\ formation'.status # "none" => formation' = formation
  /\ transfer'.answer # transfer.answer /\ transfer'.status # "none" =>
       transfer.answer = NoAnswer /\ disclosed < kept.recalled
       /\ clock >= formation.exposed + TransferDelay

\* The learner has recalled the concept behind the hold of its last disclosure.
LEMMA TransferIsAnswered ==
  ASSUME PilotInv, NEW text \in Answers, SubmitTransfer(text)
  PROVE  TransferStep
  <1>1. /\ transfer.status = "open" /\ TransferEligible /\ UNCHANGED formation
    BY DEF SubmitTransfer, OpenedTransfer
  <1>2. PilotTypes /\ HoldsSound /\ TransferSound
    BY DEF PilotInv
  <1>3. transfer.answer = NoAnswer /\ transfer.qualified = 0
    BY <1>1, <1>2 DEF TransferSound
  <1>4. EarningBoundary = kept.gate
    BY <1>3 DEF EarningBoundary
  <1>5. /\ kept.made /\ kept.recalled # 0 /\ kept.recalled >= kept.gate
        /\ clock >= formation.exposed + TransferDelay
    BY <1>1, <1>4 DEF TransferEligible
  <1>6. disclosed < kept.recalled
    BY <1>2, <1>5, PartsAre DEF HoldsSound
  <1> QED
    BY <1>1, <1>3, <1>5, <1>6 DEF TransferStep

\* No other step answers a transfer, or changes an answer of the check.
LEMMA TransferEarned ==
  ASSUME PilotInv, StudyNext
  PROVE  TransferStep
  <1>1. PilotTypes /\ TransferSound /\ transfer \in TransferRows
    BY DEF PilotInv, PilotTypes
  <1>2. CASE UNCHANGED <<formation, transfer>>
    BY <1>2 DEF TransferStep
  <1>3. CASE formation.status # "exposed" /\ UNCHANGED transfer
    BY <1>3 DEF TransferStep
  <1>4. CASE UNCHANGED formation /\ transfer'.answer = transfer.answer
    BY <1>4 DEF TransferStep
  <1>5. CASE DeleteStudied
    BY <1>5 DEF DeleteStudied, TransferStep, NoCheck, NoTransfer
  <1>6. CASE (\E keep \in BOOLEAN : ConfirmLesson(keep)) \/ OperatorNext
    BY <1>2, <1>6 DEF ConfirmLesson, OperatorNext, pilotVars
  <1>7. CASE Learning
    <2>1. ASSUME NEW text \in Answers, NEW r \in Submits, NEW p \in Processes, Submit(r, p, text)
          PROVE  TransferStep
      <3>1. CASE formation.status = "open"
        BY <1>3, <2>1, <3>1 DEF Submit
      <3>2. CASE formation.status # "open"
        BY <1>2, <2>1, <3>2 DEF Submit
      <3> QED
        BY <3>1, <3>2
    <2>2. ASSUME NEW r \in Submits, CommitFormation(r) PROVE TransferStep
      BY <1>2, <1>3, <2>2 DEF CommitFormation
    <2>3. ASSUME NEW text \in Answers, SaveFormationDraft(text) PROVE TransferStep
      BY <1>3, <2>3 DEF SaveFormationDraft
    <2>4. ASSUME NEW text \in Answers, SaveTransferDraft(text) PROVE TransferStep
      BY <1>1, <1>4, <2>4 DEF SaveTransferDraft, TransferRows
    <2>5. CASE \E r \in Submits : AuthorizeEvaluation(r) \/ EvaluationReturns(r) \/ RecordTerminal(r)
      BY <1>2, <2>5 DEF AuthorizeEvaluation, EvaluationReturns, RecordTerminal
    <2>6. CASE \/ \E p \in Processes : ProcessDies(p)
               \/ \E length \in Holds : ChangeZone(length)
               \/ \E completed \in BOOLEAN : EndRecall(completed)
      BY <1>2, <2>6 DEF ProcessDies, ChangeZone, EndRecall
    <2>7. CASE OpenReview \/ ReplayAuthority \/ StartRecall \/ OpenLearn \/ Tick
      BY <1>2, <2>7 DEF OpenReview, ReplayAuthority, StartRecall, OpenLearn, Tick
    <2>8. CASE Restudy
      <3>1. UNCHANGED transfer /\ (formation.status = "exposed" => UNCHANGED formation)
        BY <2>8 DEF Restudy
      <3> QED
        BY <1>2, <1>3, <3>1
    <2>9. CASE StartFormation
      BY <1>3, <2>9 DEF StartFormation
    <2>10. CASE ApproveTransfer
      <3>1. transfer'.answer = NoAnswer /\ transfer.answer = NoAnswer /\ UNCHANGED formation
        BY <1>1, <2>10 DEF ApproveTransfer, TransferSound, NoTransfer
      <3> QED
        BY <1>4, <3>1
    <2>11. CASE StartTransfer \/ TransferDebrief
      BY <1>1, <1>4, <2>11 DEF StartTransfer, TransferDebrief, TransferRows
    <2> QED
      BY <1>7, <2>1, <2>2, <2>3, <2>4, <2>5, <2>6, <2>7, <2>8, <2>9, <2>10, <2>11, TransferIsAnswered
      DEF Learning
  <1> QED
    BY <1>5, <1>6, <1>7 DEF StudyNext, LearnerNext

\* The invariant holds in every state of the study (EvaluatedOnce, ConditionIsKept).
THEOREM PilotStaysSound == StudySpec => []PilotInv
  BY PilotBegins, StudyStep, PTL DEF StudySpec

\* Assignments follow the seed and targets are reviewed; an evaluation is paid for
\* once and nobody sees the authority first; an answer stands, a transfer is earned,
\* and no disclosure shortens a hold (PilotIsSound).
THEOREM PilotKeepsFaith == StudySpec => PilotIsSound
  <1>1. StudySpec => []PilotInv
    BY PilotStaysSound
  <1>2. PilotInv => /\ AssignmentsFollowSeed /\ TargetWasReviewed /\ CleanIsVerified
                    /\ EvaluatedOnce /\ ConditionIsKept
    BY PilotPromises
  <1>3. PilotInv /\ [StudyNext]_<<protocolVars, pilotVars>> =>
          [ /\ formation.status = "exposed" /\ formation'.status # "none" =>
                 formation' = formation
            /\ transfer'.answer # transfer.answer /\ transfer'.status # "none" =>
                 /\ transfer.answer = NoAnswer
                 /\ disclosed < kept.recalled
                 /\ clock >= formation.exposed + TransferDelay ]_<<formation, transfer>>
    <2>1. ASSUME UNCHANGED <<protocolVars, pilotVars>> PROVE UNCHANGED <<formation, transfer>>
      BY <2>1 DEF pilotVars
    <2> QED
      BY <2>1, TransferEarned DEF TransferStep
  <1>4. PilotInv /\ [StudyNext]_<<protocolVars, pilotVars>> =>
          [ /\ gates'.exposed # 0 => gates'.gate >= gates.gate
            /\ Cardinality(zones) = 1 => kept'.gate >= kept.gate ]_<<gates, kept>>
    <2>1. ASSUME UNCHANGED <<protocolVars, pilotVars>> PROVE UNCHANGED <<gates, kept>>
      BY <2>1 DEF pilotVars
    <2> QED
      BY <2>1, HoldsStep
  <1> QED
    BY <1>1, <1>2, <1>3, <1>4, PTL DEF StudySpec, PilotIsSound, TransferIsEarned, HoldsOnlyGrow

==============================================================================
