---------------------------- MODULE MaterialImport ----------------------------
(****************************************************************************)
(* The import of uploaded study material (services/materials.py and the      *)
(* handlers of routers/materials.py): a durable queue in the rows of         *)
(* material_sources, worked off by background tasks and by the sweepers of   *)
(* every server process under a lease, whose results the learner edits,      *)
(* confirms into cards, retries or deletes at any time.                      *)
(*                                                                           *)
(* A source is one row and stands with one proposed topic for its list of    *)
(* them.  A run id is fresh with every claim; as a worker remembers only its *)
(* latest claim, the worker stands for the id.                               *)
(****************************************************************************)
EXTENDS Naturals, FiniteSets

CONSTANTS
  Sources, Workers, Confirms, Topics,
  Drafts,      \* ids of study_plan_guide_drafts rows, as many as the quota
  Paths,       \* the import paths in use
  None,
  Attempts,    \* times a call may be parsed
  MaxFaults,   \* bound on process deaths and missed heartbeats
  Operations   \* the operations of the learner that may happen

ASSUME NoneAssumption == None \notin Sources \cup Workers \cup Drafts \cup Topics
ASSUME PathsAssumption == Paths \subseteq {"plan", "topics", "lesson"}
ASSUME BoundsAssumption == Attempts \in Nat \ {0} /\ MaxFaults \in Nat
ASSUME OperationsAssumption == Operations \subseteq {"retry", "edit", "delete", "topic"}

VARIABLES
  row,         \* material_sources
  proposal,    \* material_topic_proposals of a source
  draftOf,     \* study_plan_guide_drafts: the source whose text a draft holds
  cards,       \* how many cards were made of a new topic of that name
  pc, work,    \* workers: process_import
  confirm,     \* confirm_topics requests
  claimant,    \* history: the worker of a source's latest claim
  faults

vars == <<row, proposal, draftOf, cards, pc, work, confirm, claimant, faults>>

------------------------------------------------------------------------------
(* State.                                                                    *)

Reviewable == {"ready", "needs_attention"}
Unfinished == {"pending", "processing"}
Gone == {"none", "deleted"}
Statuses == Gone \cup Unfinished \cup Reviewable
              \cup {"failed", "confirmed", "superseded"}

Rows == [status : Statuses, path : Paths \cup {None}, run : Workers \cup {None},
         beating : BOOLEAN, draft : Drafts \cup {None},
         previous : Sources \cup {None}]
NoRow == [status |-> "none", path |-> None, run |-> None, beating |-> FALSE,
          draft |-> None, previous |-> None]

NoProposal == [topic |-> None, status |-> "none"]
Proposals == [topic : Topics \cup {None},
              status : {"none", "clean", "attention", "excluded", "confirmed"}]

\* What a worker remembers: the source and draft it read after its claim, and
\* how often it has asked the provider.
Works == [source : Sources \cup {None}, draft : Drafts \cup {None}, tries : 0 .. Attempts]
NoWork == [source |-> None, draft |-> None, tries |-> 0]

Stages == {"idle", "load", "draft", "authorize", "provider", "store", "fail"}
NotConfirming == [stage |-> "idle", source |-> None]

\* Types, and: only a source in processing (or superseded while it was) has a
\* lease.
TypeOK ==
  /\ row \in [Sources -> Rows]
  /\ proposal \in [Sources -> Proposals]
  /\ draftOf \in [Drafts -> Sources \cup {None}]
  /\ cards \in [Topics -> Nat]
  /\ pc \in [Workers -> Stages] /\ work \in [Workers -> Works]
  /\ confirm \in [Confirms -> [stage : {"idle", "topics", "commit"},
                               source : Sources \cup {None}]]
  /\ claimant \in [Sources -> Workers \cup {None}]
  /\ faults \in 0 .. MaxFaults
  /\ \A s \in Sources :
       row[s].run # None => row[s].status \in {"processing", "superseded"}

Init ==
  /\ row = [s \in Sources |-> NoRow]
  /\ proposal = [s \in Sources |-> NoProposal]
  /\ draftOf = [d \in Drafts |-> None]
  /\ cards = [t \in Topics |-> 0]
  /\ pc = [w \in Workers |-> "idle"]
  /\ work = [w \in Workers |-> NoWork]
  /\ confirm = [c \in Confirms |-> NotConfirming]
  /\ claimant = [s \in Sources |-> None]
  /\ faults = 0

Goto(w, stage) == pc' = [pc EXCEPT ![w] = stage]
Quit(w) == Goto(w, "idle") /\ work' = [work EXCEPT ![w] = NoWork]

\* Row locks are held across steps by confirmations only, and so is the lock of
\* topic creation.
RowFree(s) == \A c \in Confirms : confirm[c].source # s
TopicLockIgnored == TRUE                                         \* mutant
TopicLockFree == \A c \in Confirms : confirm[c].stage # "commit"

\* The worker still owns the result it is about to write.
MineByStatus(w) == row[work[w].source].status = "processing"     \* mutant
Mine(w) == /\ row[work[w].source].status = "processing"
           /\ row[work[w].source].run = w

\* The import has ended in a status: the lease is over.
SettledWithLease(s, status) ==                                   \* mutant
  [row EXCEPT ![s].status = status, ![s].beating = FALSE]
Settled(s, status) ==
  [row EXCEPT ![s].status = status, ![s].run = None, ![s].beating = FALSE]

------------------------------------------------------------------------------
(* process_import, by the background task of a request or by a sweeper.      *)

Recoverable(s) ==
  \/ row[s].status = "pending"
  \/ row[s].status = "processing" /\ ~row[s].beating

Claim(w, s) ==
  /\ pc[w] = "idle"
  /\ Recoverable(s)
  /\ row' = [row EXCEPT ![s].status = "processing", ![s].run = w,
                        ![s].beating = TRUE]
  /\ claimant' = [claimant EXCEPT ![s] = w]
  /\ Goto(w, "load")
  /\ work' = [work EXCEPT ![w] = [NoWork EXCEPT !.source = s]]
  /\ UNCHANGED <<proposal, draftOf, cards, confirm, faults>>

\* The row is read in a second transaction; a deletion may have come between.
Load(w) ==
  /\ pc[w] = "load"
  /\ LET r == row[work[w].source] IN
     IF r.status \in Gone
     THEN Quit(w)
     ELSE /\ Goto(w, IF r.path = "plan" THEN "draft" ELSE "authorize")
          /\ work' = [work EXCEPT ![w].draft = r.draft]
  /\ UNCHANGED <<row, proposal, draftOf, cards, confirm, claimant, faults>>

\* A plan import keeps its guide in a draft.  The write names the source by its
\* id alone: it fails only if the source is gone, never because the lease is.
CreateDraft(w) ==
  /\ pc[w] = "draft"
  /\ LET s == work[w].source
         kept == IF work[w].draft = None THEN FALSE ELSE draftOf[work[w].draft] # None
         free == {d \in Drafts : draftOf[d] = None}
     IN IF kept
        THEN Goto(w, "authorize") /\ UNCHANGED <<row, draftOf, work>>
        ELSE IF row[s].status \in Gone \/ free = {}
        THEN Goto(w, "fail") /\ UNCHANGED <<row, draftOf, work>>
        ELSE /\ RowFree(s)
             /\ \E d \in free :
                  /\ draftOf' = [draftOf EXCEPT ![d] = s]
                  /\ row' = [row EXCEPT ![s].draft = d]
                  /\ work' = [work EXCEPT ![w].draft = d]
             /\ Goto(w, "authorize")
  /\ UNCHANGED <<proposal, cards, confirm, claimant, faults>>

\* Every physical call is authorized on its own: consent and daily limits may
\* refuse it, a lost lease does.
Authorize(w) ==
  /\ pc[w] = "authorize"
  /\ \/ Goto(w, "fail") /\ UNCHANGED work
     \/ /\ Mine(w)
        /\ Goto(w, "provider")
        /\ work' = [work EXCEPT ![w].tries = @ + 1]
  /\ UNCHANGED <<row, proposal, draftOf, cards, confirm, claimant, faults>>

\* Minutes later: a usable result, an error, or output to ask for once more.
CallProvider(w) ==
  /\ pc[w] = "provider"
  /\ \E stage \in {"store", "fail"} \cup
                  (IF work[w].tries < Attempts THEN {"authorize"} ELSE {}) :
       Goto(w, stage)
  /\ UNCHANGED <<row, proposal, draftOf, cards, work, confirm, claimant, faults>>

\* A topic that exists already needs the learner's attention, as does one with
\* an issue of its own.
StoreResult(w) ==
  /\ pc[w] = "store"
  /\ LET s == work[w].source IN
     IF Mine(w) /\ (row[s].path = "plan" => row[s].draft # None)
     THEN /\ RowFree(s)
          /\ \E t \in Topics, verdict \in {"clean", "attention"} :
               /\ cards[t] > 0 => verdict = "attention"
               /\ proposal' = [proposal EXCEPT ![s] =
                                 [topic |-> t, status |-> verdict]]
               /\ row' = Settled(s, IF verdict = "clean" THEN "ready"
                                                         ELSE "needs_attention")
     ELSE UNCHANGED <<row, proposal>>
  /\ Quit(w)
  /\ UNCHANGED <<draftOf, cards, confirm, claimant, faults>>

StoreFailure(w) ==
  /\ pc[w] = "fail"
  /\ IF Mine(w)
     THEN RowFree(work[w].source) /\ row' = Settled(work[w].source, "failed")
     ELSE UNCHANGED row
  /\ Quit(w)
  /\ UNCHANGED <<proposal, draftOf, cards, confirm, claimant, faults>>

\* The heartbeat task renews the lease, cancels the work when the lease is lost,
\* and gives up when the database is away for three heartbeats.
Heartbeat(w) ==
  /\ pc[w] \in {"draft", "authorize", "provider", "store"}
  /\ \/ /\ Mine(w) /\ ~row[work[w].source].beating
        /\ row' = [row EXCEPT ![work[w].source].beating = TRUE]
        /\ UNCHANGED <<pc, work>>
     \/ ~Mine(w) /\ Quit(w) /\ UNCHANGED row
     \/ Goto(w, "fail") /\ UNCHANGED <<row, work>>
  /\ UNCHANGED <<proposal, draftOf, cards, confirm, claimant, faults>>

\* Two minutes without a heartbeat: the worker is dead, or it is only paused.
HeartbeatLapses(s) ==
  /\ row[s].status = "processing" /\ row[s].beating
  /\ IF \E w \in Workers : pc[w] # "idle" /\ work[w].source = s /\ Mine(w)
     THEN faults < MaxFaults /\ faults' = faults + 1
     ELSE UNCHANGED faults
  /\ row' = [row EXCEPT ![s].beating = FALSE]
  /\ UNCHANGED <<proposal, draftOf, cards, pc, work, confirm, claimant>>

WorkerDies(w) ==
  /\ pc[w] # "idle" /\ faults < MaxFaults
  /\ faults' = faults + 1
  /\ Quit(w)
  /\ UNCHANGED <<row, proposal, draftOf, cards, confirm, claimant>>

WorkerStep(w) ==
  \/ Load(w) \/ CreateDraft(w) \/ Authorize(w) \/ CallProvider(w)
  \/ StoreResult(w) \/ StoreFailure(w)

------------------------------------------------------------------------------
(* The learner's handlers.                                                   *)

\* A new source, or a new version of one that has no next version yet.
StartImport(s) ==
  /\ row[s].status = "none"
  /\ \E path \in Paths, p \in Sources \cup {None} :
       /\ p # None => /\ row[p].status \notin Gone
                      /\ \A t \in Sources : row[t].previous # p
       /\ row' = [row EXCEPT ![s] = [NoRow EXCEPT !.status = "pending",
                                                  !.path = path, !.previous = p]]
  /\ UNCHANGED <<proposal, draftOf, cards, pc, work, confirm, claimant, faults>>

RetryImport(s) ==
  /\ "retry" \in Operations
  /\ row[s].status = "failed" /\ RowFree(s)
  /\ row' = Settled(s, "pending")
  /\ UNCHANGED <<proposal, draftOf, cards, pc, work, confirm, claimant, faults>>

\* An edit decides anew whether the topic is clean, without looking for other
\* topics of its name; an edited lesson needs a new grounding check.
EditTopic(s) ==
  /\ "edit" \in Operations
  /\ row[s].status \in Reviewable /\ RowFree(s)
  /\ \E t \in Topics, status \in {"clean", "attention", "excluded"} :
       /\ (row[s].path = "lesson" /\ status = "clean") =>
             proposal[s] = [topic |-> t, status |-> "clean"]
       /\ proposal' = [proposal EXCEPT ![s] = [topic |-> t, status |-> status]]
  /\ UNCHANGED <<row, draftOf, cards, pc, work, confirm, claimant, faults>>

\* The source goes, its proposals with it, and its draft if no other source has
\* it; a next version forgets its predecessor.
DeleteSource(s) ==
  /\ "delete" \in Operations
  /\ row[s].status \notin Gone /\ RowFree(s)
  /\ \A t \in Sources : row[t].previous = s => RowFree(t)
  /\ row' = [t \in Sources |->
               IF t = s THEN [NoRow EXCEPT !.status = "deleted"]
               ELSE IF row[t].previous = s THEN [row[t] EXCEPT !.previous = None]
               ELSE row[t]]
  /\ proposal' = [proposal EXCEPT ![s] = NoProposal]
  /\ LET d == row[s].draft IN
     draftOf' = IF d # None /\ \A t \in Sources \ {s} : row[t].draft # d
                THEN [draftOf EXCEPT ![d] = None] ELSE draftOf
  /\ UNCHANGED <<cards, pc, work, confirm, claimant, faults>>

\* A manual topic, a capture or an accepted plan makes a card of a new topic.
CreateTopic(t) ==
  /\ "topic" \in Operations
  /\ TopicLockFree /\ cards[t] = 0
  /\ cards' = [cards EXCEPT ![t] = 1]
  /\ UNCHANGED <<row, proposal, draftOf, pc, work, confirm, claimant, faults>>

------------------------------------------------------------------------------
(* confirm_topics: the row lock of the source, then the account's lock of     *)
(* topic creation, then the row of the previous version.                     *)

ConfirmCall(c, s) ==
  /\ confirm[c].stage = "idle"
  /\ row[s].status \in Reviewable /\ RowFree(s)
  /\ proposal[s].status = "clean"
  /\ confirm' = [confirm EXCEPT ![c] = [stage |-> "topics", source |-> s]]
  /\ UNCHANGED <<row, proposal, draftOf, cards, pc, work, claimant, faults>>

\* A refused or an ended request lets go of its locks.
KeepRow(c) == UNCHANGED confirm                                  \* mutant
LetGo(c) == confirm' = [confirm EXCEPT ![c] = NotConfirming]

\* Under the lock: a card of that topic refuses the confirmation.
ConfirmTopics(c) ==
  /\ confirm[c].stage = "topics" /\ TopicLockFree
  /\ IF cards[proposal[confirm[c].source].topic] > 0
     THEN LetGo(c)
     ELSE confirm' = [confirm EXCEPT ![c].stage = "commit"]
  /\ UNCHANGED <<row, proposal, draftOf, cards, pc, work, claimant, faults>>

\* The card is made, and whatever its state the previous version is superseded;
\* a lease on it is not touched.
ConfirmCommit(c) ==
  /\ confirm[c].stage = "commit"
  /\ LET s == confirm[c].source
         p == row[s].previous
     IN /\ p # None => RowFree(p)
        /\ cards' = [cards EXCEPT ![proposal[s].topic] = @ + 1]
        /\ proposal' = [proposal EXCEPT ![s].status = "confirmed"]
        /\ row' = [t \in Sources |->
                     IF t = s THEN [row[t] EXCEPT !.status = "confirmed"]
                     ELSE IF t = p THEN [row[t] EXCEPT !.status = "superseded"]
                     ELSE row[t]]
  /\ confirm' = [confirm EXCEPT ![c] = NotConfirming]
  /\ UNCHANGED <<draftOf, pc, work, claimant, faults>>

\* Confirming a version and its successor at once is a cycle: one waits for the
\* topic lock with the row the other needs.
Deadlocked(c, d) ==
  /\ confirm[c].stage = "topics" /\ confirm[d].stage = "commit"
  /\ row[confirm[d].source].previous = confirm[c].source

\* So is confirming a version while its predecessor is deleted: each has the row
\* the other is about to write.
DeadlockedByDelete(c) ==
  /\ confirm[c].stage = "commit" /\ "delete" \in Operations
  /\ LET p == row[confirm[c].source].previous IN p # None /\ RowFree(p)

\* PostgreSQL ends one of them.
DeadlockDetected(e) ==
  /\ DeadlockedByDelete(e) \/ \E c, d \in Confirms : Deadlocked(c, d) /\ e \in {c, d}
  /\ LetGo(e)
  /\ UNCHANGED <<row, proposal, draftOf, cards, pc, work, claimant, faults>>

ConfirmDies(c) ==
  /\ confirm[c].stage # "idle" /\ faults < MaxFaults
  /\ faults' = faults + 1
  /\ confirm' = [confirm EXCEPT ![c] = NotConfirming]
  /\ UNCHANGED <<row, proposal, draftOf, cards, pc, work, claimant>>

ConfirmStep(c) == ConfirmTopics(c) \/ ConfirmCommit(c) \/ DeadlockDetected(c)

------------------------------------------------------------------------------

Next ==
  \/ \E w \in Workers : \/ \E s \in Sources : Claim(w, s)
                        \/ WorkerStep(w) \/ Heartbeat(w) \/ WorkerDies(w)
  \/ \E s \in Sources : \/ HeartbeatLapses(s) \/ StartImport(s) \/ RetryImport(s)
                        \/ EditTopic(s) \/ DeleteSource(s)
  \/ \E t \in Topics : CreateTopic(t)
  \/ \E c \in Confirms : \/ \E s \in Sources : ConfirmCall(c, s)
                         \/ ConfirmStep(c) \/ ConfirmDies(c)

Spec == Init /\ [][Next]_vars

\* Sweepers look at every recoverable source every minute, provider calls time
\* out, a dead worker's heartbeat lapses, lock queues are fair.  Deaths and
\* pauses are bounded by MaxFaults; nobody has to confirm, retry or delete.
FairSpec ==
  /\ Spec
  /\ \A s \in Sources : /\ SF_vars(\E w \in Workers : Claim(w, s))
                        /\ WF_vars(HeartbeatLapses(s))
  /\ \A w \in Workers : SF_vars(WorkerStep(w))
  /\ \A c \in Confirms : SF_vars(ConfirmStep(c))

------------------------------------------------------------------------------
(* Properties.                                                               *)

\* Whatever a worker writes to the source it claimed, result or failure, it is
\* the worker of the latest claim, and it writes once: a worker whose lease was
\* taken over while it waited for the provider overwrites nothing, and nothing
\* a confirmation or deletion has closed.
PhaseOf(s) ==
  CASE row[s].status = "none" -> "none"
    [] row[s].status = "pending" -> "open"
    [] row[s].status = "processing" -> "held"
    [] row[s].status \in {"ready", "needs_attention", "failed"} -> "done"
    [] OTHER -> "closed"

Lease == INSTANCE LeasedImport WITH
           Imports <- Sources, Nobody <- None,
           phase <- [s \in Sources |-> PhaseOf(s)],
           holder <- [s \in Sources |-> IF PhaseOf(s) = "held" THEN claimant[s] ELSE None],
           at <- [w \in Workers |-> work[w].source]

ImplementsLease == Lease!Spec

\* What the learner confirmed, or replaced by a later version, no late worker,
\* sweeper or retry opens again.
ConfirmedStays ==
  [][\A s \in Sources :
       /\ row[s].status = "confirmed" =>
            row'[s].status \in {"confirmed", "superseded", "deleted"}
       /\ row[s].status = "superseded" =>
            row'[s].status \in {"superseded", "deleted"}
       /\ row[s].status \in {"confirmed", "superseded"}
            /\ row'[s].status # "deleted" => proposal'[s] = proposal[s]]_vars

\* What an import or its owner settled stands.
ResultsStand == ImplementsLease /\ ConfirmedStays

\* A topic enters the library once, whoever adds it at the same time.
OneCardPerTopic == \A t \in Topics : cards[t] <= 1

\* Every upload comes to a result the learner can act on, whichever workers died
\* or stalled on it.
ImportSettles ==
  \A s \in Sources :
    row[s].status \in Unfinished ~> row[s].status \notin Unfinished

\* No confirmation waits for ever, not even for its own successor's.
ConfirmEnds ==
  \A c \in Confirms : confirm[c].stage # "idle" ~> confirm[c].stage = "idle"

\* Nothing that was begun is left hanging.
ImportsEnd == ImportSettles /\ ConfirmEnds

\* "must not retain another verbatim copy after the user deletes the upload":
\* no draft holds the text of a deleted source.
NoCopyAfterDelete ==
  \A d \in Drafts : draftOf[d] # None => row[draftOf[d]].status # "deleted"
=============================================================================
