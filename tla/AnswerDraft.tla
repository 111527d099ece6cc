---------------------------- MODULE AnswerDraft ----------------------------
(***************************************************************************)
(* The answer a learner is giving, on the phone: the text on the screen,   *)
(* the draft file (DraftStore.swift) and the uploads of AppState.swift,    *)
(* over the endpoints of one review.  The code runs on the main actor, so  *)
(* a step ends where it awaits.                                            *)
(*                                                                         *)
(* Words name the turn they were said for and their place among its texts. *)
(* A task is a call to the server from the moment it is scheduled.  A call *)
(* that fails was processed or never will be, except for an answer whose   *)
(* app has died.                                                           *)
(***************************************************************************)
EXTENDS Naturals, Sequences

CONSTANTS
    Silence,     \* the empty text, no record, no call
    LastTurn,    \* the turn whose answer completes the review
    MaxWords,    \* bound: texts said for one turn
    MaxVisits,   \* bound: times the review is opened
    MaxTasks     \* bound: tasks that are made

VARIABLES
    file,        \* the card's record in drafts.json
    screen,      \* the conversation
    tasks,       \* uploads, clears and answers, in the order they were made
    chain,       \* draftSync: the task of the latest draft, or 0
    submission,  \* submissionPending: the answer being submitted
    resets,      \* starts over, and their retries, that wait for their clear
    remote,      \* the session row: the turn it waits on, its draft and answers
    said,        \* how many texts were said, by turn
    secured,     \* history: the latest words that were saved
    discarded,   \* history: the latest words that were discarded
    mishaps      \* history: the ways in which the order of the calls was lost

phoneVars == <<file, screen, tasks, chain, submission, resets, remote, said,
               secured, discarded, mishaps>>
history == <<secured, discarded, mishaps>>

Words == [turn : 0 .. LastTurn, n : 1 .. MaxWords]
Utterances == Words \cup {Silence}
Records == [turn : 0 .. LastTurn, text : Utterances]                \* Silence: discarded
Screens ==
    [at : {"closed", "loading", "asking", "processing"}, visit : 0 .. MaxVisits,
     turn : 0 .. LastTurn, text : Utterances, start : Records \cup {Silence},
     resumable : BOOLEAN, resetting : BOOLEAN]
CallRecords ==
    [kind : {"upload", "clear", "answer"}, text : Utterances, turn : 0 .. LastTurn,
     after : 0 .. MaxTasks, cancelled : BOOLEAN,
     stage : {"sleep", "wait", "wire", "ok", "failed", "ended"}]
Resets ==
    [by : {"start over", "load"}, task : 1 .. MaxTasks, turn : 0 .. LastTurn,
     visit : 1 .. MaxVisits]
Submissions == [text : Words, turn : 0 .. LastTurn, after : 0 .. MaxTasks, task : 0 .. MaxTasks]
Mishaps == {"resets overlap", "chain breaks", "tombstone goes"}

ASSUME PhoneAssumption ==
    /\ LastTurn \in Nat /\ MaxWords \in Nat /\ MaxVisits \in Nat /\ MaxTasks \in Nat
    /\ Silence \notin Words \cup Records \cup Submissions

PhoneTypeOK ==
    /\ file \in Records \cup {Silence}
    /\ screen \in Screens
    /\ tasks \in Seq(CallRecords)
    /\ chain \in 0 .. Len(tasks) /\ Len(tasks) <= MaxTasks
    /\ submission \in Submissions \cup {Silence}
    /\ resets \subseteq Resets
    /\ remote \in [turn : 0 .. LastTurn + 1, draft : Utterances, answers : [0 .. LastTurn -> Utterances]]
    /\ said \in [0 .. LastTurn -> 0 .. MaxWords]
    /\ secured \in Utterances /\ discarded \in Utterances
    /\ mishaps \subseteq Mishaps

PhoneInit ==
    /\ file = Silence /\ tasks = << >> /\ chain = 0 /\ submission = Silence
    /\ screen = [at |-> "closed", visit |-> 0, turn |-> 0, text |-> Silence,
                 start |-> Silence, resumable |-> FALSE, resetting |-> FALSE]
    /\ resets = {} /\ remote = [turn |-> 0, draft |-> Silence,
                              answers |-> [t \in 0 .. LastTurn |-> Silence]]
    /\ said = [t \in 0 .. LastTurn |-> 0]
    /\ secured = Silence /\ discarded = Silence /\ mishaps = {}

-----------------------------------------------------------------------------
(* The draft file and the tasks.                                           *)

ReadOfAnyTurn(turn) == IF file = Silence THEN Silence ELSE file.text      \* mutant
Read(turn) == IF file # Silence /\ file.turn = turn THEN file.text ELSE Silence
IsDiscarded(turn) == file = [turn |-> turn, text |-> Silence]

After(a, b) == b = Silence \/ a.turn > b.turn \/ (a.turn = b.turn /\ a.n > b.n)
Mishap(name, happens) == mishaps' = IF happens THEN mishaps \cup {name} ELSE mishaps

\* DraftStore.save: the card has one record, and saving nothing removes it,
\* a tombstone too.
Save(text, turn) ==
    /\ file' = IF text = Silence THEN Silence ELSE [turn |-> turn, text |-> text]
    /\ secured' = IF text # Silence /\ After(text, secured) THEN text ELSE secured
    /\ Mishap("tombstone goes", text = Silence /\ IsDiscarded(turn))
    /\ UNCHANGED discarded

Ended(t) == t # 0 => tasks[t].stage \in {"ok", "failed", "ended"}
Cancelled(t) == IF Ended(t) THEN tasks ELSE [tasks EXCEPT ![t].cancelled = TRUE]

Task(kind, text, turn, stage, after) ==
    [kind |-> kind, text |-> text, turn |-> turn, stage |-> stage, after |-> after,
     cancelled |-> FALSE]

\* A task is made, and the one of the draft before it is cancelled.
Launch(task) == Len(tasks) < MaxTasks /\ tasks' = Append(Cancelled(chain), task)
NewTask == Len(tasks) + 1

\* Nobody asks how an upload ended.
Gone == Task("upload", Silence, 0, "ended", 0)
AtEnd(t, stage) ==
    [tasks EXCEPT ![t] = IF @.kind = "upload" THEN Gone ELSE [@ EXCEPT !.stage = stage]]

\* conversationIdentity: the screen owns a session.
Owns(turn) == screen.at \in {"asking", "processing"} /\ screen.turn = turn

-----------------------------------------------------------------------------
(* Opening the review.                                                     *)

\* beginSession, resetForNewCard: not while an answer is being submitted.
OpenReview ==
    /\ screen.at = "closed" /\ submission = Silence
    /\ screen.visit < MaxVisits /\ remote.turn <= LastTurn
    /\ screen' = [at |-> "loading", visit |-> screen.visit + 1, turn |-> 0,
                  text |-> Silence, start |-> Silence, resumable |-> FALSE,
                  resetting |-> FALSE]
    /\ UNCHANGED <<file, tasks, chain, submission, resets, remote, said, history>>

\* start_session returns the turn of the session with its draft, or it fails.
StartReturns ==
    /\ screen.at = "loading" /\ screen.start = Silence
    /\ screen' \in
           {[screen EXCEPT !.at = "closed"]} \cup
           {[screen EXCEPT !.start = [turn |-> t, text |-> remote.draft]] :
                t \in {remote.turn} \ {LastTurn + 1}}
    /\ UNCHANGED <<file, tasks, chain, submission, resets, remote, said, history>>

\* loadCard: the file wins over the server's copy.
LoadText ==
    LET turn == screen.start.turn
        text == IF Read(turn) # Silence THEN Read(turn) ELSE screen.start.text
    IN
    /\ screen.at = "loading" /\ screen.start # Silence /\ ~IsDiscarded(turn)
    /\ screen' = [screen EXCEPT !.at = "asking", !.turn = turn, !.text = text,
                                !.start = Silence, !.resumable = text # Silence]
    /\ UNCHANGED <<file, tasks, chain, submission, resets, remote, said, history>>

\* loadCard: after a start over whose clear did not come through it is tried again
\* before a new answer is enabled.
LoadDiscarded ==
    LET turn == screen.start.turn IN
    /\ screen.at = "loading" /\ screen.start # Silence /\ IsDiscarded(turn)
    /\ Len(tasks) < MaxTasks
    /\ tasks' = Append(tasks, Task("clear", Silence, turn, "wire", 0))
    /\ screen' = [screen EXCEPT !.at = "asking", !.turn = turn, !.text = Silence,
                                !.start = Silence, !.resetting = TRUE]
    /\ resets' = resets \cup {[by |-> "load", task |-> NewTask, turn |-> turn,
                               visit |-> screen.visit]}
    /\ Mishap("resets overlap", resets # {})
    /\ UNCHANGED <<file, chain, submission, remote, said, secured, discarded>>

-----------------------------------------------------------------------------
(* Saying, saving, leaving.                                                *)

\* The editor and the microphone are shut while an answer or a clear is pending.
Mutable == screen.at = "asking" /\ submission = Silence /\ ~screen.resetting

\* updateDraft: a save and an upload are scheduled, in place of those before.
Say ==
    LET turn == screen.turn
        text == [turn |-> turn, n |-> said[turn] + 1]
    IN
    /\ Mutable /\ said[turn] < MaxWords
    /\ said' = [said EXCEPT ![turn] = @ + 1]
    /\ screen' = [screen EXCEPT !.text = text, !.resumable = FALSE]
    /\ Launch(Task("upload", text, turn, "sleep", chain))
    /\ chain' = NewTask
    /\ UNCHANGED <<file, submission, resets, remote, history>>

\* flushDraft: neither over a tombstone that is being cleared nor, with the empty
\* text of a sent answer, over its copy.
Flushes == screen.at = "asking" /\ ~screen.resetting

Flush ==
    \/ ~Flushes /\ UNCHANGED <<file, tasks, chain, history>>
    \/ /\ Flushes /\ submission = Silence
       /\ Save(screen.text, screen.turn)
       /\ Launch(Task("upload", screen.text, screen.turn, "wait", chain))
       /\ chain' = NewTask
    \/ /\ Flushes /\ submission # Silence
       /\ IF screen.text = Silence THEN UNCHANGED <<file, history>>
                                   ELSE Save(screen.text, screen.turn)
       /\ UNCHANGED <<tasks, chain>>

GoToBackground ==
    /\ screen.at # "closed"
    /\ Flush
    /\ UNCHANGED <<screen, submission, resets, remote, said>>

\* preserveAnswerAndStop, finish: an answer on its way keeps going.
CloseReview ==
    /\ screen.at # "closed"
    /\ Flush
    /\ screen' = [screen EXCEPT !.at = "closed", !.start = Silence]
    /\ UNCHANGED <<submission, resets, remote, said>>

\* startOver: the file says so first; the clear waits for the latest upload.
StartOver ==
    LET turn == screen.turn IN
    /\ screen.at \in {"asking", "processing"} /\ screen.resumable /\ ~screen.resetting
    /\ Launch(Task("clear", Silence, turn, "wait", chain))
    /\ chain' = 0
    /\ file' = [turn |-> turn, text |-> Silence]
    /\ screen' = [screen EXCEPT !.text = Silence, !.resumable = FALSE, !.resetting = TRUE]
    /\ resets' = resets \cup {[by |-> "start over", task |-> NewTask, turn |-> turn,
                               visit |-> screen.visit]}
    /\ discarded' = IF submission = Silence THEN screen.text ELSE Silence
    /\ secured' = Silence
    /\ Mishap("resets overlap", resets # {})
    /\ UNCHANGED <<submission, remote, said>>

\* The call of a start over, or of its retry, has returned.  The first resumes
\* whatever is on the screen, the second only on its own visit.
ResetEnds(x) ==
    LET ok == tasks[x.task].stage = "ok"
        mine == Owns(x.turn) /\ (x.by = "load" => screen.visit = x.visit)
    IN
    /\ Ended(x.task)
    /\ resets' = resets \ {x}
    /\ file' = IF ok /\ mine /\ (x.by = "load" \/ screen.text = Silence)
               THEN Silence ELSE file
    /\ screen' = IF x.by = "start over" \/ mine
                 THEN [screen EXCEPT !.resetting = FALSE] ELSE screen
    /\ UNCHANGED <<tasks, chain, submission, remote, said, history>>

-----------------------------------------------------------------------------
(* Submitting.                                                             *)

\* submit, flushDraftForSubmission: the words are saved, uploads are stopped.
Submit ==
    /\ Mutable /\ screen.text # Silence
    /\ submission' = [text |-> screen.text, turn |-> screen.turn, after |-> chain, task |-> 0]
    /\ tasks' = Cancelled(chain) /\ chain' = 0
    /\ Save(screen.text, screen.turn)
    /\ UNCHANGED <<screen, resets, remote, said>>

\* Past the barrier: sendAnswer, unless the screen has moved on.
SendAnswer ==
    /\ submission # Silence /\ submission.task = 0 /\ Ended(submission.after)
    /\ \/ /\ screen.at = "asking" /\ screen.turn = submission.turn
          /\ Len(tasks) < MaxTasks
          /\ tasks' = Append(tasks, Task("answer", submission.text, submission.turn, "wire", 0))
          /\ submission' = [submission EXCEPT !.task = NewTask]
          /\ screen' = [screen EXCEPT !.at = "processing", !.text = Silence]
       \/ /\ ~Owns(submission.turn)
          /\ submission' = Silence
          /\ UNCHANGED <<tasks, screen>>
    /\ UNCHANGED <<file, chain, resets, remote, said, history>>

\* The answer stands, or the words go back on the screen.
AnswerReturns ==
    LET turn == submission.turn
        ok == tasks[submission.task].stage = "ok"
    IN
    /\ submission # Silence /\ submission.task # 0 /\ Ended(submission.task)
    /\ submission' = Silence
    /\ file' = IF ok THEN Silence ELSE file
    /\ screen' =
           IF screen.at = "closed" THEN screen
           ELSE IF ~ok THEN [screen EXCEPT !.at = "asking", !.text = submission.text]
           ELSE IF turn = LastTurn THEN [screen EXCEPT !.at = "closed"]
           ELSE [screen EXCEPT !.at = "asking", !.turn = turn + 1]
    /\ UNCHANGED <<tasks, chain, resets, remote, said, history>>

-----------------------------------------------------------------------------
(* Tasks and the server.                                                   *)

\* syncDraft: a second later the words are saved, unless newer ones came.
Wakes(t) == ~tasks[t].cancelled

Wake(t) ==
    /\ tasks[t].stage = "sleep"
    /\ \/ /\ Wakes(t)
          /\ Save(tasks[t].text, tasks[t].turn)
          /\ tasks' = [tasks EXCEPT ![t].stage = "wait"]
       \/ /\ ~Wakes(t)
          /\ tasks' = AtEnd(t, "ended")
          /\ Mishap("chain breaks", ~Ended(tasks[t].after))
          /\ UNCHANGED <<file, secured, discarded>>
    /\ UNCHANGED <<screen, chain, submission, resets, remote, said>>

\* It goes out when the call before it has returned.
Send(t) ==
    /\ tasks[t].stage = "wait" /\ Ended(tasks[t].after)
    /\ tasks' = IF tasks[t].cancelled THEN AtEnd(t, "ended")
                ELSE [tasks EXCEPT ![t].stage = "wire"]
    /\ UNCHANGED <<file, screen, chain, submission, resets, remote, said, history>>

\* save_draft: 204 whether or not the turn is the current one.
PatchLands(t) ==
    /\ tasks[t].kind \in {"upload", "clear"}
    /\ remote' = IF tasks[t].turn = remote.turn
                 THEN [remote EXCEPT !.draft = tasks[t].text] ELSE remote

\* submit_answer: committed, or the repetition of an answer that was.
AnswerLands(t) ==
    LET turn == tasks[t].turn
        text == tasks[t].text
    IN
    /\ tasks[t].kind = "answer"
    /\ \/ /\ turn = remote.turn
          /\ remote' = [turn |-> turn + 1, draft |-> Silence,
                        answers |-> [remote.answers EXCEPT ![turn] = text]]
       \/ remote.answers[turn] = text /\ UNCHANGED remote

Lands(t) ==
    /\ tasks[t].stage = "wire"
    /\ PatchLands(t) \/ AnswerLands(t)
    /\ \E stage \in {"ok", "failed"} : tasks' = AtEnd(t, stage)
    /\ UNCHANGED <<file, screen, chain, submission, resets, said, history>>

\* The call is refused, or does not come through.
Fails(t) ==
    /\ tasks[t].stage = "wire"
    /\ tasks' = AtEnd(t, "failed")
    /\ UNCHANGED <<file, screen, chain, submission, resets, remote, said, history>>

\* The app is killed.  An answer the server is scoring goes on.
Kill ==
    /\ screen.at # "closed" \/ submission # Silence \/ ~Ended(chain) \/ resets # {}
    /\ screen' = [screen EXCEPT !.at = "closed", !.start = Silence]
    /\ tasks' = [t \in DOMAIN tasks |->
                    IF tasks[t].kind = "answer" THEN tasks[t] ELSE Gone]
    /\ chain' = 0 /\ submission' = Silence /\ resets' = {}
    /\ UNCHANGED <<file, remote, said, history>>

PhoneNext ==
    \/ OpenReview \/ StartReturns \/ LoadText \/ LoadDiscarded
    \/ Say \/ GoToBackground \/ CloseReview \/ StartOver
    \/ \E x \in resets : ResetEnds(x)
    \/ Submit \/ SendAnswer \/ AnswerReturns
    \/ \E t \in DOMAIN tasks : Wake(t) \/ Send(t) \/ Lands(t) \/ Fails(t)
    \/ Kill

PhoneSpec == PhoneInit /\ [][PhoneNext]_phoneVars

-----------------------------------------------------------------------------
(* Properties                                                              *)

\* What is on the screen was said for the turn that is on the screen.
WordsBelong ==
    screen.at = "asking" /\ screen.text # Silence => screen.text.turn = screen.turn

\* Words that were saved are on the screen again when their turn is, or later ones.
Back == screen.at = "asking" /\ secured # Silence /\ secured.turn = screen.turn
WordsReturn == Back => screen.text # Silence /\ ~After(secured, screen.text)

\* Words that were discarded stay away, as long as the calls keep their order.
DiscardedStayAway ==
    screen.at = "asking" /\ screen.text # Silence /\ discarded # Silence =>
        After(screen.text, discarded)

\* The draft of an answer (DraftStore.swift, "losing a spoken answer is the worst
\* failure mode"): right turn, nothing saved is lost, nothing discarded returns.
DraftIsTrue ==
    /\ WordsBelong
    /\ "resets overlap" \notin mishaps => WordsReturn
    /\ mishaps = {} => DiscardedStayAway
=============================================================================
