------------------------- MODULE AnswerDraftProofs -------------------------
(***************************************************************************)
(* For any number of turns, words, visits and tasks: the draft on the      *)
(* phone is true to what was said. The draft is in up to five places (the  *)
(* screen, the file, the uploads on their way, the submission and the      *)
(* session row), and the proof relates them:                               *)
(*   - no place is ahead of the turn the phone is at, which only rises;    *)
(*   - a text that waits to be saved is the one on the screen;             *)
(*   - uploads go out one after the other, and each that can still land    *)
(*     is waited for by whatever the phone sends next;                     *)
(*   - a stale copy on the server is hidden by the file, by its text or by *)
(*     its tombstone, until a clear has replaced it.                       *)
(***************************************************************************)
EXTENDS AnswerDraft, SequenceTheorems, FiniteSetTheorems, TLAPS

-----------------------------------------------------------------------------
(* The inductive invariant                                                 *)

\* Words that were said for the turn, when s counts what was said.
Uttered(w, turn, s) == w # Silence => w \in Words /\ w.turn = turn /\ w.n <= s[turn]

\* Every text, wherever it is kept, was said for the turn it is kept for.
WordsSaid ==
    /\ file # Silence => Uttered(file.text, file.turn, said)
    /\ screen.at = "asking" => Uttered(screen.text, screen.turn, said)
    /\ screen.start # Silence => Uttered(screen.start.text, screen.start.turn, said)
    /\ Uttered(remote.draft, remote.turn, said)
    /\ submission # Silence => Uttered(submission.text, submission.turn, said)
    /\ \A t \in DOMAIN tasks : Uttered(tasks[t].text, tasks[t].turn, said)
    /\ Uttered(secured, secured.turn, said) /\ Uttered(discarded, discarded.turn, said)

\* The turn the phone is at, or will be when it is opened.
Current ==
    IF screen.at \in {"asking", "processing"} THEN screen.turn
    ELSE IF screen.at = "loading" /\ screen.start # Silence THEN screen.start.turn
    ELSE remote.turn

\* The phone has moved on from the turn.
Passed(turn) == turn < Current

\* Nothing belongs to a turn the phone has not come to, nor the phone to one the
\* server has not.
TurnsRise ==
    /\ Current <= remote.turn /\ (screen.at # "closed" => screen.visit # 0)
    /\ \A w \in {secured, discarded} : w # Silence => w.turn <= Current
    /\ \A x \in resets : x.turn <= Current /\ x.visit <= screen.visit
    /\ \A t \in DOMAIN tasks : tasks[t].turn <= Current

\* An answer under submission is what the screen shows, of the latest turn anything
\* was saved for; once sent it is an answer call, and the screen waits for it.
SubmissionSound ==
    /\ screen.at = "processing" => submission # Silence /\ submission.task # 0 /\ screen.text = Silence
    /\ screen.at = "loading" => \A x \in resets : x.visit # screen.visit
    /\ submission # Silence =>
        /\ screen.at # "loading" /\ (screen.at # "closed" => screen.turn = submission.turn)
        /\ \A w \in {secured, discarded} : w # Silence => w.turn <= submission.turn
        /\ \A x \in resets : x.turn <= submission.turn
        /\ screen.at = "asking" => screen.text \in {Silence, submission.text}
        /\ submission.task # 0 =>
            /\ screen.at \in {"processing", "closed"} /\ submission.task \in DOMAIN tasks
            /\ tasks[submission.task].kind = "answer" /\ tasks[submission.task].turn = submission.turn

\* An answer that came through, or is in the transcript, is of a turn the server has
\* left behind.
AnswersSound ==
    /\ \A t \in DOMAIN tasks : tasks[t].kind = "answer" =>
           tasks[t].text # Silence /\ (tasks[t].stage = "ok" => tasks[t].turn < remote.turn)
    /\ \A u \in 0 .. LastTurn : remote.answers[u] # Silence => u < remote.turn

\* A task that uploads a draft.
Upload(t) == t \in DOMAIN tasks /\ tasks[t].kind = "upload"

\* The draft chain and what tasks wait for are uploads made before; resets wait for
\* the clears they made.
ChainSound ==
    /\ chain # 0 => Upload(chain)
    /\ submission # Silence => chain = 0 /\ (submission.after # 0 => Upload(submission.after))
    /\ \A t \in DOMAIN tasks : tasks[t].after < t /\ (tasks[t].after # 0 => Upload(tasks[t].after))
    /\ \A t \in DOMAIN tasks : tasks[t].kind = "clear" => tasks[t].text = Silence
    /\ \A x \in resets : /\ x.task \in DOMAIN tasks /\ tasks[x.task].kind = "clear"
                         /\ tasks[x.task].turn = x.turn

\* A text that waits to be saved is the one on the screen.
SleepersSound ==
    \A t \in DOMAIN tasks : tasks[t].stage = "sleep" =>
        /\ tasks[t].kind = "upload"
        /\ ~tasks[t].cancelled =>
            /\ t = chain /\ screen.at = "asking" /\ ~screen.resetting /\ submission = Silence
            /\ tasks[t].text = screen.text /\ tasks[t].turn = screen.turn

\* Nothing on the screen, nothing in the file.
EmptySound ==
    screen.at = "asking" /\ submission = Silence /\ screen.text = Silence => Read(screen.turn) = Silence

\* No start over has begun while another one was on its way.
OneReset == "resets overlap" \notin mishaps

\* A reset of the turn the phone is at has its tombstone in the file and keeps the
\* editor shut; one that loaded the tombstone left the screen empty.
ResetsSound ==
    /\ \A x, y \in resets : x = y
    /\ \A x \in resets : x.turn = Current =>
           IsDiscarded(x.turn) /\ (screen.at \in {"asking", "processing"} => screen.resetting)
    /\ \A x \in resets : x.by = "load" /\ x.visit = screen.visit /\ Owns(x.turn) =>
           screen.at = "asking" /\ screen.text = Silence /\ submission = Silence

\* The words last saved are in the file until the phone has moved on, and come back.
WordsKept ==
    /\ secured # Silence => file = [turn |-> secured.turn, text |-> secured] \/ Passed(secured.turn)
    /\ WordsReturn
    /\ submission # Silence => secured \in {Silence, submission.text}

\* What holds as long as start overs do not overlap.
KeptInv == ResetsSound /\ WordsKept

\* An upload that can still change the server's copy.
CanLand(t) ==
    /\ Upload(t) /\ tasks[t].stage \in {"sleep", "wait", "wire"} /\ tasks[t].turn = remote.turn

\* Uploads go out one after the other.
InOrder ==
    \A t \in DOMAIN tasks : tasks[t].kind = "upload" =>
        \A b \in 1 .. t-1 : CanLand(b) => tasks[t].stage \in {"sleep", "wait"} /\ b <= tasks[t].after

\* The clear of a start over that waits for upload b and those before.
Awaited(b) ==
    \E x \in resets : /\ x.by = "start over" /\ x.turn = remote.turn
                      /\ tasks[x.task].stage = "wait" /\ b <= tasks[x.task].after

\* Every upload that can still land goes before what the phone sends next: it is in the
\* chain, the submission waits for it, or the clear of a start over does.
Covered ==
    \A b \in DOMAIN tasks : CanLand(b) =>
        \/ b <= chain
        \/ submission # Silence /\ submission.task = 0 /\ b <= submission.after
        \/ Awaited(b)

\* A text said after what was discarded, if both were said.
Fresh(w, d) == w # Silence /\ d # Silence => After(w, d)

\* The file has something to say about the turn.
Holds(turn) == file # Silence /\ file.turn = turn

\* What was discarded is gone: it is in no text that is kept, no upload that can land
\* brings it back but before a clear, and a copy of it on the server is hidden by the file.
DiscardsSound ==
    /\ file # Silence => Fresh(file.text, discarded)
    /\ screen.at = "asking" => Fresh(screen.text, discarded)
    /\ submission # Silence => Fresh(submission.text, discarded)
    /\ \A b \in DOMAIN tasks : CanLand(b) => Fresh(tasks[b].text, discarded) \/ Awaited(b)
    /\ Fresh(remote.draft, discarded) \/ Holds(remote.turn)
    /\ screen.at = "loading" /\ screen.start # Silence =>
           Fresh(screen.start.text, discarded) \/ Holds(screen.start.turn)
    /\ \A x \in resets : tasks[x.task].stage = "ok" /\ x.turn = remote.turn => Fresh(remote.draft, discarded)

\* The inductive invariant. Its last two parts hold only while the mishaps they could
\* not survive have not happened, as DraftIsTrue says.
PhoneInv ==
    /\ PhoneTypeOK /\ WordsSaid /\ TurnsRise /\ SubmissionSound /\ AnswersSound /\ ChainSound
    /\ SleepersSound /\ EmptySound
    /\ OneReset => KeptInv
    /\ mishaps = {} => InOrder /\ Covered /\ DiscardsSound

-----------------------------------------------------------------------------
\* A sequence and an element more.
LEMMA Appended ==
  ASSUME NEW S, NEW s \in Seq(S), NEW e \in S
  PROVE  /\ Append(s, e) \in Seq(S) /\ Len(Append(s, e)) = Len(s) + 1
         /\ DOMAIN Append(s, e) = 1 .. Len(s) + 1 /\ DOMAIN s = 1 .. Len(s) /\ Len(s) \in Nat
         /\ \A i \in 1 .. Len(s) : Append(s, e)[i] = s[i]
         /\ Append(s, e)[Len(s) + 1] = e
  OBVIOUS

\* A sequence with one element changed.
LEMMA Replaced ==
  ASSUME NEW S, NEW s \in Seq(S), NEW i \in DOMAIN s, NEW e \in S
  PROVE  /\ [s EXCEPT ![i] = e] \in Seq(S) /\ Len([s EXCEPT ![i] = e]) = Len(s)
         /\ DOMAIN [s EXCEPT ![i] = e] = DOMAIN s
         /\ \A j \in DOMAIN s : [s EXCEPT ![i] = e][j] = IF j = i THEN e ELSE s[j]
  OBVIOUS

\* Task s[t] may have been cancelled; everything else is as it was.
Alike(c, d) ==
    /\ c.kind = d.kind /\ c.text = d.text /\ c.turn = d.turn /\ c.stage = d.stage
    /\ c.after = d.after

\* A call, cancelled.
LEMMA CallIs ==
  ASSUME NEW c \in CallRecords
  PROVE  /\ c.cancelled \in BOOLEAN /\ Alike(c, c)
         /\ [c EXCEPT !.cancelled = TRUE] \in CallRecords
         /\ Alike([c EXCEPT !.cancelled = TRUE], c)
         /\ [c EXCEPT !.cancelled = TRUE].cancelled = TRUE
  BY DEF CallRecords, Alike

\* The tasks are calls.
LEMMA TasksAre ==
  ASSUME PhoneTypeOK
  PROVE  /\ tasks \in Seq(CallRecords) /\ DOMAIN tasks = 1 .. Len(tasks) /\ Len(tasks) \in Nat
         /\ \A b \in DOMAIN tasks :
               tasks[b] \in CallRecords /\ tasks[b].cancelled \in BOOLEAN /\ Alike(tasks[b], tasks[b])
  <1>1. tasks \in Seq(CallRecords)
    BY DEF PhoneTypeOK
  <1>2. ASSUME NEW b \in DOMAIN tasks
        PROVE  tasks[b] \in CallRecords /\ tasks[b].cancelled \in BOOLEAN /\ Alike(tasks[b], tasks[b])
    <2>1. tasks[b] \in CallRecords
      BY <1>1
    <2> QED
      BY <2>1, CallIs
  <1> QED
    BY <1>1, <1>2

\* Cancelling a task changes nothing else of it, and nothing of the others.
LEMMA CancelledIs ==
  ASSUME PhoneTypeOK, NEW t \in 0 .. Len(tasks)
  PROVE  /\ Cancelled(t) \in Seq(CallRecords) /\ Len(Cancelled(t)) = Len(tasks)
         /\ DOMAIN Cancelled(t) = DOMAIN tasks
         /\ \A b \in DOMAIN tasks :
               /\ Alike(Cancelled(t)[b], tasks[b])
               /\ Cancelled(t)[b].cancelled = (tasks[b].cancelled \/ (b = t /\ ~Ended(t)))
  <1>1. CASE Ended(t)
    BY <1>1, TasksAre DEF Cancelled
  <1>2. CASE ~Ended(t)
    <2>1. t \in DOMAIN tasks
      BY <1>2, TasksAre DEF Ended
    <2> DEFINE e == [tasks[t] EXCEPT !.cancelled = TRUE]
    <2>2. e \in CallRecords /\ Alike(e, tasks[t]) /\ e.cancelled = TRUE
      BY <2>1, TasksAre, CallIs
    <2>3. Cancelled(t) = [tasks EXCEPT ![t] = e]
      BY <1>2, <2>1 DEF Cancelled
    <2> HIDE DEF e
    <2>4. /\ Cancelled(t) \in Seq(CallRecords) /\ Len(Cancelled(t)) = Len(tasks)
          /\ DOMAIN Cancelled(t) = DOMAIN tasks
          /\ \A b \in DOMAIN tasks : Cancelled(t)[b] = IF b = t THEN e ELSE tasks[b]
      BY <2>1, <2>2, <2>3, TasksAre, Replaced
    <2>5. ASSUME NEW b \in DOMAIN tasks
          PROVE  /\ Alike(Cancelled(t)[b], tasks[b])
                 /\ Cancelled(t)[b].cancelled = (tasks[b].cancelled \/ (b = t /\ ~Ended(t)))
      BY <1>2, <2>2, <2>4, TasksAre
    <2> QED
      BY <2>4, <2>5
  <1> QED
    BY <1>1, <1>2

\* A task that is made is a call with the given parts.
LEMMA TaskIs ==
  ASSUME PhoneTypeOK, NEW kind \in {"upload", "clear", "answer"}, NEW text \in Utterances,
         NEW turn \in 0 .. LastTurn, NEW stage \in {"sleep", "wait", "wire", "ended"},
         NEW after \in 0 .. Len(tasks)
  PROVE  /\ Task(kind, text, turn, stage, after) \in CallRecords
         /\ Task(kind, text, turn, stage, after).kind = kind
         /\ Task(kind, text, turn, stage, after).text = text
         /\ Task(kind, text, turn, stage, after).turn = turn
         /\ Task(kind, text, turn, stage, after).stage = stage
         /\ Task(kind, text, turn, stage, after).after = after
         /\ Task(kind, text, turn, stage, after).cancelled = FALSE
  BY PhoneAssumption DEF PhoneTypeOK, Task, CallRecords

\* A task is made; of those before it c may have been cancelled.
Adds(task, c) ==
    /\ tasks' \in Seq(CallRecords) /\ Len(tasks') = Len(tasks) + 1 /\ Len(tasks) < MaxTasks
    /\ DOMAIN tasks = 1 .. Len(tasks) /\ DOMAIN tasks' = 1 .. Len(tasks) + 1
    /\ \A b \in DOMAIN tasks :
           /\ Alike(tasks'[b], tasks[b])
           /\ tasks'[b].cancelled = (tasks[b].cancelled \/ (b = c /\ ~Ended(b)))
    /\ tasks'[NewTask] = task

\* A new upload cancels the latest one.
LEMMA LaunchAdds ==
  ASSUME PhoneTypeOK, NEW task \in CallRecords, Launch(task)
  PROVE  Adds(task, chain)
  <1>1. chain \in 0 .. Len(tasks) /\ Len(tasks) \in Nat /\ DOMAIN tasks = 1 .. Len(tasks)
    BY DEF PhoneTypeOK
  <1> DEFINE s == Cancelled(chain)
  <1>2. /\ s \in Seq(CallRecords) /\ Len(s) = Len(tasks) /\ DOMAIN s = DOMAIN tasks
        /\ \A b \in DOMAIN tasks :
               /\ Alike(s[b], tasks[b])
               /\ s[b].cancelled = (tasks[b].cancelled \/ (b = chain /\ ~Ended(chain)))
    BY <1>1, CancelledIs
  <1>3. Len(tasks) < MaxTasks /\ tasks' = Append(s, task)
    BY DEF Launch
  <1> HIDE DEF s
  <1> QED
    BY <1>1, <1>2, <1>3, Appended DEF Adds, NewTask

\* Other tasks cancel none.
LEMMA AppendAdds ==
  ASSUME PhoneTypeOK, NEW task \in CallRecords, Len(tasks) < MaxTasks, tasks' = Append(tasks, task)
  PROVE  Adds(task, 0)
  BY TasksAre, Appended DEF Adds, NewTask

\* Task t goes to another stage, or is forgotten.
Advances(t, stage) ==
    /\ tasks' \in Seq(CallRecords) /\ Len(tasks') = Len(tasks) /\ t \in DOMAIN tasks
    /\ DOMAIN tasks = 1 .. Len(tasks) /\ DOMAIN tasks' = DOMAIN tasks
    /\ \A b \in DOMAIN tasks : b # t => tasks'[b] = tasks[b]
    /\ \/ tasks'[t] = Gone /\ tasks[t].kind = "upload" /\ stage \in {"ok", "failed", "ended"}
       \/ /\ tasks'[t].kind = tasks[t].kind /\ tasks'[t].text = tasks[t].text
          /\ tasks'[t].turn = tasks[t].turn /\ tasks'[t].after = tasks[t].after
          /\ tasks'[t].cancelled = tasks[t].cancelled /\ tasks'[t].stage = stage
          /\ stage \in {"wait", "wire"} \/ tasks[t].kind # "upload"

\* What is left of a task that is over.
LEMMA GoneIs ==
  ASSUME PhoneTypeOK
  PROVE  /\ Gone \in CallRecords /\ Gone.kind = "upload" /\ Gone.text = Silence /\ Gone.turn = 0
         /\ Gone.stage = "ended" /\ Gone.after = 0 /\ Gone.cancelled = FALSE
  <1>1. Silence \in Utterances /\ 0 \in 0 .. LastTurn /\ 0 \in 0 .. Len(tasks)
    BY PhoneAssumption DEF PhoneTypeOK, Utterances
  <1> DEFINE g == Task("upload", Silence, 0, "ended", 0)
  <1>2. /\ g \in CallRecords /\ g.kind = "upload" /\ g.text = Silence /\ g.turn = 0
        /\ g.stage = "ended" /\ g.after = 0 /\ g.cancelled = FALSE
    BY <1>1, PhoneAssumption DEF Task, CallRecords, PhoneTypeOK
  <1> QED
    BY <1>2 DEF Gone

\* A task that changes its stage, or ends, leaves the others alone.
LEMMA StageAdvances ==
  ASSUME PhoneTypeOK, NEW t \in DOMAIN tasks,
         NEW stage \in {"sleep", "wait", "wire", "ok", "failed", "ended"},
         \/ tasks' = AtEnd(t, stage) /\ stage \in {"ok", "failed", "ended"}
         \/ tasks' = [tasks EXCEPT ![t].stage = stage] /\ stage \in {"wait", "wire"}
  PROVE  Advances(t, stage)
  <1>1. tasks \in Seq(CallRecords) /\ tasks[t] \in CallRecords
    BY DEF PhoneTypeOK
  <1> DEFINE e == [tasks[t] EXCEPT !.stage = stage]
  <1>2. /\ e \in CallRecords /\ e.kind = tasks[t].kind /\ e.text = tasks[t].text
        /\ e.turn = tasks[t].turn /\ e.after = tasks[t].after /\ e.stage = stage
        /\ e.cancelled = tasks[t].cancelled
    BY <1>1 DEF CallRecords
  <1>3. CASE tasks' = [tasks EXCEPT ![t] = e] /\ (stage \in {"wait", "wire"} \/ tasks[t].kind # "upload")
    <2> HIDE DEF e
    <2> QED
      BY <1>1, <1>2, <1>3, Replaced DEF Advances
  <1>4. CASE tasks' = [tasks EXCEPT ![t] = Gone] /\ tasks[t].kind = "upload" /\ stage \in {"ok", "failed", "ended"}
    BY <1>1, <1>4, GoneIs, Replaced DEF Advances
  <1> QED
    BY <1>1, <1>3, <1>4 DEF AtEnd

\* A mishap that happens is noted.
LEMMA MishapIs ==
  ASSUME mishaps \subseteq Mishaps, NEW name \in Mishaps, NEW happens, Mishap(name, happens)
  PROVE  mishaps' \subseteq Mishaps /\ mishaps \subseteq mishaps' /\ (happens => name \in mishaps')
  BY DEF Mishap

\* The mishaps there are.
LEMMA MishapNames ==
  "resets overlap" \in Mishaps /\ "chain breaks" \in Mishaps /\ "tombstone goes" \in Mishaps
  BY DEF Mishaps

\* What a save does to the file and to the words last saved.
LEMMA SaveIs ==
  ASSUME PhoneTypeOK, NEW text \in Utterances, NEW turn \in 0 .. LastTurn, Save(text, turn)
  PROVE  /\ file' \in Records \cup {Silence} /\ secured' \in Utterances /\ discarded' = discarded
         /\ mishaps \subseteq mishaps' /\ mishaps' \subseteq Mishaps
         /\ text = Silence => file' = Silence /\ secured' = secured
         /\ text # Silence => file' = [turn |-> turn, text |-> text] /\ file' # Silence
                              /\ file'.turn = turn /\ file'.text = text
                              /\ secured' = IF After(text, secured) THEN text ELSE secured
         /\ text = Silence /\ IsDiscarded(turn) => "tombstone goes" \in mishaps'
  <1>1. mishaps \subseteq Mishaps /\ secured \in Utterances
    BY DEF PhoneTypeOK
  <1>2. /\ mishaps \subseteq mishaps' /\ mishaps' \subseteq Mishaps
        /\ text = Silence /\ IsDiscarded(turn) => "tombstone goes" \in mishaps'
    BY <1>1, MishapIs, MishapNames DEF Save
  <1>3. [turn |-> turn, text |-> text] \in Records
    BY DEF Records
  <1>4. [turn |-> turn, text |-> text] # Silence
    BY <1>3, PhoneAssumption
  <1>5. /\ file' = IF text = Silence THEN Silence ELSE [turn |-> turn, text |-> text]
        /\ secured' = IF text # Silence /\ After(text, secured) THEN text ELSE secured
        /\ discarded' = discarded
    BY DEF Save
  <1> QED
    BY <1>1, <1>2, <1>3, <1>4, <1>5

\* A task that is added keeps the types.
LEMMA AddsTypes ==
  ASSUME PhoneTypeOK, NEW task, NEW c, Adds(task, c)
  PROVE  /\ tasks' \in Seq(CallRecords) /\ Len(tasks') <= MaxTasks
         /\ 0 .. Len(tasks) \subseteq 0 .. Len(tasks') /\ NewTask \in 1 .. MaxTasks
         /\ NewTask \in 0 .. Len(tasks')
  BY TasksAre, PhoneAssumption DEF Adds, NewTask

\* The parts of the screen.
LEMMA ScreenIs ==
  ASSUME PhoneTypeOK
  PROVE  /\ screen.at \in {"closed", "loading", "asking", "processing"}
         /\ screen.visit \in 0 .. MaxVisits /\ screen.turn \in 0 .. LastTurn
         /\ screen.text \in Utterances /\ screen.start \in Records \cup {Silence}
         /\ screen.resumable \in BOOLEAN /\ screen.resetting \in BOOLEAN
  <1>1. screen \in Screens
    BY DEF PhoneTypeOK
  <1> QED
    BY <1>1 DEF Screens

\* The parts of the type invariant, one by one.
LEMMA PartsAre ==
  ASSUME PhoneTypeOK
  PROVE  /\ file \in Records \cup {Silence} /\ screen \in Screens /\ tasks \in Seq(CallRecords)
         /\ chain \in 0 .. Len(tasks) /\ Len(tasks) <= MaxTasks /\ Len(tasks) \in Nat
         /\ submission \in Submissions \cup {Silence} /\ resets \subseteq Resets
         /\ said \in [0 .. LastTurn -> 0 .. MaxWords]
         /\ secured \in Utterances /\ discarded \in Utterances /\ mishaps \subseteq Mishaps
         /\ remote.turn \in 0 .. LastTurn + 1 /\ remote.draft \in Utterances
         /\ remote.answers \in [0 .. LastTurn -> Utterances]
         /\ Silence \in Utterances /\ Words \subseteq Utterances
         /\ 0 .. LastTurn \subseteq Nat /\ 0 \in 0 .. LastTurn
  BY TasksAre, PhoneAssumption DEF PhoneTypeOK, Utterances

\* An upload that follows the latest task of the draft is a task.
LEMMA UploadIs ==
  ASSUME PhoneTypeOK, NEW text \in Utterances, NEW turn \in 0 .. LastTurn, NEW stage \in {"sleep", "wait"}
  PROVE  Task("upload", text, turn, stage, chain) \in CallRecords
  <1>1. chain \in 0 .. MaxTasks
    BY PhoneAssumption DEF PhoneTypeOK
  <1> QED
    BY <1>1 DEF Task, CallRecords

\* So is an upload of what is on the screen.
LEMMA ScreenUploadIs ==
  ASSUME PhoneTypeOK
  PROVE  Task("upload", screen.text, screen.turn, "wait", chain) \in CallRecords
  <1>1. screen.text \in Utterances /\ screen.turn \in 0 .. LastTurn
    BY ScreenIs
  <1>2. "wait" \in {"sleep", "wait"}
    OBVIOUS
  <1> QED
    BY <1>1, <1>2, UploadIs, Zenon

\* The types after the screen is flushed.
LEMMA FlushTypes ==
  ASSUME PhoneTypeOK, Flush
  PROVE  /\ file' \in Records \cup {Silence} /\ tasks' \in Seq(CallRecords) /\ Len(tasks') <= MaxTasks
         /\ chain' \in 0 .. Len(tasks') /\ 0 .. Len(tasks) \subseteq 0 .. Len(tasks')
         /\ secured' \in Utterances /\ discarded' \in Utterances /\ mishaps' \subseteq Mishaps
  <1>1. CASE UNCHANGED <<file, tasks, chain, history>>
    BY <1>1, PartsAre DEF history
  <1>2. CASE /\ Save(screen.text, screen.turn)
             /\ Launch(Task("upload", screen.text, screen.turn, "wait", chain))
             /\ chain' = NewTask
    <2>1. Task("upload", screen.text, screen.turn, "wait", chain) \in CallRecords
      BY ScreenUploadIs
    <2>2. Adds(Task("upload", screen.text, screen.turn, "wait", chain), chain)
      BY <1>2, <2>1, LaunchAdds
    <2> QED
      BY <1>2, <2>2, AddsTypes, PartsAre, ScreenIs, SaveIs
  <1>3. CASE UNCHANGED <<tasks, chain>> /\ (UNCHANGED <<file, history>> \/ Save(screen.text, screen.turn))
    BY <1>3, PartsAre, ScreenIs, SaveIs DEF history
  <1> QED
    BY <1>1, <1>2, <1>3 DEF Flush

-----------------------------------------------------------------------------
(* What each step does to the screen.                                      *)

\* What a step leaves of the screen.
SameTurn == screen'.turn = screen.turn /\ screen'.visit = screen.visit
\* and of its text.
SameText == screen'.text = screen.text /\ screen'.resumable = screen.resumable

\* The screen when the review is opened.
LEMMA OpenReviewIs ==
  ASSUME PhoneTypeOK, OpenReview
  PROVE  /\ screen' \in Screens /\ screen'.at = "loading" /\ screen'.visit = screen.visit + 1
         /\ screen'.text = Silence /\ screen'.start = Silence /\ screen'.resetting = FALSE
  BY PartsAre, ScreenIs, PhoneAssumption DEF OpenReview, Screens

\* The screen when the server's session has come.
LEMMA StartReturnsIs ==
  ASSUME PhoneTypeOK, StartReturns
  PROVE  /\ screen' \in Screens /\ SameTurn /\ screen'.resetting = screen.resetting
         /\ SameText
         /\ \/ screen'.at = "closed" /\ screen'.start = Silence
            \/ /\ screen'.at = "loading" /\ screen'.start # Silence
               /\ screen'.start.turn = remote.turn /\ screen'.start.text = remote.draft
               /\ remote.turn \in 0 .. LastTurn
  <1>1. CASE screen' = [screen EXCEPT !.at = "closed"]
    BY <1>1, PartsAre, ScreenIs DEF StartReturns, Screens, SameTurn, SameText
  <1>2. CASE \E t \in {remote.turn} \ {LastTurn + 1} :
                screen' = [screen EXCEPT !.start = [turn |-> t, text |-> remote.draft]]
    <2> DEFINE r == [turn |-> remote.turn, text |-> remote.draft]
    <2>1. remote.turn \in 0 .. LastTurn /\ screen' = [screen EXCEPT !.start = r]
      <3>1. remote.turn # LastTurn + 1 /\ screen' = [screen EXCEPT !.start = r]
        BY <1>2
      <3>2. remote.turn \in 0 .. LastTurn + 1 /\ LastTurn \in Nat
        BY PartsAre, PhoneAssumption
      <3> HIDE DEF r
      <3> QED
        BY <3>1, <3>2
    <2>2. r \in Records /\ r # Silence /\ r.turn = remote.turn /\ r.text = remote.draft
      BY <2>1, PartsAre, PhoneAssumption DEF Records
    <2>3. screen.at = "loading"
      BY DEF StartReturns
    <2> HIDE DEF r
    <2> QED
      BY <2>1, <2>2, <2>3, PartsAre, ScreenIs DEF Screens, SameTurn, SameText
  <1> QED
    BY <1>1, <1>2 DEF StartReturns

\* What the review is opened with.
LEMMA StartIs ==
  ASSUME PhoneTypeOK, screen.start # Silence
  PROVE  screen.start.turn \in 0 .. LastTurn /\ screen.start.text \in Utterances
  BY ScreenIs DEF Records

\* The parts of the file.
LEMMA FileIs ==
  ASSUME PhoneTypeOK, file # Silence
  PROVE  file.turn \in 0 .. LastTurn /\ file.text \in Utterances /\ file = [turn |-> file.turn, text |-> file.text]
  BY PartsAre DEF Records

\* The screen with the text it is loaded with: the file's before the server's.
LEMMA LoadTextIs ==
  ASSUME PhoneTypeOK, LoadText
  PROVE  /\ screen' \in Screens /\ screen'.at = "asking" /\ screen'.turn = screen.start.turn
         /\ screen'.text = IF Read(screen.start.turn) # Silence THEN Read(screen.start.turn)
                                                               ELSE screen.start.text
         /\ screen'.start = Silence /\ screen'.visit = screen.visit
         /\ screen'.resetting = screen.resetting
  <1> DEFINE turn == screen.start.turn
             text == IF Read(turn) # Silence THEN Read(turn) ELSE screen.start.text
  <1>1. turn \in 0 .. LastTurn /\ screen.start.text \in Utterances
    BY StartIs DEF LoadText
  <1>2. Read(turn) \in Utterances
    BY FileIs, PartsAre DEF Read
  <1>3. text \in Utterances /\ screen \in Screens
    BY <1>1, <1>2, PartsAre
  <1>4. screen' = [screen EXCEPT !.at = "asking", !.turn = turn, !.text = text,
                                !.start = Silence, !.resumable = text # Silence]
    BY DEF LoadText
  <1> HIDE DEF turn, text
  <1>5. /\ screen' \in Screens /\ screen'.at = "asking" /\ screen'.turn = turn /\ screen'.text = text
        /\ screen'.start = Silence /\ screen'.visit = screen.visit /\ screen'.resetting = screen.resetting
    BY <1>1, <1>3, <1>4 DEF Screens
  <1> QED
    BY <1>5 DEF turn, text

\* The screen when the tombstone is loaded.
LEMMA LoadDiscardedIs ==
  ASSUME PhoneTypeOK, LoadDiscarded
  PROVE  /\ screen' \in Screens /\ screen'.at = "asking" /\ screen'.turn = screen.start.turn
         /\ screen'.text = Silence /\ screen'.start = Silence /\ screen'.visit = screen.visit
         /\ screen'.resetting = TRUE
  <1> DEFINE turn == screen.start.turn
  <1>1. turn \in 0 .. LastTurn
    BY StartIs DEF LoadDiscarded
  <1>2. screen' = [screen EXCEPT !.at = "asking", !.turn = turn, !.text = Silence,
                                !.start = Silence, !.resetting = TRUE]
    BY DEF LoadDiscarded
  <1> HIDE DEF turn
  <1>3. /\ screen' \in Screens /\ screen'.at = "asking" /\ screen'.turn = turn
        /\ screen'.text = Silence /\ screen'.start = Silence /\ screen'.visit = screen.visit
        /\ screen'.resetting = TRUE
    BY <1>1, <1>2, PartsAre DEF Screens
  <1> QED
    BY <1>3 DEF turn

\* The screen and the count of what was said, after one more word.
LEMMA SayIs ==
  ASSUME PhoneTypeOK, Say, NEW text, text = [turn |-> screen.turn, n |-> said[screen.turn] + 1]
  PROVE  /\ screen' \in Screens /\ screen'.text = text /\ SameTurn /\ screen'.at = screen.at
         /\ screen'.start = screen.start /\ screen'.resetting = screen.resetting
         /\ text \in Words /\ text # Silence /\ text.turn = screen.turn /\ text.n = said[screen.turn] + 1
         /\ said' = [said EXCEPT ![screen.turn] = @ + 1] /\ said' \in [0 .. LastTurn -> 0 .. MaxWords]
         /\ \A t \in 0 .. LastTurn : said[t] <= said'[t]
         /\ said'[screen.turn] = said[screen.turn] + 1
  <1>1. said[screen.turn] < MaxWords /\ said[screen.turn] \in Nat /\ screen.turn \in 0 .. LastTurn
    BY PartsAre, ScreenIs DEF Say
  <1>2. text \in Words /\ text.turn = screen.turn /\ text.n = said[screen.turn] + 1
    BY <1>1, PhoneAssumption DEF Words
  <1>3. text \in Utterances /\ text # Silence
    BY <1>2, PhoneAssumption DEF Utterances
  <1>4. screen' = [screen EXCEPT !.text = text, !.resumable = FALSE]
    BY DEF Say
  <1>5. /\ screen' \in Screens /\ screen'.text = text /\ SameTurn /\ screen'.at = screen.at
        /\ screen'.start = screen.start /\ screen'.resetting = screen.resetting
    BY <1>3, <1>4, PartsAre DEF Screens, SameTurn
  <1>6. said' = [said EXCEPT ![screen.turn] = @ + 1] /\ said \in [0 .. LastTurn -> 0 .. MaxWords]
    BY PartsAre DEF Say
  <1>7. /\ said' \in [0 .. LastTurn -> 0 .. MaxWords] /\ \A t \in 0 .. LastTurn : said[t] <= said'[t]
        /\ said'[screen.turn] = said[screen.turn] + 1
    BY <1>1, <1>6, PhoneAssumption
  <1> QED
    BY <1>2, <1>3, <1>5, <1>6, <1>7

\* The screen when the review is closed.
LEMMA ClosedIs ==
  ASSUME PhoneTypeOK, screen' = [screen EXCEPT !.at = "closed", !.start = Silence]
  PROVE  /\ screen' \in Screens /\ screen'.at = "closed" /\ screen'.start = Silence
         /\ SameTurn /\ SameText /\ screen'.resetting = screen.resetting
  BY PartsAre DEF Screens, SameTurn, SameText

\* The screen and the file at a start over.
LEMMA StartOverIs ==
  ASSUME PhoneTypeOK, StartOver
  PROVE  /\ screen' \in Screens /\ screen'.text = Silence /\ screen'.resetting = TRUE /\ SameTurn
         /\ screen'.at = screen.at /\ screen'.start = screen.start
         /\ file' = [turn |-> screen.turn, text |-> Silence] /\ file' \in Records /\ file' # Silence
         /\ file'.turn = screen.turn /\ file'.text = Silence
  <1>1. /\ screen' \in Screens /\ screen'.text = Silence /\ screen'.resetting = TRUE /\ SameTurn
        /\ screen'.at = screen.at /\ screen'.start = screen.start
    BY PartsAre DEF StartOver, Screens, SameTurn
  <1>2. file' = [turn |-> screen.turn, text |-> Silence] /\ file' \in Records
    BY PartsAre, ScreenIs DEF StartOver, Records
  <1> QED
    BY <1>1, <1>2, PhoneAssumption

\* The screen and the file when a reset has ended.
LEMMA ResetEndsIs ==
  ASSUME PhoneTypeOK, NEW x \in resets, ResetEnds(x)
  PROVE  /\ screen' \in Screens /\ SameTurn /\ SameText /\ screen'.at = screen.at
         /\ screen'.start = screen.start
         /\ screen'.resetting = IF x.by = "start over" \/ (Owns(x.turn) /\ screen.visit = x.visit)
                                THEN FALSE ELSE screen.resetting
         /\ file' \in {file, Silence} /\ resets' = resets \ {x}
         /\ file' # file => /\ tasks[x.task].stage = "ok" /\ Owns(x.turn)
                            /\ IF x.by = "load" THEN screen.visit = x.visit ELSE screen.text = Silence
  <1>1. x.by \in {"start over", "load"} /\ screen \in Screens
    BY PartsAre DEF Resets
  <1>2. \/ screen' = screen /\ x.by # "start over" /\ ~(Owns(x.turn) /\ screen.visit = x.visit)
        \/ /\ screen' = [screen EXCEPT !.resetting = FALSE]
           /\ x.by = "start over" \/ (Owns(x.turn) /\ screen.visit = x.visit)
    BY <1>1 DEF ResetEnds
  <1>3. /\ screen' \in Screens /\ SameTurn /\ SameText /\ screen'.at = screen.at
        /\ screen'.start = screen.start
        /\ screen'.resetting = IF x.by = "start over" \/ (Owns(x.turn) /\ screen.visit = x.visit)
                               THEN FALSE ELSE screen.resetting
    BY <1>1, <1>2 DEF Screens, SameTurn, SameText
  <1>4. /\ file' \in {file, Silence} /\ resets' = resets \ {x}
        /\ file' # file => /\ tasks[x.task].stage = "ok" /\ Owns(x.turn)
                           /\ IF x.by = "load" THEN screen.visit = x.visit ELSE screen.text = Silence
    BY <1>1 DEF ResetEnds
  <1> QED
    BY <1>3, <1>4

\* The parts of a submission.
LEMMA SubmissionIs ==
  ASSUME PhoneTypeOK, submission # Silence
  PROVE  /\ submission.text \in Words /\ submission.text \in Utterances /\ submission.text # Silence
         /\ submission.turn \in 0 .. LastTurn /\ submission.after \in 0 .. MaxTasks
         /\ submission.task \in 0 .. MaxTasks
  <1>1. submission \in Submissions
    BY PartsAre
  <1> QED
    BY <1>1, PartsAre, PhoneAssumption DEF Submissions

\* The submission that is made of the screen.
LEMMA SubmitIs ==
  ASSUME PhoneTypeOK, Submit
  PROVE  /\ submission' \in Submissions /\ submission' # Silence /\ submission'.text = screen.text
         /\ submission'.turn = screen.turn /\ submission'.after = chain /\ submission'.task = 0
         /\ screen.text \in Words
  <1>1. screen.text \in Words /\ chain \in 0 .. MaxTasks /\ screen.turn \in 0 .. LastTurn /\ 0 \in 0 .. MaxTasks
    BY PartsAre, ScreenIs, PhoneAssumption DEF Submit, Utterances
  <1>2. submission' = [text |-> screen.text, turn |-> screen.turn, after |-> chain, task |-> 0]
    BY DEF Submit
  <1>3. /\ submission' \in Submissions /\ submission'.text = screen.text
        /\ submission'.turn = screen.turn /\ submission'.after = chain /\ submission'.task = 0
    BY <1>1, <1>2 DEF Submissions
  <1> QED
    BY <1>1, <1>3, PhoneAssumption

\* The answer goes out, or the screen has moved on.
LEMMA SendAnswerIs ==
  ASSUME PhoneTypeOK, SendAnswer
  PROVE  \/ /\ screen.at = "asking" /\ screen.turn = submission.turn
            /\ Len(tasks) < MaxTasks
            /\ tasks' = Append(tasks, Task("answer", submission.text, submission.turn, "wire", 0))
            /\ submission' \in Submissions /\ submission' # Silence
            /\ submission'.text = submission.text /\ submission'.turn = submission.turn
            /\ submission'.after = submission.after /\ submission'.task = NewTask
            /\ screen' \in Screens /\ screen'.at = "processing" /\ screen'.text = Silence
            /\ SameTurn /\ screen'.start = screen.start /\ screen'.resetting = screen.resetting
         \/ ~Owns(submission.turn) /\ submission' = Silence /\ UNCHANGED <<tasks, screen>>
  <1>1. CASE ~Owns(submission.turn) /\ submission' = Silence /\ UNCHANGED <<tasks, screen>>
    BY <1>1
  <1>2. CASE /\ screen.at = "asking" /\ screen.turn = submission.turn
             /\ Len(tasks) < MaxTasks
             /\ tasks' = Append(tasks, Task("answer", submission.text, submission.turn, "wire", 0))
             /\ submission' = [submission EXCEPT !.task = NewTask]
             /\ screen' = [screen EXCEPT !.at = "processing", !.text = Silence]
    <2>1. submission \in Submissions /\ NewTask \in 0 .. MaxTasks
      BY <1>2, PartsAre, PhoneAssumption DEF SendAnswer, NewTask
    <2>2. /\ submission' \in Submissions
          /\ submission'.text = submission.text /\ submission'.turn = submission.turn
          /\ submission'.after = submission.after /\ submission'.task = NewTask
      BY <1>2, <2>1 DEF Submissions
    <2>3. /\ screen' \in Screens /\ screen'.at = "processing" /\ screen'.text = Silence
          /\ SameTurn /\ screen'.start = screen.start /\ screen'.resetting = screen.resetting
      BY <1>2, PartsAre DEF Screens, SameTurn
    <2> QED
      BY <1>2, <2>2, <2>3, PhoneAssumption
  <1> QED
    BY <1>1, <1>2 DEF SendAnswer

\* The screen and the file when the answer has come back.
LEMMA AnswerReturnsIs ==
  ASSUME PhoneTypeOK, AnswerReturns, NEW ok, ok = (tasks[submission.task].stage = "ok")
  PROVE  /\ submission' = Silence /\ screen' \in Screens /\ screen'.visit = screen.visit
         /\ screen'.start = screen.start /\ screen'.resetting = screen.resetting
         /\ file' = IF ok THEN Silence ELSE file
         /\ screen.at = "closed" => screen'.at = "closed" /\ screen'.turn = screen.turn
         /\ screen.at # "closed" /\ ~ok =>
                screen'.at = "asking" /\ screen'.text = submission.text /\ screen'.turn = screen.turn
         /\ screen.at # "closed" /\ ok /\ submission.turn = LastTurn => screen'.at = "closed"
         /\ screen.at # "closed" /\ ok /\ submission.turn # LastTurn =>
                /\ screen'.at = "asking" /\ screen'.turn = submission.turn + 1
                /\ screen'.text = screen.text
  <1> DEFINE turn == submission.turn
  <1>1. /\ turn \in 0 .. LastTurn /\ submission.text \in Utterances /\ screen \in Screens
        /\ turn # LastTurn => turn + 1 \in 0 .. LastTurn
    BY SubmissionIs, PartsAre, PhoneAssumption DEF AnswerReturns
  <1>2. screen' =
           IF screen.at = "closed" THEN screen
           ELSE IF ~ok THEN [screen EXCEPT !.at = "asking", !.text = submission.text]
           ELSE IF turn = LastTurn THEN [screen EXCEPT !.at = "closed"]
           ELSE [screen EXCEPT !.at = "asking", !.turn = turn + 1]
    BY DEF AnswerReturns
  <1>3. CASE screen.at = "closed"
    BY <1>1, <1>2, <1>3 DEF AnswerReturns, Screens
  <1>4. CASE screen.at # "closed" /\ ~ok
    BY <1>1, <1>2, <1>4 DEF AnswerReturns, Screens
  <1>5. CASE screen.at # "closed" /\ ok /\ turn = LastTurn
    BY <1>1, <1>2, <1>5 DEF AnswerReturns, Screens
  <1>6. CASE screen.at # "closed" /\ ok /\ turn # LastTurn
    BY <1>1, <1>2, <1>6 DEF AnswerReturns, Screens
  <1> QED
    BY <1>3, <1>4, <1>5, <1>6

\* The server takes the answer of its turn, or has it already.
LEMMA AnswerLandsIs ==
  ASSUME PhoneTypeOK, NEW t \in DOMAIN tasks, AnswerLands(t)
  PROVE  /\ tasks[t].kind = "answer"
         /\ \/ /\ tasks[t].turn = remote.turn /\ remote'.turn = remote.turn + 1
               /\ remote'.draft = Silence /\ remote'.answers \in [0 .. LastTurn -> Utterances]
               /\ \A u \in 0 .. LastTurn : remote'.answers[u] =
                     IF u = remote.turn THEN tasks[t].text ELSE remote.answers[u]
               /\ remote.turn \in 0 .. LastTurn
               /\ remote' = [turn |-> remote'.turn, draft |-> remote'.draft, answers |-> remote'.answers]
            \/ remote' = remote /\ remote.answers[tasks[t].turn] = tasks[t].text
         /\ tasks[t].turn \in 0 .. LastTurn /\ tasks[t].text \in Utterances
  <1>1. tasks[t] \in CallRecords
    BY TasksAre
  <1>2. tasks[t].turn \in 0 .. LastTurn /\ tasks[t].text \in Utterances
    BY <1>1 DEF CallRecords
  <1> DEFINE text == tasks[t].text
             turn == tasks[t].turn
             a == [remote.answers EXCEPT ![turn] = text]
  <1>3. CASE turn = remote.turn /\ remote' = [turn |-> turn + 1, draft |-> Silence, answers |-> a]
    <2>1. a \in [0 .. LastTurn -> Utterances] /\ \A u \in 0 .. LastTurn :
              a[u] = IF u = turn THEN text ELSE remote.answers[u]
      BY <1>2, PartsAre
    <2> HIDE DEF a
    <2>2. /\ remote'.turn = turn + 1 /\ remote'.draft = Silence /\ remote'.answers = a
          /\ remote' = [turn |-> remote'.turn, draft |-> remote'.draft, answers |-> remote'.answers]
      BY <1>3
    <2> QED
      BY <1>2, <1>3, <2>1, <2>2 DEF AnswerLands
  <1>4. CASE remote.answers[turn] = text /\ UNCHANGED remote
    BY <1>2, <1>4 DEF AnswerLands
  <1> QED
    BY <1>3, <1>4 DEF AnswerLands

\* The server takes the draft of its turn.
LEMMA PatchLandsIs ==
  ASSUME PhoneTypeOK, NEW t \in DOMAIN tasks, PatchLands(t)
  PROVE  /\ tasks[t].kind \in {"upload", "clear"}
         /\ remote'.turn = remote.turn /\ remote'.answers = remote.answers
         /\ remote'.draft = IF tasks[t].turn = remote.turn THEN tasks[t].text ELSE remote.draft
         /\ remote' = [turn |-> remote'.turn, draft |-> remote'.draft, answers |-> remote'.answers]
         /\ tasks[t].text \in Utterances
  <1>1. tasks[t] \in CallRecords
    BY TasksAre
  <1>2. tasks[t].text \in Utterances
    BY <1>1 DEF CallRecords
  <1>3. remote \in [turn : 0 .. LastTurn + 1, draft : Utterances, answers : [0 .. LastTurn -> Utterances]]
    BY DEF PhoneTypeOK
  <1> QED
    BY <1>2, <1>3 DEF PatchLands

\* The types, given back part by part.
LEMMA TypesFrom ==
  ASSUME file' \in Records \cup {Silence}, screen' \in Screens, tasks' \in Seq(CallRecords),
         chain' \in 0 .. Len(tasks'), Len(tasks') <= MaxTasks,
         submission' \in Submissions \cup {Silence}, resets' \subseteq Resets,
         remote' \in [turn : 0 .. LastTurn + 1, draft : Utterances, answers : [0 .. LastTurn -> Utterances]],
         said' \in [0 .. LastTurn -> 0 .. MaxWords], secured' \in Utterances, discarded' \in Utterances,
         mishaps' \subseteq Mishaps
  PROVE  PhoneTypeOK'
  BY Zenon DEF PhoneTypeOK

\* The type of the session row, from its parts.
LEMMA RemoteFrom ==
  ASSUME PhoneTypeOK, remote' = [turn |-> remote'.turn, draft |-> remote'.draft, answers |-> remote'.answers],
         remote'.turn \in 0 .. LastTurn + 1, remote'.draft \in Utterances,
         remote'.answers \in [0 .. LastTurn -> Utterances]
  PROVE  remote' \in [turn : 0 .. LastTurn + 1, draft : Utterances, answers : [0 .. LastTurn -> Utterances]]
  OBVIOUS

\* The type of the session row.
LEMMA RemoteIs ==
  ASSUME PhoneTypeOK
  PROVE  remote \in [turn : 0 .. LastTurn + 1, draft : Utterances, answers : [0 .. LastTurn -> Utterances]]
  BY Zenon DEF PhoneTypeOK

\* A task that moves on keeps the types.
LEMMA AdvancesTypes ==
  ASSUME PhoneTypeOK, NEW t, NEW stage, Advances(t, stage)
  PROVE  tasks' \in Seq(CallRecords) /\ Len(tasks') = Len(tasks)
  BY DEF Advances

\* The type of a reset.
LEMMA ResetIs ==
  ASSUME PhoneTypeOK, NEW by \in {"start over", "load"}, NEW task \in 1 .. MaxTasks,
         NEW turn \in 0 .. LastTurn, NEW visit \in 1 .. MaxVisits
  PROVE  [by |-> by, task |-> task, turn |-> turn, visit |-> visit] \in Resets
  BY DEF Resets

\* When the app is killed only the answers it has sent live on.
LEMMA KillIs ==
  ASSUME PhoneTypeOK, Kill
  PROVE  /\ tasks' \in Seq(CallRecords) /\ Len(tasks') = Len(tasks) /\ DOMAIN tasks' = DOMAIN tasks
         /\ \A t \in DOMAIN tasks : tasks'[t] = IF tasks[t].kind = "answer" THEN tasks[t] ELSE Gone
  <1> DEFINE e(t) == IF tasks[t].kind = "answer" THEN tasks[t] ELSE Gone
  <1>1. tasks' = [t \in 1 .. Len(tasks) |-> e(t)] /\ Len(tasks) \in Nat
    BY TasksAre DEF Kill
  <1>2. \A t \in 1 .. Len(tasks) : e(t) \in CallRecords
    BY TasksAre, GoneIs
  <1> HIDE DEF e
  <1>3. /\ tasks' \in Seq(CallRecords) /\ Len(tasks') = Len(tasks) /\ DOMAIN tasks' = 1 .. Len(tasks)
        /\ \A t \in 1 .. Len(tasks) : tasks'[t] = e(t)
    BY <1>1, <1>2
  <1> QED
    BY <1>3, TasksAre DEF e

\* The type of a clear.
LEMMA ClearIs ==
  ASSUME PhoneTypeOK, NEW turn \in 0 .. LastTurn, NEW stage \in {"wait", "wire"}, NEW after \in 0 .. Len(tasks)
  PROVE  Task("clear", Silence, turn, stage, after) \in CallRecords
  BY PartsAre, PhoneAssumption DEF Task, CallRecords

\* The type of an answer call.
LEMMA AnswerIs ==
  ASSUME PhoneTypeOK, submission # Silence
  PROVE  Task("answer", submission.text, submission.turn, "wire", 0) \in CallRecords
  <1>1. 0 \in 0 .. Len(tasks)
    BY PartsAre
  <1> QED
    BY <1>1, SubmissionIs, PartsAre, PhoneAssumption DEF Task, CallRecords

\* An open review has been visited.
LEMMA VisitIs ==
  ASSUME PhoneTypeOK, screen.visit # 0
  PROVE  screen.visit \in 1 .. MaxVisits
  BY ScreenIs, PhoneAssumption

\* Every step keeps the types.
LEMMA TypesStep ==
  ASSUME PhoneTypeOK, screen.at # "closed" => screen.visit # 0, PhoneNext
  PROVE  PhoneTypeOK'
  <1> USE PartsAre, RemoteIs, TypesFrom
  <1>1. CASE OpenReview
    BY <1>1, OpenReviewIs DEF OpenReview, history
  <1>2. CASE StartReturns
    BY <1>2, StartReturnsIs DEF StartReturns, history
  <1>3. CASE LoadText
    BY <1>3, LoadTextIs DEF LoadText, history
  <1>4. CASE LoadDiscarded
    <2>1. screen.start.turn \in 0 .. LastTurn /\ screen.visit \in 1 .. MaxVisits
      BY <1>4, StartIs, VisitIs DEF LoadDiscarded
    <2>2. Adds(Task("clear", Silence, screen.start.turn, "wire", 0), 0)
      <3>1. Task("clear", Silence, screen.start.turn, "wire", 0) \in CallRecords
        BY <2>1, ClearIs
      <3> QED
        BY <1>4, <3>1, AppendAdds DEF LoadDiscarded
    <2>3. NewTask \in 1 .. MaxTasks
      BY <2>2, AddsTypes
    <2>4. [by |-> "load", task |-> NewTask, turn |-> screen.start.turn, visit |-> screen.visit] \in Resets
      BY <2>1, <2>3, ResetIs
    <2>5. resets' \subseteq Resets
      BY <1>4, <2>4 DEF LoadDiscarded
    <2>6. mishaps' \subseteq Mishaps
      BY <1>4, MishapIs, MishapNames DEF LoadDiscarded
    <2> QED
      BY <1>4, <2>2, <2>5, <2>6, AddsTypes, LoadDiscardedIs DEF LoadDiscarded
  <1>5. CASE Say
    <2> DEFINE text == [turn |-> screen.turn, n |-> said[screen.turn] + 1]
    <2>1. text \in Utterances /\ screen' \in Screens /\ said' \in [0 .. LastTurn -> 0 .. MaxWords]
      BY <1>5, SayIs
    <2> HIDE DEF text
    <2>2. Task("upload", text, screen.turn, "sleep", chain) \in CallRecords
      <3>1. screen.turn \in 0 .. LastTurn /\ "sleep" \in {"sleep", "wait"}
        BY ScreenIs
      <3> QED
        BY <2>1, <3>1, UploadIs, Zenon
    <2>3. Adds(Task("upload", text, screen.turn, "sleep", chain), chain)
      BY <1>5, <2>2, LaunchAdds DEF Say, text
    <2> QED
      BY <1>5, <2>1, <2>3, AddsTypes DEF Say, history
  <1>6. CASE GoToBackground
    BY <1>6, FlushTypes DEF GoToBackground
  <1>7. CASE CloseReview
    BY <1>7, FlushTypes, ClosedIs DEF CloseReview
  <1>8. CASE StartOver
    <2>1. screen.turn \in 0 .. LastTurn /\ screen.visit \in 1 .. MaxVisits /\ screen.text \in Utterances
      BY <1>8, ScreenIs, VisitIs DEF StartOver
    <2>2. Task("clear", Silence, screen.turn, "wait", chain) \in CallRecords
      BY <2>1, ClearIs
    <2>3. Adds(Task("clear", Silence, screen.turn, "wait", chain), chain)
      BY <1>8, <2>2, LaunchAdds DEF StartOver
    <2>4. NewTask \in 1 .. MaxTasks
      BY <2>3, AddsTypes
    <2>5. [by |-> "start over", task |-> NewTask, turn |-> screen.turn, visit |-> screen.visit] \in Resets
      BY <2>1, <2>4, ResetIs
    <2>6. resets' \subseteq Resets /\ discarded' \in Utterances /\ secured' \in Utterances
      BY <1>8, <2>1, <2>5 DEF StartOver
    <2>7. mishaps' \subseteq Mishaps
      BY <1>8, MishapIs, MishapNames DEF StartOver
    <2>8. file' \in Records /\ screen' \in Screens
      BY <1>8, StartOverIs
    <2>9. /\ tasks' \in Seq(CallRecords) /\ Len(tasks') <= MaxTasks /\ chain' \in 0 .. Len(tasks')
          /\ UNCHANGED <<submission, remote, said>>
      <3>1. chain' = 0 /\ UNCHANGED <<submission, remote, said>>
        BY <1>8 DEF StartOver
      <3>2. 0 \in 0 .. Len(tasks)
        OBVIOUS
      <3> QED
        BY <2>3, <3>1, <3>2, AddsTypes
    <2> QED
      BY <2>6, <2>7, <2>8, <2>9
  <1>9. ASSUME NEW x \in resets, ResetEnds(x) PROVE PhoneTypeOK'
    BY <1>9, ResetEndsIs DEF ResetEnds, history
  <1>10. CASE Submit
    <2>1. tasks' \in Seq(CallRecords) /\ Len(tasks') = Len(tasks)
      BY <1>10, CancelledIs DEF Submit
    <2>2. /\ file' \in Records \cup {Silence} /\ secured' \in Utterances /\ discarded' = discarded
          /\ mishaps' \subseteq Mishaps
      BY <1>10, SaveIs, ScreenIs DEF Submit
    <2>3. submission' \in Submissions
      BY <1>10, SubmitIs
    <2>4. chain' = 0 /\ UNCHANGED <<screen, resets, remote, said>>
      BY <1>10 DEF Submit
    <2> QED
      BY <2>1, <2>2, <2>3, <2>4
  <1>11. CASE SendAnswer
    <2>1. CASE Len(tasks) < MaxTasks
               /\ tasks' = Append(tasks, Task("answer", submission.text, submission.turn, "wire", 0))
      <3>1. Task("answer", submission.text, submission.turn, "wire", 0) \in CallRecords
        BY <1>11, AnswerIs DEF SendAnswer
      <3>2. Adds(Task("answer", submission.text, submission.turn, "wire", 0), 0)
        BY <2>1, <3>1, AppendAdds
      <3> QED
        BY <1>11, <3>2, AddsTypes, SendAnswerIs DEF SendAnswer, history
    <2> QED
      BY <1>11, <2>1, SendAnswerIs DEF SendAnswer, history
  <1>12. CASE AnswerReturns
    BY <1>12, AnswerReturnsIs DEF AnswerReturns, history
  <1>13. ASSUME NEW t \in DOMAIN tasks, Wake(t) PROVE PhoneTypeOK'
    <2>1. tasks' \in Seq(CallRecords) /\ Len(tasks') = Len(tasks)
      BY <1>13, StageAdvances, AdvancesTypes DEF Wake
    <2>2. tasks[t].text \in Utterances /\ tasks[t].turn \in 0 .. LastTurn
      <3>1. tasks[t] \in CallRecords
        BY TasksAre
      <3> QED
        BY <3>1 DEF CallRecords
    <2>3. CASE Save(tasks[t].text, tasks[t].turn)
      BY <1>13, <2>1, <2>2, <2>3, SaveIs DEF Wake
    <2>4. CASE Mishap("chain breaks", ~Ended(tasks[t].after)) /\ UNCHANGED <<file, secured, discarded>>
      BY <1>13, <2>1, <2>4, MishapIs, MishapNames DEF Wake
    <2> QED
      BY <1>13, <2>3, <2>4 DEF Wake
  <1>14. ASSUME NEW t \in DOMAIN tasks, Send(t) PROVE PhoneTypeOK'
    <2>1. tasks' \in Seq(CallRecords) /\ Len(tasks') = Len(tasks)
      BY <1>14, StageAdvances, AdvancesTypes DEF Send
    <2> QED
      BY <1>14, <2>1 DEF Send, history
  <1>15. ASSUME NEW t \in DOMAIN tasks, Lands(t) PROVE PhoneTypeOK'
    <2>1. tasks' \in Seq(CallRecords) /\ Len(tasks') = Len(tasks)
      BY <1>15, StageAdvances, AdvancesTypes DEF Lands
    <2>2. remote' \in [turn : 0 .. LastTurn + 1, draft : Utterances, answers : [0 .. LastTurn -> Utterances]]
      <3>1. CASE PatchLands(t)
        BY <3>1, PatchLandsIs, RemoteFrom
      <3>2. CASE AnswerLands(t)
        BY <3>2, AnswerLandsIs, RemoteFrom, PhoneAssumption
      <3> QED
        BY <1>15, <3>1, <3>2 DEF Lands
    <2> QED
      BY <1>15, <2>1, <2>2 DEF Lands, history
  <1>16. ASSUME NEW t \in DOMAIN tasks, Fails(t) PROVE PhoneTypeOK'
    <2>1. tasks' \in Seq(CallRecords) /\ Len(tasks') = Len(tasks)
      BY <1>16, StageAdvances, AdvancesTypes DEF Fails
    <2> QED
      BY <1>16, <2>1 DEF Fails, history
  <1>17. CASE Kill
    <2>1. /\ UNCHANGED <<file, remote, said, history>> /\ chain' = 0 /\ submission' = Silence /\ resets' = {}
          /\ screen' = [screen EXCEPT !.at = "closed", !.start = Silence]
      BY <1>17 DEF Kill
    <2> QED
      BY <1>17, <2>1, KillIs, ClosedIs DEF history
  <1> QED
    BY <1>1, <1>2, <1>3, <1>4, <1>5, <1>6, <1>7, <1>8, <1>9, <1>10, <1>11, <1>12, <1>13, <1>14,
       <1>15, <1>16, <1>17 DEF PhoneNext

-----------------------------------------------------------------------------
(* What is anywhere was said.                                              *)

\* Silence was said for every turn.
LEMMA UtteredIs ==
  /\ \A turn, s : Uttered(Silence, turn, s)
  /\ \A w, turn, s : Uttered(w, turn, s) => Uttered(w, w.turn, s)
  BY DEF Uttered

\* What was said stays said.
LEMMA UtteredStays ==
  ASSUME PhoneTypeOK, NEW w, NEW turn \in 0 .. LastTurn, Uttered(w, turn, said),
         said' \in [0 .. LastTurn -> 0 .. MaxWords], \A t \in 0 .. LastTurn : said[t] <= said'[t]
  PROVE  Uttered(w, turn, said')
  BY PartsAre, PhoneAssumption DEF Uttered, Words

\* A new task carries what was said.
LEMMA AddsSaid ==
  ASSUME PhoneTypeOK, NEW task, NEW c, Adds(task, c), NEW s,
         \A t \in DOMAIN tasks : Uttered(tasks[t].text, tasks[t].turn, s),
         Uttered(task.text, task.turn, s)
  PROVE  \A t \in DOMAIN tasks' : Uttered(tasks'[t].text, tasks'[t].turn, s)
  <1>1. ASSUME NEW t \in DOMAIN tasks' PROVE Uttered(tasks'[t].text, tasks'[t].turn, s)
    <2>1. CASE t \in DOMAIN tasks
      BY <2>1 DEF Adds, Alike
    <2>2. CASE t \notin DOMAIN tasks
      <3>1. t = NewTask
        BY <2>2, TasksAre DEF Adds, NewTask
      <3> QED
        BY <3>1 DEF Adds
    <2> QED
      BY <2>1, <2>2
  <1> QED
    BY <1>1

\* A task that moves on carries no other text.
LEMMA AdvancesSaid ==
  ASSUME PhoneTypeOK, NEW n, NEW stage, Advances(n, stage), NEW s,
         \A t \in DOMAIN tasks : Uttered(tasks[t].text, tasks[t].turn, s)
  PROVE  \A t \in DOMAIN tasks' : Uttered(tasks'[t].text, tasks'[t].turn, s)
  BY GoneIs, UtteredIs DEF Advances

\* The parts of a task that is made.
LEMMA TaskText ==
  \A kind, text, turn, stage, after :
     /\ Task(kind, text, turn, stage, after).kind = kind
     /\ Task(kind, text, turn, stage, after).text = text
     /\ Task(kind, text, turn, stage, after).turn = turn
     /\ Task(kind, text, turn, stage, after).stage = stage
     /\ Task(kind, text, turn, stage, after).after = after
     /\ Task(kind, text, turn, stage, after).cancelled = FALSE
  BY DEF Task

\* A save keeps what was said.
LEMMA SaveSaid ==
  ASSUME PhoneTypeOK, NEW text \in Utterances, NEW turn \in 0 .. LastTurn, Save(text, turn),
         Uttered(text, turn, said), Uttered(secured, secured.turn, said)
  PROVE  /\ file' # Silence => Uttered(file'.text, file'.turn, said)
         /\ Uttered(secured', secured'.turn, said)
  <1>1. CASE text = Silence
    BY <1>1, SaveIs
  <1>2. CASE text # Silence
    BY <1>2, SaveIs, UtteredIs
  <1> QED
    BY <1>1, <1>2

\* A save and an upload of what is on the screen.
Flushed ==
    /\ Flushes /\ submission = Silence
    /\ Save(screen.text, screen.turn)
    /\ Adds(Task("upload", screen.text, screen.turn, "wait", chain), chain)
    /\ chain' = NewTask

\* A flush does nothing, saves and uploads, or only saves while an answer is submitted.
LEMMA FlushIs ==
  ASSUME PhoneTypeOK, Flush
  PROVE  \/ UNCHANGED <<file, tasks, chain, history>> /\ (~Flushes \/ screen.text = Silence \/ submission # Silence)
         \/ Flushed
         \/ /\ Flushes /\ submission # Silence /\ screen.text # Silence
            /\ Save(screen.text, screen.turn) /\ UNCHANGED <<tasks, chain>>
  <1>1. CASE /\ Flushes /\ submission = Silence
             /\ Save(screen.text, screen.turn)
             /\ Launch(Task("upload", screen.text, screen.turn, "wait", chain))
             /\ chain' = NewTask
    <2>1. Task("upload", screen.text, screen.turn, "wait", chain) \in CallRecords
      BY ScreenUploadIs
    <2>2. Adds(Task("upload", screen.text, screen.turn, "wait", chain), chain)
      BY <1>1, <2>1, LaunchAdds
    <2> QED
      BY <1>1, <2>2 DEF Flushed
  <1> QED
    BY <1>1 DEF Flush

\* A flush keeps what was said.
LEMMA FlushSaid ==
  ASSUME PhoneTypeOK, WordsSaid, Flush
  PROVE  /\ file' # Silence => Uttered(file'.text, file'.turn, said)
         /\ Uttered(secured', secured'.turn, said) /\ discarded' = discarded
         /\ \A t \in DOMAIN tasks' : Uttered(tasks'[t].text, tasks'[t].turn, said)
  <1>1. CASE UNCHANGED <<file, tasks, chain, history>>
    BY <1>1 DEF WordsSaid, history
  <1>2. CASE Flushed
    <2>1. Uttered(screen.text, screen.turn, said) /\ screen.text \in Utterances /\ screen.turn \in 0 .. LastTurn
      BY <1>2, ScreenIs DEF WordsSaid, Flushed, Flushes
    <2>2. \A t \in DOMAIN tasks' : Uttered(tasks'[t].text, tasks'[t].turn, said)
      BY <1>2, <2>1, AddsSaid, TaskText DEF WordsSaid, Flushed
    <2>3. discarded' = discarded
      BY <1>2 DEF Flushed, Save
    <2> QED
      BY <1>2, <2>1, <2>2, <2>3, SaveSaid DEF WordsSaid, Flushed
  <1>3. CASE Flushes /\ Save(screen.text, screen.turn) /\ UNCHANGED <<tasks, chain>>
    BY <1>3, ScreenIs, SaveSaid DEF WordsSaid, Flushes, Save
  <1> QED
    BY <1>1, <1>2, <1>3, FlushIs

\* Every step keeps texts to the turn they were said for.
LEMMA SaidStep ==
  ASSUME PhoneTypeOK, WordsSaid, TurnsRise, SubmissionSound, PhoneNext
  PROVE  WordsSaid'
  <1> USE UtteredIs DEF WordsSaid
  <1>1. CASE OpenReview
    BY <1>1, OpenReviewIs DEF OpenReview, history
  <1>2. CASE StartReturns
    BY <1>2, StartReturnsIs DEF StartReturns, history
  <1>3. CASE LoadText
    <2>1. Uttered(screen'.text, screen'.turn, said)
      BY <1>3, LoadTextIs DEF LoadText, Read
    <2> QED
      BY <1>3, <2>1, LoadTextIs DEF LoadText, history
  <1>4. CASE LoadDiscarded
    <2>1. screen.start.turn \in 0 .. LastTurn
      BY <1>4, StartIs DEF LoadDiscarded
    <2> DEFINE task == Task("clear", Silence, screen.start.turn, "wire", 0)
    <2>2. task \in CallRecords
      BY <2>1, PartsAre, ClearIs
    <2>3. Adds(task, 0)
      BY <1>4, <2>2, AppendAdds DEF LoadDiscarded
    <2>4. \A t \in DOMAIN tasks' : Uttered(tasks'[t].text, tasks'[t].turn, said)
      BY <2>3, AddsSaid, TaskText
    <2>5. UNCHANGED <<file, submission, remote, said, secured, discarded>>
      BY <1>4 DEF LoadDiscarded
    <2>6. screen'.text = Silence /\ screen'.start = Silence
      BY <1>4, LoadDiscardedIs
    <2> QED
      BY <2>4, <2>5, <2>6
  <1>5. CASE Say
    <2> DEFINE text == [turn |-> screen.turn, n |-> said[screen.turn] + 1]
               task == Task("upload", text, screen.turn, "sleep", chain)
    <2>1. /\ text \in Utterances /\ text # Silence /\ screen.turn \in 0 .. LastTurn
          /\ screen'.text = text /\ screen'.turn = screen.turn /\ screen'.start = screen.start
          /\ said' \in [0 .. LastTurn -> 0 .. MaxWords] /\ \A t \in 0 .. LastTurn : said[t] <= said'[t]
      BY <1>5, SayIs, ScreenIs, PartsAre DEF SameTurn
    <2>2. Uttered(text, screen.turn, said')
      BY <1>5, SayIs, ScreenIs, PartsAre DEF Uttered
    <2>3. task \in CallRecords
      BY <2>1, PartsAre, PhoneAssumption DEF Task, CallRecords
    <2>4. Adds(task, chain)
      BY <1>5, <2>3, LaunchAdds DEF Say
    <2> HIDE DEF text, task
    <2>5. ASSUME NEW t \in DOMAIN tasks PROVE Uttered(tasks[t].text, tasks[t].turn, said')
      <3>1. tasks[t] \in CallRecords
        BY TasksAre
      <3>2. tasks[t].turn \in 0 .. LastTurn
        BY <3>1 DEF CallRecords
      <3> QED
        BY <2>1, <3>2, UtteredStays
    <2>6. task.text = text /\ task.turn = screen.turn
      BY TaskText DEF task
    <2>7. \A t \in DOMAIN tasks' : Uttered(tasks'[t].text, tasks'[t].turn, said')
      BY <2>2, <2>4, <2>5, <2>6, AddsSaid
    <2>8. ASSUME NEW w \in {secured, discarded} PROVE Uttered(w, w.turn, said')
      <3>1. CASE w = Silence
        BY <3>1
      <3>2. CASE w # Silence
        <4>1. w \in Words
          BY <3>2, PartsAre DEF Utterances
        <4>2. w.turn \in 0 .. LastTurn
          BY <4>1 DEF Words
        <4> QED
          BY <2>1, <4>2, UtteredStays
      <3> QED
        BY <3>1, <3>2
    <2>9. /\ file # Silence => Uttered(file.text, file.turn, said')
          /\ screen.start # Silence => Uttered(screen.start.text, screen.start.turn, said')
      BY <2>1, FileIs, StartIs, UtteredStays
    <2>10. Uttered(remote.draft, remote.turn, said')
      <3>1. CASE remote.draft = Silence
        BY <3>1
      <3>2. CASE remote.draft # Silence
        <4>1. remote.draft \in Words /\ remote.draft.turn = remote.turn
          BY <3>2 DEF Uttered
        <4>2. remote.turn \in 0 .. LastTurn
          BY <4>1 DEF Words
        <4> QED
          BY <2>1, <4>2, UtteredStays
      <3> QED
        BY <3>1, <3>2
    <2>11. submission' = Silence /\ UNCHANGED <<file, remote, secured, discarded>>
      BY <1>5 DEF Say, Mutable, history
    <2> QED
      BY <2>1, <2>2, <2>7, <2>8, <2>9, <2>10, <2>11
  <1>6. CASE GoToBackground
    BY <1>6, FlushSaid DEF GoToBackground
  <1>7. CASE CloseReview
    BY <1>7, FlushSaid, ClosedIs DEF CloseReview
  <1>8. CASE StartOver
    <2> DEFINE task == Task("clear", Silence, screen.turn, "wait", chain)
    <2>1. task \in CallRecords
      BY PartsAre, ScreenIs, ClearIs
    <2>2. Adds(task, chain)
      BY <1>8, <2>1, LaunchAdds DEF StartOver
    <2>3. \A t \in DOMAIN tasks' : Uttered(tasks'[t].text, tasks'[t].turn, said)
      <3>1. task.text = Silence
        BY TaskText
      <3> HIDE DEF task
      <3> QED
        BY <2>2, <3>1, AddsSaid
    <2>4. Uttered(discarded', discarded'.turn, said) /\ secured' = Silence
      BY <1>8 DEF StartOver, SubmissionSound
    <2>5. UNCHANGED <<submission, remote, said>>
      BY <1>8 DEF StartOver
    <2> QED
      BY <1>8, <2>3, <2>4, <2>5, StartOverIs
  <1>9. ASSUME NEW x \in resets, ResetEnds(x) PROVE WordsSaid'
    BY <1>9, ResetEndsIs DEF ResetEnds, history, SameTurn, SameText
  <1>10. CASE Submit
    <2>1. screen.at = "asking" /\ UNCHANGED <<screen, resets, remote, said>>
      BY <1>10 DEF Submit, Mutable
    <2>2. Save(screen.text, screen.turn)
      BY <1>10 DEF Submit
    <2>3. \A t \in DOMAIN tasks' : Uttered(tasks'[t].text, tasks'[t].turn, said)
      BY <1>10, PartsAre, CancelledIs DEF Submit, Alike
    <2>4. discarded' = discarded
      BY <2>2 DEF Save
    <2>5. /\ file' # Silence => Uttered(file'.text, file'.turn, said)
          /\ Uttered(secured', secured'.turn, said)
      BY <2>1, <2>2, ScreenIs, SaveSaid
    <2> QED
      BY <1>10, <2>1, <2>3, <2>4, <2>5, SubmitIs
  <1>11. CASE SendAnswer
    <2>1. CASE UNCHANGED <<tasks, screen>> /\ submission' = Silence
      BY <1>11, <2>1 DEF SendAnswer, history
    <2>2. CASE /\ Len(tasks) < MaxTasks /\ screen'.at = "processing"
               /\ tasks' = Append(tasks, Task("answer", submission.text, submission.turn, "wire", 0))
      <3> DEFINE task == Task("answer", submission.text, submission.turn, "wire", 0)
      <3>1. task \in CallRecords
        BY <1>11, AnswerIs DEF SendAnswer
      <3>2. Adds(task, 0)
        BY <2>2, <3>1, AppendAdds
      <3>3. \A t \in DOMAIN tasks' : Uttered(tasks'[t].text, tasks'[t].turn, said)
        BY <1>11, <3>2, AddsSaid, TaskText DEF SendAnswer
      <3> QED
        BY <1>11, <2>2, <3>3, SendAnswerIs DEF SendAnswer, history
    <2> QED
      BY <1>11, <2>1, <2>2, SendAnswerIs
  <1>12. CASE AnswerReturns
    <2>1. screen.at # "closed" => screen.at = "processing" /\ screen.turn = submission.turn /\ screen.text = Silence
      BY <1>12 DEF AnswerReturns, SubmissionSound
    <2>2. screen'.at = "asking" => Uttered(screen'.text, screen'.turn, said)
      BY <1>12, <2>1, AnswerReturnsIs DEF AnswerReturns
    <2> QED
      BY <1>12, <2>2, AnswerReturnsIs DEF AnswerReturns, history
  <1>13. ASSUME NEW t \in DOMAIN tasks, Wake(t) PROVE WordsSaid'
    <2>1. \A b \in DOMAIN tasks' : Uttered(tasks'[b].text, tasks'[b].turn, said)
      BY <1>13, StageAdvances, AdvancesSaid DEF Wake
    <2>2. tasks[t].text \in Utterances /\ tasks[t].turn \in 0 .. LastTurn
      <3>1. tasks[t] \in CallRecords
        BY TasksAre
      <3> QED
        BY <3>1 DEF CallRecords
    <2>3. CASE Save(tasks[t].text, tasks[t].turn)
      BY <1>13, <2>1, <2>2, <2>3, SaveSaid DEF Wake, Save
    <2> QED
      BY <1>13, <2>1, <2>3 DEF Wake
  <1>14. ASSUME NEW t \in DOMAIN tasks, Send(t) PROVE WordsSaid'
    <2>1. \A b \in DOMAIN tasks' : Uttered(tasks'[b].text, tasks'[b].turn, said)
      BY <1>14, StageAdvances, AdvancesSaid DEF Send
    <2> QED
      BY <1>14, <2>1 DEF Send, history
  <1>15. ASSUME NEW t \in DOMAIN tasks, Lands(t) PROVE WordsSaid'
    <2>1. \A b \in DOMAIN tasks' : Uttered(tasks'[b].text, tasks'[b].turn, said)
      BY <1>15, StageAdvances, AdvancesSaid DEF Lands
    <2>2. Uttered(remote'.draft, remote'.turn, said)
      BY <1>15, PatchLandsIs, AnswerLandsIs DEF Lands
    <2> QED
      BY <1>15, <2>1, <2>2 DEF Lands, history
  <1>16. ASSUME NEW t \in DOMAIN tasks, Fails(t) PROVE WordsSaid'
    <2>1. \A b \in DOMAIN tasks' : Uttered(tasks'[b].text, tasks'[b].turn, said)
      BY <1>16, StageAdvances, AdvancesSaid DEF Fails
    <2> QED
      BY <1>16, <2>1 DEF Fails, history
  <1>17. CASE Kill
    <2>1. /\ UNCHANGED <<file, remote, said, secured, discarded>> /\ submission' = Silence
          /\ screen' = [screen EXCEPT !.at = "closed", !.start = Silence]
      BY <1>17 DEF Kill, history
    <2>2. \A b \in DOMAIN tasks' : Uttered(tasks'[b].text, tasks'[b].turn, said)
      BY <1>17, KillIs, GoneIs
    <2> QED
      BY <2>1, <2>2, ClosedIs
  <1> QED
    BY <1>1, <1>2, <1>3, <1>4, <1>5, <1>6, <1>7, <1>8, <1>9, <1>10, <1>11, <1>12, <1>13, <1>14,
       <1>15, <1>16, <1>17 DEF PhoneNext

-----------------------------------------------------------------------------
(* What each step does to the tasks.                                       *)

\* The new task has the next number.
LEMMA MadeIs ==
  ASSUME NEW kind, NEW text, NEW turn, NEW stage, NEW after, NEW c,
         Adds(Task(kind, text, turn, stage, after), c)
  PROVE  /\ tasks'[NewTask].kind = kind /\ tasks'[NewTask].text = text /\ tasks'[NewTask].turn = turn
         /\ tasks'[NewTask].stage = stage /\ tasks'[NewTask].after = after
         /\ tasks'[NewTask].cancelled = FALSE
         /\ DOMAIN tasks = 1 .. Len(tasks) /\ DOMAIN tasks' = 1 .. Len(tasks) + 1
         /\ NewTask \in DOMAIN tasks' /\ NewTask \notin DOMAIN tasks /\ DOMAIN tasks \subseteq DOMAIN tasks'
         /\ \A b \in DOMAIN tasks' : b \in DOMAIN tasks \/ b = NewTask
         /\ \A b \in DOMAIN tasks : b < NewTask
  <1> DEFINE task == Task(kind, text, turn, stage, after)
  <1>1. /\ task.kind = kind /\ task.text = text /\ task.turn = turn /\ task.stage = stage
        /\ task.after = after /\ task.cancelled = FALSE
    BY TaskText
  <1> HIDE DEF task
  <1>2. Adds(task, c)
    BY DEF task
  <1>3. Len(tasks) \in Nat
    BY <1>2 DEF Adds
  <1> QED
    BY <1>1, <1>2, <1>3 DEF Adds, NewTask

\* In short: it is there, with its kind and its turn.
LEMMA CallMade ==
  ASSUME NEW kind, NEW text, NEW turn, NEW stage, NEW after, NEW c,
         Adds(Task(kind, text, turn, stage, after), c)
  PROVE  NewTask \in DOMAIN tasks' /\ tasks'[NewTask].kind = kind /\ tasks'[NewTask].turn = turn
  BY MadeIs

\* Saying a word schedules its upload.
LEMMA SayAdds ==
  ASSUME PhoneTypeOK, Say
  PROVE  Adds(Task("upload", screen'.text, screen.turn, "sleep", chain), chain)
  <1> DEFINE text == [turn |-> screen.turn, n |-> said[screen.turn] + 1]
             task == Task("upload", text, screen.turn, "sleep", chain)
  <1>1. text \in Utterances /\ screen.turn \in 0 .. LastTurn /\ screen'.text = text
    BY SayIs, ScreenIs, PartsAre
  <1> HIDE DEF text
  <1>2. task \in CallRecords
    BY <1>1, PartsAre, PhoneAssumption DEF Task, CallRecords
  <1> QED
    BY <1>1, <1>2, LaunchAdds DEF Say, text

\* Loading the tombstone sends a clear.
LEMMA LoadDiscardedAdds ==
  ASSUME PhoneTypeOK, LoadDiscarded
  PROVE  Adds(Task("clear", Silence, screen.start.turn, "wire", 0), 0)
  <1>1. screen.start.turn \in 0 .. LastTurn
    BY StartIs DEF LoadDiscarded
  <1> DEFINE task == Task("clear", Silence, screen.start.turn, "wire", 0)
  <1>2. task \in CallRecords
    BY <1>1, PartsAre, ClearIs
  <1> QED
    BY <1>2, AppendAdds DEF LoadDiscarded

\* A start over makes a clear that waits for the chain.
LEMMA StartOverAdds ==
  ASSUME PhoneTypeOK, StartOver
  PROVE  Adds(Task("clear", Silence, screen.turn, "wait", chain), chain)
  <1> DEFINE task == Task("clear", Silence, screen.turn, "wait", chain)
  <1>1. task \in CallRecords
    BY PartsAre, ScreenIs, ClearIs
  <1> QED
    BY <1>1, LaunchAdds DEF StartOver

\* A submission that goes out makes an answer call.
LEMMA SendAnswerAdds ==
  ASSUME PhoneTypeOK, SendAnswer, tasks' # tasks \/ screen' # screen
  PROVE  /\ Adds(Task("answer", submission.text, submission.turn, "wire", 0), 0)
         /\ screen.at = "asking" /\ screen.turn = submission.turn
         /\ submission' \in Submissions /\ submission' # Silence
         /\ submission'.text = submission.text /\ submission'.turn = submission.turn
         /\ submission'.after = submission.after /\ submission'.task = NewTask
         /\ screen'.at = "processing" /\ screen'.text = Silence
         /\ SameTurn /\ screen'.start = screen.start /\ screen'.resetting = screen.resetting
  <1> DEFINE task == Task("answer", submission.text, submission.turn, "wire", 0)
  <1>1. task \in CallRecords
    BY AnswerIs DEF SendAnswer
  <1>2. Len(tasks) < MaxTasks /\ tasks' = Append(tasks, task)
    BY SendAnswerIs
  <1> HIDE DEF task
  <1>3. Adds(task, 0)
    BY <1>1, <1>2, AppendAdds
  <1> QED
    BY <1>3, SendAnswerIs DEF task

\* What a task is, beside its stage.
SameCall(c, d) == c.kind = d.kind /\ c.text = d.text /\ c.turn = d.turn /\ c.after = d.after

\* Every task is still the same call, or is over; an answer that was sent stays.
Fades ==
    /\ DOMAIN tasks \subseteq DOMAIN tasks'
    /\ \A b \in DOMAIN tasks :
          SameCall(tasks'[b], tasks[b]) \/ (tasks'[b] = Gone /\ tasks[b].kind # "answer")

\* What fades the tasks: an addition, an advance, a cancellation, the end of the app.
LEMMA FadesIf ==
  ASSUME PhoneTypeOK
  PROVE  /\ \A task, c : Adds(task, c) => Fades
         /\ \A t, stage : Advances(t, stage) => Fades
         /\ UNCHANGED tasks => Fades
         /\ tasks' = Cancelled(chain) => Fades
         /\ Kill => Fades
  <1>1. ASSUME NEW task, NEW c, Adds(task, c) PROVE Fades
    BY <1>1, TasksAre DEF Adds, Fades, Alike, SameCall
  <1>2. ASSUME NEW t, NEW stage, Advances(t, stage) PROVE Fades
    BY <1>2 DEF Advances, Fades, SameCall
  <1>3. ASSUME UNCHANGED tasks PROVE Fades
    BY <1>3 DEF Fades, SameCall
  <1>4. ASSUME tasks' = Cancelled(chain) PROVE Fades
    BY <1>4, PartsAre, CancelledIs DEF Fades, Alike, SameCall
  <1>5. ASSUME Kill PROVE Fades
    BY <1>5, KillIs DEF Fades, SameCall
  <1> QED
    BY <1>1, <1>2, <1>3, <1>4, <1>5

\* The steps at which a task moves on.
LEMMA TaskSteps ==
  ASSUME PhoneTypeOK, NEW t \in DOMAIN tasks
  PROVE  /\ Wake(t) => Advances(t, "wait") \/ Advances(t, "ended")
         /\ Send(t) => Advances(t, "wire") \/ Advances(t, "ended")
         /\ Lands(t) => Advances(t, "ok") \/ Advances(t, "failed")
         /\ Fails(t) => Advances(t, "failed")
  BY StageAdvances DEF Wake, Send, Lands, Fails

\* No step takes a task away, nor turns an answer into anything else.
LEMMA TasksFade ==
  ASSUME PhoneTypeOK, PhoneNext
  PROVE  Fades
  <1>1. CASE OpenReview \/ StartReturns \/ LoadText \/ AnswerReturns \/ \E x \in resets : ResetEnds(x)
    BY <1>1, FadesIf DEF OpenReview, StartReturns, LoadText, AnswerReturns, ResetEnds
  <1>2. CASE LoadDiscarded
    BY <1>2, LoadDiscardedAdds, FadesIf
  <1>3. CASE Say
    BY <1>3, SayAdds, FadesIf
  <1>4. CASE Flush
    BY <1>4, FlushIs, FadesIf DEF Flushed
  <1>5. CASE StartOver
    BY <1>5, StartOverAdds, FadesIf
  <1>6. CASE Submit
    BY <1>6, FadesIf DEF Submit
  <1>7. CASE SendAnswer
    BY <1>7, SendAnswerAdds, FadesIf
  <1>8. ASSUME NEW t \in DOMAIN tasks, Wake(t) \/ Send(t) \/ Lands(t) \/ Fails(t) PROVE Fades
    BY <1>8, TaskSteps, FadesIf
  <1>9. CASE Kill
    BY <1>9, FadesIf
  <1> QED
    BY <1>1, <1>2, <1>3, <1>4, <1>5, <1>6, <1>7, <1>8, <1>9 DEF PhoneNext, GoToBackground, CloseReview

-----------------------------------------------------------------------------
(* The turn goes up.                                                       *)

\* Turns, visits and tasks are numbers.
LEMMA TurnsAre ==
  ASSUME PhoneTypeOK
  PROVE  /\ screen.turn \in Nat /\ remote.turn \in Nat /\ Current \in Nat
         /\ \A t \in DOMAIN tasks : tasks[t].turn \in Nat
         /\ \A x \in resets : x.turn \in Nat /\ x.visit \in Nat /\ x.task \in Nat
         /\ screen.visit \in Nat
         /\ submission # Silence => submission.turn \in Nat
         /\ \A w \in Utterances : w # Silence => w \in Words /\ w.turn \in Nat /\ w.n \in Nat
  <1>1. screen.turn \in Nat /\ remote.turn \in Nat /\ Current \in Nat /\ screen.visit \in Nat
    BY PartsAre, ScreenIs, StartIs, PhoneAssumption DEF Current
  <1>2. ASSUME NEW t \in DOMAIN tasks PROVE tasks[t].turn \in Nat
    <2>1. tasks[t] \in CallRecords
      BY TasksAre
    <2> QED
      BY <2>1, PhoneAssumption DEF CallRecords
  <1>3. ASSUME NEW x \in resets PROVE x.turn \in Nat /\ x.visit \in Nat /\ x.task \in Nat
    <2>1. x \in Resets
      BY PartsAre
    <2>2. x.turn \in 0 .. LastTurn /\ x.visit \in 1 .. MaxVisits /\ x.task \in 1 .. MaxTasks
      BY <2>1 DEF Resets
    <2> QED
      BY <2>2, PhoneAssumption
  <1>4. submission # Silence => submission.turn \in Nat
    BY SubmissionIs, PhoneAssumption
  <1>5. ASSUME NEW w \in Utterances, w # Silence PROVE w \in Words /\ w.turn \in Nat /\ w.n \in Nat
    BY <1>5, PhoneAssumption DEF Utterances, Words
  <1> QED
    BY <1>1, <1>2, <1>3, <1>4, <1>5

\* The server's turn never goes back.
LEMMA RemoteRises ==
  ASSUME PhoneTypeOK, PhoneNext
  PROVE  remote.turn <= remote'.turn /\ remote.turn \in Nat /\ remote'.turn \in Nat
  <1>1. ASSUME UNCHANGED remote PROVE remote.turn <= remote'.turn /\ remote'.turn \in Nat
    BY <1>1, TurnsAre
  <1>2. ASSUME NEW t \in DOMAIN tasks, Lands(t) PROVE remote.turn <= remote'.turn /\ remote'.turn \in Nat
    <2>1. CASE PatchLands(t)
      BY <2>1, PatchLandsIs, TurnsAre
    <2>2. CASE AnswerLands(t)
      <3>1. remote'.turn = remote.turn + 1 \/ remote'.turn = remote.turn
        BY <2>2, AnswerLandsIs
      <3> QED
        BY <3>1, TurnsAre
    <2> QED
      BY <1>2, <2>1, <2>2 DEF Lands
  <1>3. UNCHANGED remote \/ \E t \in DOMAIN tasks : Lands(t)
    BY DEF PhoneNext, OpenReview, StartReturns, LoadText, LoadDiscarded, Say, GoToBackground, CloseReview,
           StartOver, ResetEnds, Submit, SendAnswer, AnswerReturns, Wake, Send, Fails, Kill
  <1> QED
    BY <1>1, <1>2, <1>3, TurnsAre

\* The phone's turn is a number after the step too.
LEMMA CurrentNext ==
  ASSUME PhoneTypeOK'
  PROVE  Current' \in Nat
  <1>1. /\ screen' \in Screens
        /\ remote' \in [turn : 0 .. LastTurn + 1, draft : Utterances, answers : [0 .. LastTurn -> Utterances]]
    BY Zenon DEF PhoneTypeOK
  <1>2. /\ screen'.turn \in 0 .. LastTurn /\ screen'.start \in Records \cup {Silence}
        /\ remote'.turn \in 0 .. LastTurn + 1
    BY <1>1 DEF Screens
  <1>3. screen'.start # Silence => screen'.start.turn \in 0 .. LastTurn
    BY <1>2 DEF Records
  <1> QED
    BY <1>2, <1>3, PhoneAssumption DEF Current

\* The phone's turn never goes back.
LEMMA CurrentRises ==
  ASSUME PhoneTypeOK, PhoneTypeOK', TurnsRise, SubmissionSound, AnswersSound, PhoneNext
  PROVE  Current <= Current' /\ Current' <= remote'.turn
  <1>1. /\ Current \in Nat /\ Current' \in Nat /\ remote.turn \in Nat /\ Current <= remote.turn
        /\ remote.turn <= remote'.turn /\ remote'.turn \in Nat
    BY TurnsAre, CurrentNext, RemoteRises DEF TurnsRise
  <1>2. ASSUME UNCHANGED screen PROVE Current <= Current' /\ Current' <= remote'.turn
    BY <1>1, <1>2 DEF Current
  <1>3. ASSUME screen'.at = "closed" PROVE Current <= Current' /\ Current' <= remote'.turn
    BY <1>1, <1>3 DEF Current
  <1>4. ASSUME screen.at \in {"asking", "processing"}, screen'.at \in {"asking", "processing"}, screen'.turn = screen.turn
        PROVE  Current <= Current' /\ Current' <= remote'.turn
    BY <1>1, <1>4 DEF Current
  <1>5. CASE OpenReview
    BY <1>1, <1>5, OpenReviewIs DEF OpenReview, Current
  <1>6. CASE StartReturns
    <2>1. remote' = remote /\ screen.at = "loading" /\ screen.start = Silence
      BY <1>6 DEF StartReturns
    <2> QED
      BY <1>1, <1>3, <1>6, <2>1, StartReturnsIs DEF Current
  <1>7. CASE LoadText \/ LoadDiscarded
    <2>1. screen.at = "loading" /\ screen.start # Silence
      BY <1>7 DEF LoadText, LoadDiscarded
    <2>2. screen'.at = "asking" /\ screen'.turn = screen.start.turn
      BY <1>7, LoadTextIs, LoadDiscardedIs
    <2> QED
      BY <1>1, <2>1, <2>2 DEF Current
  <1>8. CASE Say
    BY <1>4, <1>8, SayIs DEF Say, Mutable, SameTurn
  <1>9. CASE CloseReview \/ Kill
    BY <1>3, <1>9, ClosedIs DEF CloseReview, Kill
  <1>10. CASE StartOver
    BY <1>4, <1>10, StartOverIs DEF StartOver, SameTurn
  <1>11. ASSUME NEW x \in resets, ResetEnds(x) PROVE Current <= Current' /\ Current' <= remote'.turn
    <2>1. screen'.at = screen.at /\ screen'.turn = screen.turn /\ screen'.start = screen.start /\ remote' = remote
      BY <1>11, ResetEndsIs DEF ResetEnds, SameTurn
    <2> QED
      BY <1>1, <2>1 DEF Current
  <1>12. CASE SendAnswer
    BY <1>2, <1>4, <1>12, SendAnswerAdds DEF SameTurn
  <1>13. CASE AnswerReturns
    <2>1. /\ screen.at # "closed" => screen.at = "processing" /\ screen.turn = submission.turn
          /\ submission # Silence /\ submission.task # 0
      BY <1>13 DEF AnswerReturns, SubmissionSound
    <2>2. CASE screen.at = "closed" \/ screen'.at = "closed"
      BY <1>3, <1>13, <2>2, AnswerReturnsIs
    <2>3. CASE screen.at # "closed" /\ screen'.at # "closed" /\ tasks[submission.task].stage # "ok"
      BY <1>4, <1>13, <2>1, <2>3, AnswerReturnsIs
    <2>4. CASE screen.at # "closed" /\ screen'.at # "closed" /\ tasks[submission.task].stage = "ok"
      <3>1. screen'.at = "asking" /\ screen'.turn = submission.turn + 1
        BY <1>13, <2>4, AnswerReturnsIs
      <3>2. submission.turn < remote.turn
        BY <2>1, <2>4 DEF SubmissionSound, AnswersSound
      <3>3. Current' = submission.turn + 1 /\ Current = submission.turn
        BY <2>1, <2>4, <3>1 DEF Current
      <3> QED
        BY <1>1, <3>2, <3>3
    <2> QED
      BY <2>2, <2>3, <2>4
  <1>14. CASE UNCHANGED screen \/ GoToBackground \/ Submit
    BY <1>2, <1>14 DEF GoToBackground, Submit
  <1>15. (\E t \in DOMAIN tasks : Wake(t) \/ Send(t) \/ Lands(t) \/ Fails(t)) => UNCHANGED screen
    BY DEF Wake, Send, Lands, Fails
  <1> QED
    BY <1>5, <1>6, <1>7, <1>8, <1>9, <1>10, <1>11, <1>12, <1>13, <1>14, <1>15 DEF PhoneNext

\* What a step adds belongs to the turn the phone is at.
LEMMA AddsRise ==
  ASSUME PhoneTypeOK, NEW task, NEW c, Adds(task, c), NEW n \in Nat, NEW m \in Nat, m <= n,
         \A t \in DOMAIN tasks : tasks[t].turn <= m, task.turn <= n
  PROVE  \A t \in DOMAIN tasks' : tasks'[t].turn <= n
  <1>1. ASSUME NEW t \in DOMAIN tasks' PROVE tasks'[t].turn <= n
    <2>1. CASE t \in DOMAIN tasks
      BY <2>1, TurnsAre DEF Adds, Alike
    <2>2. CASE t \notin DOMAIN tasks
      <3>1. t = NewTask
        BY <2>2, TasksAre DEF Adds, NewTask
      <3> QED
        BY <3>1 DEF Adds
    <2> QED
      BY <2>1, <2>2
  <1> QED
    BY <1>1

\* Tasks that fade belong to no later turn.
LEMMA FadesRise ==
  ASSUME PhoneTypeOK, Fades, DOMAIN tasks' = DOMAIN tasks, NEW n \in Nat, NEW m \in Nat, m <= n,
         \A t \in DOMAIN tasks : tasks[t].turn <= m
  PROVE  \A t \in DOMAIN tasks' : tasks'[t].turn <= n
  BY TurnsAre, GoneIs DEF Fades, SameCall

\* No task is of a turn the phone has not come to.
LEMMA TasksRise ==
  ASSUME PhoneTypeOK, PhoneTypeOK', TurnsRise, SubmissionSound, AnswersSound, PhoneNext
  PROVE  \A t \in DOMAIN tasks' : tasks'[t].turn <= Current'
  <1>1. /\ Current \in Nat /\ Current' \in Nat /\ Current <= Current' /\ Fades
        /\ \A t \in DOMAIN tasks : tasks[t].turn <= Current
        /\ screen.at \in {"asking", "processing"} => Current = screen.turn
        /\ screen.at = "loading" /\ screen.start # Silence => Current = screen.start.turn
    BY TurnsAre, CurrentNext, CurrentRises, TasksFade DEF TurnsRise, Current
  <1>2. CASE DOMAIN tasks' = DOMAIN tasks
    BY <1>1, <1>2, FadesRise
  <1>3. ASSUME NEW task, NEW c, Adds(task, c), task.turn = Current
        PROVE  \A t \in DOMAIN tasks' : tasks'[t].turn <= Current'
    BY <1>1, <1>3, AddsRise
  <1>4. CASE LoadDiscarded
    <2>1. Adds(Task("clear", Silence, screen.start.turn, "wire", 0), 0)
          /\ Task("clear", Silence, screen.start.turn, "wire", 0).turn = screen.start.turn
      BY <1>4, LoadDiscardedAdds, TaskText
    <2> QED
      BY <1>1, <1>3, <1>4, <2>1 DEF LoadDiscarded
  <1>5. CASE Say
    <2>1. Adds(Task("upload", screen'.text, screen.turn, "sleep", chain), chain)
          /\ Task("upload", screen'.text, screen.turn, "sleep", chain).turn = screen.turn
      BY <1>5, SayAdds, TaskText
    <2> QED
      BY <1>1, <1>3, <1>5, <2>1 DEF Say, Mutable
  <1>6. CASE Flush
    <2>1. CASE Flushed
      <3>1. Adds(Task("upload", screen.text, screen.turn, "wait", chain), chain)
            /\ Task("upload", screen.text, screen.turn, "wait", chain).turn = screen.turn
        BY <2>1, TaskText DEF Flushed
      <3> QED
        BY <1>1, <1>3, <2>1, <3>1 DEF Flushed, Flushes
    <2> QED
      BY <1>2, <1>6, <2>1, FlushIs
  <1>7. CASE StartOver
    <2>1. Adds(Task("clear", Silence, screen.turn, "wait", chain), chain)
          /\ Task("clear", Silence, screen.turn, "wait", chain).turn = screen.turn
      BY <1>7, StartOverAdds, TaskText
    <2> QED
      BY <1>1, <1>3, <1>7, <2>1 DEF StartOver
  <1>8. CASE SendAnswer
    <2>1. CASE tasks' # tasks
      <3>1. Adds(Task("answer", submission.text, submission.turn, "wire", 0), 0)
            /\ Task("answer", submission.text, submission.turn, "wire", 0).turn = submission.turn
            /\ screen.at = "asking" /\ screen.turn = submission.turn
        BY <1>8, <2>1, SendAnswerAdds, TaskText
      <3> QED
        BY <1>1, <1>3, <3>1
    <2> QED
      BY <1>2, <2>1
  <1>9. CASE Submit
    BY <1>2, <1>9, PartsAre, CancelledIs DEF Submit
  <1>10. CASE OpenReview \/ StartReturns \/ LoadText \/ AnswerReturns \/ (\E x \in resets : ResetEnds(x))
    BY <1>2, <1>10 DEF OpenReview, StartReturns, LoadText, AnswerReturns, ResetEnds
  <1>11. CASE (\E t \in DOMAIN tasks : Wake(t) \/ Send(t) \/ Lands(t) \/ Fails(t)) \/ Kill
    BY <1>2, <1>11, TaskSteps, KillIs DEF Advances
  <1> QED
    BY <1>4, <1>5, <1>6, <1>7, <1>8, <1>9, <1>10, <1>11 DEF PhoneNext, GoToBackground, CloseReview

\* The latest words that were saved, or discarded, are of no later turn.
LEMMA SecuredRises ==
  ASSUME PhoneTypeOK, PhoneTypeOK', WordsSaid, TurnsRise, SubmissionSound, AnswersSound, PhoneNext
  PROVE  \A w \in {secured', discarded'} : w # Silence => w.turn <= Current'
  <1>1. /\ Current \in Nat /\ Current' \in Nat /\ Current <= Current'
        /\ \A w \in {secured, discarded} : w # Silence => w.turn <= Current /\ w.turn \in Nat
        /\ screen.at \in {"asking", "processing"} => Current = screen.turn
    BY TurnsAre, PartsAre, CurrentNext, CurrentRises DEF TurnsRise, Current
  <1>2. ASSUME NEW w, w \in {secured, discarded, Silence} \/ (w.turn \in Nat /\ w.turn <= Current)
        PROVE  w # Silence => w.turn <= Current'
    BY <1>1, <1>2
  <1>3. ASSUME NEW text \in Utterances, NEW turn \in 0 .. LastTurn, Save(text, turn),
               Uttered(text, turn, said), turn <= Current
        PROVE  secured' \in {secured, Silence} \/ (secured'.turn \in Nat /\ secured'.turn <= Current)
    <2>1. secured' = secured \/ (secured' = text /\ text # Silence)
      BY <1>3, SaveIs
    <2>2. text # Silence => text.turn = turn /\ text.turn \in Nat
      BY <1>3, TurnsAre DEF Uttered
    <2> QED
      BY <1>3, <2>1, <2>2
  <1>4. CASE Flush
    <2>1. CASE Flushes /\ Save(screen.text, screen.turn)
      <3>1. discarded' = discarded
        BY <2>1 DEF Save
      <3>2. /\ screen.text \in Utterances /\ screen.turn \in 0 .. LastTurn /\ Uttered(screen.text, screen.turn, said)
            /\ screen.turn <= Current
        BY <1>1, <2>1, ScreenIs DEF Flushes, WordsSaid
      <3> QED
        BY <1>2, <1>3, <2>1, <3>1, <3>2
    <2>2. CASE UNCHANGED history
      BY <1>2, <2>2 DEF history
    <2> QED
      BY <1>4, <2>1, <2>2, FlushIs DEF Flushed
  <1>5. CASE Submit
    <2>1. screen.at = "asking" /\ Save(screen.text, screen.turn)
      BY <1>5 DEF Submit, Mutable
    <2>2. discarded' = discarded
      BY <2>1 DEF Save
    <2>3. /\ screen.text \in Utterances /\ screen.turn \in 0 .. LastTurn /\ Uttered(screen.text, screen.turn, said)
          /\ screen.turn <= Current
      BY <1>1, <2>1, ScreenIs DEF WordsSaid
    <2> QED
      BY <1>2, <1>3, <2>1, <2>2, <2>3
  <1>6. ASSUME NEW t \in DOMAIN tasks, Wake(t)
        PROVE  \A w \in {secured', discarded'} : w # Silence => w.turn <= Current'
    <2>1. CASE Save(tasks[t].text, tasks[t].turn)
      <3>1. tasks[t] \in CallRecords
        BY TasksAre
      <3>2. /\ tasks[t].text \in Utterances /\ tasks[t].turn \in 0 .. LastTurn
            /\ Uttered(tasks[t].text, tasks[t].turn, said) /\ tasks[t].turn <= Current
            /\ discarded' = discarded
        BY <2>1, <3>1 DEF CallRecords, WordsSaid, TurnsRise, Save
      <3> QED
        BY <1>2, <1>3, <2>1, <3>2
    <2>2. CASE UNCHANGED <<secured, discarded>>
      BY <1>2, <2>2
    <2> QED
      BY <1>6, <2>1, <2>2 DEF Wake
  <1>7. CASE StartOver
    <2>1. screen.at \in {"asking", "processing"} /\ secured' = Silence
          /\ discarded' \in {screen.text, Silence} /\ (submission # Silence => discarded' = Silence)
      BY <1>7 DEF StartOver
    <2>2. discarded' # Silence => discarded'.turn \in Nat /\ discarded'.turn <= Current
      <3>1. CASE screen.at = "asking"
        <4>1. Uttered(screen.text, screen.turn, said) /\ screen.turn = Current
          BY <1>1, <3>1 DEF WordsSaid
        <4> QED
          BY <1>1, <2>1, <4>1 DEF Uttered
      <3>2. CASE screen.at = "processing"
        BY <2>1, <3>2 DEF SubmissionSound
      <3> QED
        BY <2>1, <3>1, <3>2
    <2> QED
      BY <1>2, <2>1, <2>2
  <1>8. CASE UNCHANGED <<secured, discarded>>
    BY <1>2, <1>8
  <1>9. CASE OpenReview \/ StartReturns \/ LoadText \/ LoadDiscarded \/ Say \/ SendAnswer \/ AnswerReturns \/ Kill
    BY <1>8, <1>9 DEF OpenReview, StartReturns, LoadText, LoadDiscarded, Say, SendAnswer, AnswerReturns, Kill, history
  <1>10. ASSUME NEW x \in resets, ResetEnds(x)
         PROVE  \A w \in {secured', discarded'} : w # Silence => w.turn <= Current'
    BY <1>8, <1>10 DEF ResetEnds, history
  <1>11. ASSUME NEW t \in DOMAIN tasks, Send(t) \/ Lands(t) \/ Fails(t)
         PROVE  \A w \in {secured', discarded'} : w # Silence => w.turn <= Current'
    BY <1>8, <1>11 DEF Send, Lands, Fails, history
  <1> QED
    BY <1>4, <1>5, <1>6, <1>7, <1>9, <1>10, <1>11 DEF PhoneNext, GoToBackground, CloseReview

\* The reset of a start over.
LEMMA StartOverMakes ==
  ASSUME StartOver, NEW x \in resets', x \notin resets
  PROVE  x.by = "start over" /\ x.task = NewTask /\ x.turn = screen.turn /\ x.visit = screen.visit
  <1>1. x = [by |-> "start over", task |-> NewTask, turn |-> screen.turn, visit |-> screen.visit]
    BY DEF StartOver
  <1> QED
    BY <1>1

\* The reset of a tombstone that is loaded.
LEMMA LoadMakes ==
  ASSUME LoadDiscarded, NEW x \in resets', x \notin resets
  PROVE  x.by = "load" /\ x.task = NewTask /\ x.turn = screen.start.turn /\ x.visit = screen.visit
  <1>1. x = [by |-> "load", task |-> NewTask, turn |-> screen.start.turn, visit |-> screen.visit]
    BY DEF LoadDiscarded
  <1> QED
    BY <1>1

\* Only these two steps make a reset.
LEMMA ResetsGrow ==
  ASSUME PhoneNext, NEW x \in resets', x \notin resets
  PROVE  StartOver \/ LoadDiscarded
  BY DEF PhoneNext, OpenReview, StartReturns, LoadText, Say, GoToBackground, CloseReview,
         ResetEnds, Submit, SendAnswer, AnswerReturns, Wake, Send, Lands, Fails, Kill

\* Every step keeps TurnsRise.
LEMMA TurnsStep ==
  ASSUME PhoneTypeOK, PhoneTypeOK', WordsSaid, TurnsRise, SubmissionSound, AnswersSound, PhoneNext
  PROVE  TurnsRise'
  <1>1. Current' <= remote'.turn /\ Current <= Current' /\ Current \in Nat /\ Current' \in Nat
    BY CurrentRises, CurrentNext, TurnsAre
  <1>2. /\ screen'.visit \in Nat /\ screen.visit \in Nat /\ screen.visit <= screen'.visit
        /\ screen'.at # "closed" => screen'.visit # 0
    <2>1. CASE OpenReview
      BY <2>1, OpenReviewIs, TurnsAre
    <2>2. CASE StartReturns \/ LoadText \/ LoadDiscarded
      <3>1. screen.at = "loading" /\ screen'.visit = screen.visit
        BY <2>2, StartReturnsIs, LoadTextIs, LoadDiscardedIs DEF StartReturns, LoadText, LoadDiscarded, SameTurn
      <3> QED
        BY <3>1, TurnsAre DEF TurnsRise
    <2>3. CASE screen'.visit = screen.visit /\ (screen.at = "closed" => screen'.at = "closed")
      BY <2>3, TurnsAre DEF TurnsRise
    <2>4. CASE Say \/ CloseReview \/ StartOver \/ SendAnswer \/ Kill
      BY <2>3, <2>4, SayIs, ClosedIs, StartOverIs, SendAnswerIs DEF CloseReview, Kill, SameTurn
    <2>5. CASE AnswerReturns
      BY <2>3, <2>5, AnswerReturnsIs
    <2>6. ASSUME NEW x \in resets, ResetEnds(x)
          PROVE  screen'.visit = screen.visit /\ (screen.at = "closed" => screen'.at = "closed")
      BY <2>6, ResetEndsIs DEF SameTurn
    <2>7. CASE UNCHANGED screen
      BY <2>3, <2>7
    <2>8. GoToBackground \/ Submit \/ (\E t \in DOMAIN tasks : Wake(t) \/ Send(t) \/ Lands(t) \/ Fails(t))
              => UNCHANGED screen
      BY DEF GoToBackground, Submit, Wake, Send, Lands, Fails
    <2> QED
      BY <2>1, <2>2, <2>3, <2>4, <2>5, <2>6, <2>7, <2>8 DEF PhoneNext
  <1>3. ASSUME NEW x \in resets' PROVE x.turn <= Current' /\ x.visit <= screen'.visit
    <2>1. CASE x \in resets
      BY <1>1, <1>2, <2>1, TurnsAre DEF TurnsRise
    <2>2. CASE x \notin resets
      <3>1. CASE StartOver
        <4>1. x.turn = screen.turn /\ x.visit = screen.visit /\ screen.at \in {"asking", "processing"}
          BY <1>3, <2>2, <3>1, StartOverMakes DEF StartOver
        <4>2. x.turn = Current
          BY <4>1 DEF Current
        <4> QED
          BY <1>1, <1>2, <4>1, <4>2
      <3>2. CASE LoadDiscarded
        <4>1. x.turn = screen.start.turn /\ x.visit = screen.visit /\ screen.at = "loading" /\ screen.start # Silence
          BY <1>3, <2>2, <3>2, LoadMakes DEF LoadDiscarded
        <4>2. x.turn = Current
          BY <4>1 DEF Current
        <4> QED
          BY <1>1, <1>2, <4>1, <4>2
      <3>3. StartOver \/ LoadDiscarded
        BY <1>3, <2>2, ResetsGrow
      <3> QED
        BY <3>1, <3>2, <3>3
    <2> QED
      BY <2>1, <2>2
  <1> QED
    BY <1>1, <1>2, <1>3, TasksRise, SecuredRises DEF TurnsRise

-----------------------------------------------------------------------------
(* The tasks, the chain and the submission                                 *)

\* The steps that cancel the task of the latest draft.
Cancels == Say \/ Flushed \/ StartOver \/ Submit

\* What these steps cancel.
LEMMA CancelsIs ==
  ASSUME PhoneTypeOK, Cancels
  PROVE  /\ DOMAIN tasks \subseteq DOMAIN tasks'
         /\ \A b \in DOMAIN tasks :
               /\ Alike(tasks'[b], tasks[b])
               /\ tasks'[b].cancelled = (tasks[b].cancelled \/ (b = chain /\ ~Ended(b)))
  <1>1. ASSUME NEW task, Adds(task, chain)
        PROVE  /\ DOMAIN tasks \subseteq DOMAIN tasks'
               /\ \A b \in DOMAIN tasks :
                     /\ Alike(tasks'[b], tasks[b])
                     /\ tasks'[b].cancelled = (tasks[b].cancelled \/ (b = chain /\ ~Ended(b)))
    BY <1>1, TasksAre DEF Adds
  <1>2. CASE Say
    BY <1>1, <1>2, SayAdds
  <1>3. CASE Flushed
    BY <1>1, <1>3 DEF Flushed
  <1>4. CASE StartOver
    BY <1>1, <1>4, StartOverAdds
  <1>5. CASE Submit
    BY <1>5, PartsAre, CancelledIs DEF Submit
  <1> QED
    BY <1>2, <1>3, <1>4, <1>5 DEF Cancels

\* Task t moves on.
Moves(t) == Wake(t) \/ Send(t) \/ Lands(t) \/ Fails(t)

\* What can happen to a task.
LEMMA OldTask ==
  ASSUME PhoneTypeOK, PhoneNext, NEW t \in DOMAIN tasks
  PROVE  /\ t \in DOMAIN tasks'
         /\ \/ Alike(tasks'[t], tasks[t]) /\ tasks'[t].cancelled = tasks[t].cancelled
            \/ Alike(tasks'[t], tasks[t]) /\ Cancels /\ t = chain
            \/ Moves(t) /\ \E stage \in {"wait", "wire", "ok", "failed", "ended"} : Advances(t, stage)
            \/ Kill /\ tasks'[t] = Gone /\ tasks[t].kind # "answer"
  <1> DEFINE Stays == Alike(tasks'[t], tasks[t]) /\ tasks'[t].cancelled = tasks[t].cancelled
  <1>1. t \in DOMAIN tasks'
    BY TasksFade DEF Fades
  <1>2. ASSUME UNCHANGED tasks PROVE Stays
    BY <1>2, TasksAre
  <1>3. ASSUME NEW task, Adds(task, 0) PROVE Stays
    BY <1>3, TasksAre DEF Adds
  <1>4. ASSUME Cancels PROVE Stays \/ (Alike(tasks'[t], tasks[t]) /\ t = chain)
    BY <1>4, CancelsIs, TasksAre
  <1>5. CASE OpenReview \/ StartReturns \/ LoadText \/ AnswerReturns \/ \E x \in resets : ResetEnds(x)
    BY <1>1, <1>2, <1>5 DEF OpenReview, StartReturns, LoadText, AnswerReturns, ResetEnds
  <1>6. CASE LoadDiscarded
    BY <1>1, <1>3, <1>6, LoadDiscardedAdds
  <1>7. CASE Flush
    BY <1>1, <1>2, <1>4, <1>7, FlushIs DEF Cancels
  <1>8. CASE Say \/ StartOver \/ Submit
    BY <1>1, <1>4, <1>8 DEF Cancels
  <1>9. CASE SendAnswer
    BY <1>1, <1>2, <1>3, <1>9, SendAnswerAdds
  <1>10. ASSUME NEW b \in DOMAIN tasks, Moves(b)
         PROVE  Stays \/ (b = t /\ \E stage \in {"wait", "wire", "ok", "failed", "ended"} : Advances(t, stage))
    <2>1. \E stage \in {"wait", "wire", "ok", "failed", "ended"} : Advances(b, stage)
      BY <1>10, TaskSteps DEF Moves
    <2>2. b # t => tasks'[t] = tasks[t]
      BY <2>1 DEF Advances
    <2> QED
      BY <2>1, <2>2, TasksAre
  <1>11. CASE Kill
    BY <1>1, <1>11, KillIs, TasksAre
  <1> QED
    BY <1>1, <1>5, <1>6, <1>7, <1>8, <1>9, <1>10, <1>11 DEF PhoneNext, GoToBackground, CloseReview, Moves

\* The tasks that are made.
LEMMA NewTaskIs ==
  ASSUME PhoneTypeOK, PhoneNext, NEW t \in DOMAIN tasks', t \notin DOMAIN tasks
  PROVE  /\ t = NewTask /\ t \in Nat /\ t # 0 /\ \A b \in DOMAIN tasks : b < t
         /\ tasks'[t].cancelled = FALSE
         /\ \/ /\ LoadDiscarded /\ tasks'[t].kind = "clear" /\ tasks'[t].text = Silence
               /\ tasks'[t].turn = screen.start.turn /\ tasks'[t].stage = "wire" /\ tasks'[t].after = 0
            \/ /\ Say /\ tasks'[t].kind = "upload" /\ tasks'[t].text = screen'.text
               /\ tasks'[t].turn = screen.turn /\ tasks'[t].stage = "sleep" /\ tasks'[t].after = chain
               /\ chain' = t
            \/ /\ GoToBackground \/ CloseReview
               /\ Flushed /\ tasks'[t].kind = "upload" /\ tasks'[t].text = screen.text
               /\ tasks'[t].turn = screen.turn /\ tasks'[t].stage = "wait" /\ tasks'[t].after = chain
               /\ chain' = t
            \/ /\ StartOver /\ tasks'[t].kind = "clear" /\ tasks'[t].text = Silence
               /\ tasks'[t].turn = screen.turn /\ tasks'[t].stage = "wait" /\ tasks'[t].after = chain
               /\ chain' = 0
            \/ /\ SendAnswer /\ tasks'[t].kind = "answer" /\ tasks'[t].text = submission.text
               /\ tasks'[t].turn = submission.turn /\ tasks'[t].stage = "wire" /\ tasks'[t].after = 0
               /\ chain' = chain /\ screen.at = "asking"
  <1>1. ASSUME NEW kind, NEW text, NEW turn, NEW stage, NEW after, NEW c,
               Adds(Task(kind, text, turn, stage, after), c)
        PROVE  /\ t = NewTask /\ t \in Nat /\ t # 0 /\ \A b \in DOMAIN tasks : b < t
               /\ tasks'[t].kind = kind /\ tasks'[t].text = text /\ tasks'[t].turn = turn
               /\ tasks'[t].stage = stage /\ tasks'[t].after = after /\ tasks'[t].cancelled = FALSE
    <2>1. t = NewTask
      BY <1>1, MadeIs
    <2>2. t \in Nat /\ t # 0
      BY <2>1, PartsAre DEF NewTask
    <2> QED
      BY <1>1, <2>1, <2>2, MadeIs
  <1>2. CASE LoadDiscarded
    BY <1>1, <1>2, LoadDiscardedAdds
  <1>3. CASE Say
    <2>1. chain' = NewTask
      BY <1>3 DEF Say
    <2> QED
      BY <1>1, <1>3, <2>1, SayAdds
  <1>4. CASE GoToBackground \/ CloseReview
    <2>1. Flush
      BY <1>4 DEF GoToBackground, CloseReview
    <2>2. Flushed
      BY <2>1, FlushIs
    <2> QED
      BY <1>1, <1>4, <2>2 DEF Flushed
  <1>5. CASE StartOver
    <2>1. chain' = 0
      BY <1>5 DEF StartOver
    <2> QED
      BY <1>1, <1>5, <2>1, StartOverAdds
  <1>6. CASE SendAnswer
    <2>1. chain' = chain
      BY <1>6 DEF SendAnswer
    <2>2. Adds(Task("answer", submission.text, submission.turn, "wire", 0), 0) /\ screen.at = "asking"
      BY <1>6, SendAnswerAdds
    <2> QED
      BY <1>1, <1>6, <2>1, <2>2
  <1>7. LoadDiscarded \/ Say \/ GoToBackground \/ CloseReview \/ StartOver \/ SendAnswer
    <2>1. CASE OpenReview \/ StartReturns \/ LoadText \/ AnswerReturns \/ \E x \in resets : ResetEnds(x)
      BY <2>1 DEF OpenReview, StartReturns, LoadText, AnswerReturns, ResetEnds
    <2>2. CASE Submit
      BY <2>2, PartsAre, CancelledIs DEF Submit
    <2>3. ASSUME NEW b \in DOMAIN tasks, Moves(b) PROVE FALSE
      BY <2>3, TaskSteps DEF Moves, Advances
    <2>4. CASE Kill
      BY <2>4, KillIs
    <2> QED
      BY <2>1, <2>2, <2>3, <2>4 DEF PhoneNext, Moves
  <1> QED
    BY <1>2, <1>3, <1>4, <1>5, <1>6, <1>7

-----------------------------------------------------------------------------
\* The task is an upload after the step.
UploadNext(t) == t \in DOMAIN tasks' /\ tasks'[t].kind = "upload"

\* An upload stays an upload, when it is over too.
LEMMA UploadStays ==
  ASSUME PhoneTypeOK, PhoneNext, NEW t, Upload(t)
  PROVE  UploadNext(t)
  BY TasksFade, GoneIs DEF Fades, Upload, UploadNext, SameCall

\* A call that is not an upload stays what it is until the app is killed.
LEMMA KindStays ==
  ASSUME PhoneTypeOK, PhoneNext, NEW t \in DOMAIN tasks, tasks[t].kind # "upload",
         resets' # {} \/ tasks[t].kind = "answer"
  PROVE  t \in DOMAIN tasks' /\ SameCall(tasks'[t], tasks[t])
  <1>1. t \in DOMAIN tasks'
    BY OldTask
  <1>2. CASE Alike(tasks'[t], tasks[t])
    BY <1>1, <1>2 DEF Alike, SameCall
  <1>3. ASSUME NEW stage, Advances(t, stage) PROVE SameCall(tasks'[t], tasks[t])
    BY <1>3 DEF Advances, SameCall
  <1>4. CASE Kill /\ tasks[t].kind # "answer"
    BY <1>4 DEF Kill
  <1> QED
    BY <1>1, <1>2, <1>3, <1>4, OldTask

\* Every step keeps ChainSound.
LEMMA ChainStep ==
  ASSUME PhoneTypeOK, ChainSound, SubmissionSound, PhoneNext
  PROVE  ChainSound'
  <1>1. ASSUME chain' # 0 PROVE UploadNext(chain')
    <2>1. CASE chain' = chain
      BY <1>1, <2>1, UploadStays DEF ChainSound
    <2>2. CASE Say
      <3>1. Adds(Task("upload", screen'.text, screen.turn, "sleep", chain), chain) /\ chain' = NewTask
        BY <2>2, SayAdds DEF Say
      <3> QED
        BY <3>1, MadeIs DEF UploadNext
    <2>3. CASE Flush
      <3>1. CASE Flushed
        BY <3>1, MadeIs DEF UploadNext, Flushed
      <3> QED
        BY <2>1, <2>3, <3>1, FlushIs
    <2> QED
      BY <1>1, <2>1, <2>2, <2>3 DEF PhoneNext, OpenReview, StartReturns, LoadText, LoadDiscarded,
         GoToBackground, CloseReview, StartOver, ResetEnds, Submit, SendAnswer, AnswerReturns, Wake, Send,
         Lands, Fails, Kill
  <1>2. ASSUME submission' # Silence
        PROVE  chain' = 0 /\ (submission'.after # 0 => UploadNext(submission'.after))
    <2>1. CASE Submit
      <3>1. submission'.after = chain /\ chain' = 0
        BY <2>1, SubmitIs DEF Submit
      <3> QED
        BY <3>1, UploadStays DEF ChainSound
    <2>2. CASE submission # Silence /\ submission'.after = submission.after /\ chain' \in {0, chain}
      BY <2>2, UploadStays DEF ChainSound
    <2>3. CASE SendAnswer
      BY <1>2, <2>2, <2>3, SendAnswerIs DEF SendAnswer
    <2>4. CASE Flush /\ UNCHANGED submission
      BY <1>2, <2>2, <2>4, FlushIs DEF Flushed
    <2>5. submission' = Silence \/ Submit \/ SendAnswer \/ (Flush /\ UNCHANGED submission)
          \/ (UNCHANGED submission /\ chain' \in {0, chain})
      BY DEF PhoneNext, OpenReview, StartReturns, LoadText, LoadDiscarded, Say, Mutable,
         GoToBackground, CloseReview, StartOver, ResetEnds, AnswerReturns, Wake, Send, Lands, Fails, Kill
    <2> QED
      BY <1>2, <2>1, <2>2, <2>3, <2>4, <2>5
  <1>3. ASSUME NEW t \in DOMAIN tasks'
        PROVE  tasks'[t].after < t /\ (tasks'[t].after # 0 => UploadNext(tasks'[t].after))
    <2>1. CASE t \in DOMAIN tasks
      <3>1. SameCall(tasks'[t], tasks[t]) \/ tasks'[t] = Gone
        BY <2>1, TasksFade DEF Fades
      <3> QED
        BY <2>1, <3>1, GoneIs, UploadStays, TasksAre DEF ChainSound, SameCall
    <2>2. CASE t \notin DOMAIN tasks
      <3>1. t \in Nat /\ t # 0 /\ (chain \in DOMAIN tasks => chain < t)
        BY <2>2, NewTaskIs
      <3>2. tasks'[t].after \in {0, chain}
        BY <2>2, NewTaskIs
      <3> QED
        BY <3>1, <3>2, UploadStays DEF ChainSound, Upload
    <2> QED
      BY <2>1, <2>2
  <1>4. ASSUME NEW t \in DOMAIN tasks', tasks'[t].kind = "clear" PROVE tasks'[t].text = Silence
    <2>1. CASE t \in DOMAIN tasks
      BY <1>4, <2>1, TasksFade, GoneIs DEF Fades, SameCall, ChainSound
    <2>2. CASE t \notin DOMAIN tasks
      BY <1>4, <2>2, NewTaskIs
    <2> QED
      BY <2>1, <2>2
  <1>5. ASSUME NEW x \in resets'
        PROVE  x.task \in DOMAIN tasks' /\ tasks'[x.task].kind = "clear" /\ tasks'[x.task].turn = x.turn
    <2>1. CASE x \in resets
      BY <2>1, <1>5, KindStays DEF ChainSound, SameCall
    <2>2. CASE x \notin resets /\ StartOver
      <3>1. x.task = NewTask /\ x.turn = screen.turn
        BY <1>5, <2>2, StartOverMakes
      <3>2. Adds(Task("clear", Silence, screen.turn, "wait", chain), chain)
        BY <2>2, StartOverAdds
      <3>3. NewTask \in DOMAIN tasks' /\ tasks'[NewTask].kind = "clear" /\ tasks'[NewTask].turn = screen.turn
        BY <3>2, CallMade, Zenon
      <3> QED
        BY <3>1, <3>3
    <2>3. CASE x \notin resets /\ LoadDiscarded
      <3>1. x.task = NewTask /\ x.turn = screen.start.turn
        BY <1>5, <2>3, LoadMakes
      <3>2. Adds(Task("clear", Silence, screen.start.turn, "wire", 0), 0)
        BY <2>3, LoadDiscardedAdds
      <3>3. NewTask \in DOMAIN tasks' /\ tasks'[NewTask].kind = "clear" /\ tasks'[NewTask].turn = screen.start.turn
        BY <3>2, CallMade, Zenon
      <3> QED
        BY <3>1, <3>3
    <2> QED
      BY <1>5, <2>1, <2>2, <2>3, ResetsGrow
  <1> QED
    BY <1>1, <1>2, <1>3, <1>4, <1>5 DEF ChainSound, Upload, UploadNext

-----------------------------------------------------------------------------
\* Every step keeps AnswersSound.
LEMMA AnswersStep ==
  ASSUME PhoneTypeOK, PhoneTypeOK', AnswersSound, PhoneNext
  PROVE  AnswersSound'
  <1>1. remote.turn <= remote'.turn /\ remote.turn \in Nat /\ remote'.turn \in Nat
    BY RemoteRises
  <1>2. ASSUME NEW t \in DOMAIN tasks, AnswerLands(t)
        PROVE  /\ tasks[t].text # Silence /\ tasks[t].turn < remote'.turn
               /\ \A u \in 0 .. LastTurn : remote'.answers[u] # Silence => u < remote'.turn
    <2>1. tasks[t].text # Silence /\ tasks[t].turn \in 0 .. LastTurn
      BY <1>2, AnswerLandsIs DEF AnswersSound
    <2>2. CASE /\ tasks[t].turn = remote.turn /\ remote'.turn = remote.turn + 1
               /\ \A u \in 0 .. LastTurn : remote'.answers[u] =
                     IF u = remote.turn THEN tasks[t].text ELSE remote.answers[u]
      BY <1>1, <2>1, <2>2, PhoneAssumption DEF AnswersSound
    <2>3. CASE remote' = remote /\ remote.answers[tasks[t].turn] = tasks[t].text
      BY <2>1, <2>3 DEF AnswersSound
    <2> QED
      BY <1>2, <2>1, <2>2, <2>3, AnswerLandsIs
  <1>3. ASSUME NEW u \in 0 .. LastTurn, remote'.answers[u] # Silence PROVE u < remote'.turn
    <2>1. CASE remote' = remote
      BY <1>3, <2>1 DEF AnswersSound
    <2>2. ASSUME NEW t \in DOMAIN tasks, Lands(t) PROVE u < remote'.turn
      <3>1. CASE PatchLands(t)
        <4>1. remote'.turn = remote.turn /\ remote'.answers = remote.answers
          BY <3>1, PatchLandsIs
        <4> QED
          BY <1>3, <4>1 DEF AnswersSound
      <3> QED
        BY <1>2, <1>3, <2>2, <3>1 DEF Lands
    <2>3. UNCHANGED remote \/ \E t \in DOMAIN tasks : Lands(t)
      BY DEF PhoneNext, OpenReview, StartReturns, LoadText, LoadDiscarded, Say, GoToBackground, CloseReview,
             StartOver, ResetEnds, Submit, SendAnswer, AnswerReturns, Wake, Send, Fails, Kill
    <2> QED
      BY <2>1, <2>2, <2>3
  <1>4. ASSUME NEW t \in DOMAIN tasks', tasks'[t].kind = "answer"
        PROVE  tasks'[t].text # Silence /\ (tasks'[t].stage = "ok" => tasks'[t].turn < remote'.turn)
    <2>1. CASE t \notin DOMAIN tasks
      <3>1. SendAnswer /\ tasks'[t].text = submission.text /\ tasks'[t].stage = "wire"
        BY <1>4, <2>1, NewTaskIs
      <3> QED
        BY <3>1, SubmissionIs DEF SendAnswer
    <2>2. CASE t \in DOMAIN tasks
      <3>1. /\ tasks[t].kind = "answer" /\ tasks'[t].text = tasks[t].text /\ tasks'[t].turn = tasks[t].turn
            /\ tasks[t].turn \in Nat
        BY <1>4, <2>2, TasksFade, GoneIs, TurnsAre DEF Fades, SameCall
      <3>2. CASE tasks'[t].stage = tasks[t].stage
        BY <1>1, <2>2, <3>1, <3>2 DEF AnswersSound
      <3>3. CASE Lands(t)
        <4>1. AnswerLands(t)
          BY <3>1, <3>3 DEF Lands, PatchLands
        <4> QED
          BY <1>2, <2>2, <3>1, <4>1
      <3>4. CASE Wake(t) \/ Send(t) \/ Fails(t)
        <4>1. \E stage \in {"wait", "wire", "failed", "ended"} : Advances(t, stage)
          BY <2>2, <3>4, TaskSteps
        <4>2. tasks'[t].stage \in {"wait", "wire", "failed", "ended"}
          BY <4>1, GoneIs DEF Advances
        <4> QED
          BY <2>2, <3>1, <4>2 DEF AnswersSound
      <3> QED
        BY <2>2, <3>1, <3>2, <3>3, <3>4, OldTask DEF Alike, Moves
    <2> QED
      BY <2>1, <2>2
  <1> QED
    BY <1>3, <1>4 DEF AnswersSound
-----------------------------------------------------------------------------
\* While an answer is being submitted nothing is saved or discarded but its words.
LEMMA SubmissionKeeps ==
  ASSUME PhoneTypeOK, WordsSaid, TurnsRise, SubmissionSound, SleepersSound, PhoneNext,
         submission # Silence, UNCHANGED submission
  PROVE  \A w \in {secured', discarded'} : w # Silence => w.turn <= submission.turn
  <1>1. \A w \in {secured, discarded} : w # Silence => w.turn <= submission.turn
    BY DEF SubmissionSound
  <1>2. submission.text # Silence /\ submission.turn \in Nat /\ Uttered(submission.text, submission.turn, said)
    BY SubmissionIs, TurnsAre DEF WordsSaid
  <1>3. submission.text.turn = submission.turn
    BY <1>2 DEF Uttered
  <1>4. CASE Flush
    <2>1. CASE UNCHANGED history
      BY <1>1, <2>1 DEF history
    <2>2. CASE /\ Flushes /\ screen.text # Silence /\ Save(screen.text, screen.turn)
      <3>1. screen.text = submission.text /\ screen.text \in Utterances /\ screen.turn \in 0 .. LastTurn
        BY <2>2, ScreenIs DEF SubmissionSound, Flushes
      <3>2. secured' \in {secured, submission.text} /\ discarded' = discarded
        BY <2>2, <3>1, SaveIs
      <3> QED
        BY <1>1, <1>2, <1>3, <3>2
    <2> QED
      BY <1>4, <2>1, <2>2, FlushIs DEF Flushed
  <1>5. CASE StartOver
    BY <1>5 DEF StartOver
  <1>6. ASSUME NEW t \in DOMAIN tasks, Wake(t)
        PROVE  UNCHANGED <<secured, discarded>>
    BY <1>6 DEF Wake, Wakes, SleepersSound
  <1>7. CASE UNCHANGED <<secured, discarded>>
    BY <1>1, <1>7
  <1>8. \/ Flush \/ StartOver \/ UNCHANGED <<secured, discarded>> \/ \E t \in DOMAIN tasks : Wake(t)
    BY DEF PhoneNext, OpenReview, StartReturns, LoadText, LoadDiscarded, Say, GoToBackground, CloseReview,
           ResetEnds, Submit, Mutable, SendAnswer, AnswerReturns, Send, Lands, Fails, Kill, history
  <1> QED
    BY <1>4, <1>5, <1>6, <1>7, <1>8

\* The screen of an answer that is being submitted.
SubmissionShown ==
    /\ screen.at = "processing" => submission # Silence /\ submission.task # 0 /\ screen.text = Silence
    /\ submission # Silence =>
        /\ screen.at # "loading" /\ (screen.at # "closed" => screen.turn = submission.turn)
        /\ screen.at = "asking" => screen.text \in {Silence, submission.text}
        /\ submission.task # 0 => screen.at \in {"processing", "closed"}

\* Every step keeps what the screen shows of a submission.
LEMMA ShownStep ==
  ASSUME PhoneTypeOK, SubmissionSound, PhoneNext
  PROVE  SubmissionShown'
  <1>1. SubmissionShown
    BY DEF SubmissionSound, SubmissionShown
  <1>2. CASE UNCHANGED <<screen, submission>>
    BY <1>1, <1>2 DEF SubmissionShown
  <1>3. CASE OpenReview
    BY <1>3, OpenReviewIs DEF OpenReview, SubmissionShown
  <1>4. CASE StartReturns
    <2>1. screen.at = "loading" /\ submission' = submission
      BY <1>4 DEF StartReturns
    <2> QED
      BY <1>1, <1>4, <2>1, StartReturnsIs DEF SubmissionShown
  <1>5. CASE LoadText \/ LoadDiscarded
    <2>1. screen.at = "loading" /\ submission' = submission
      BY <1>5 DEF LoadText, LoadDiscarded
    <2> QED
      BY <1>1, <1>5, <2>1, LoadTextIs, LoadDiscardedIs DEF SubmissionShown
  <1>6. CASE Say
    <2>1. screen.at = "asking" /\ submission' = Silence
      BY <1>6 DEF Say, Mutable
    <2>2. screen'.at = "asking"
      BY <1>6, <2>1, SayIs
    <2> QED
      BY <2>1, <2>2 DEF SubmissionShown
  <1>7. CASE CloseReview \/ Kill
    <2>1. screen'.at = "closed"
      BY <1>7, ClosedIs DEF CloseReview, Kill
    <2> QED
      BY <2>1 DEF SubmissionShown
  <1>8. CASE StartOver
    <2>1. submission' = submission
      BY <1>8 DEF StartOver
    <2> QED
      BY <1>1, <1>8, <2>1, StartOverIs DEF SubmissionShown, SameTurn
  <1>9. ASSUME NEW x \in resets, ResetEnds(x) PROVE SubmissionShown'
    <2>1. submission' = submission
      BY <1>9 DEF ResetEnds
    <2> QED
      BY <1>1, <1>9, <2>1, ResetEndsIs DEF SubmissionShown, SameTurn, SameText
  <1>10. CASE Submit
    <2>1. screen' = screen /\ screen.at = "asking"
      BY <1>10 DEF Submit, Mutable
    <2> QED
      BY <1>10, <2>1, SubmitIs DEF SubmissionShown
  <1>11. CASE SendAnswer
    <2>1. CASE ~Owns(submission.turn) /\ submission' = Silence /\ UNCHANGED screen
      <3>1. screen.at # "processing"
        BY <1>1, <2>1 DEF SubmissionShown, Owns
      <3> QED
        BY <2>1, <3>1 DEF SubmissionShown
    <2>2. CASE screen' # screen
      <3>1. NewTask # 0
        BY PartsAre DEF NewTask
      <3> QED
        BY <1>11, <2>2, <3>1, SendAnswerAdds DEF SubmissionShown, SameTurn
    <2>3. CASE screen' = screen /\ submission' # Silence
      BY <1>11, <2>3, SendAnswerIs
    <2> QED
      BY <1>11, <2>1, <2>2, <2>3, SendAnswerIs
  <1>12. CASE AnswerReturns
    <2>1. submission' = Silence /\ screen'.at \in {"closed", "asking"}
      BY <1>12, AnswerReturnsIs
    <2> QED
      BY <2>1 DEF SubmissionShown
  <1>13. CASE GoToBackground
    BY <1>2, <1>13 DEF GoToBackground
  <1>14. ASSUME NEW t \in DOMAIN tasks, Moves(t) PROVE SubmissionShown'
    BY <1>2, <1>14 DEF Moves, Wake, Send, Lands, Fails
  <1> QED
    BY <1>3, <1>4, <1>5, <1>6, <1>7, <1>8, <1>9, <1>10, <1>11, <1>12, <1>13, <1>14 DEF PhoneNext, Moves

\* Every step keeps SubmissionSound.
LEMMA SubmissionStep ==
  ASSUME PhoneTypeOK, PhoneTypeOK', WordsSaid, TurnsRise, SubmissionSound, SleepersSound, AnswersSound, PhoneNext
  PROVE  SubmissionSound'
  <1>1. SubmissionShown'
    BY ShownStep
  <1>2. ASSUME screen'.at = "loading", NEW x \in resets' PROVE x.visit # screen'.visit
    <2>1. CASE OpenReview
      <3>1. x \in resets /\ screen'.visit = screen.visit + 1
        BY <1>2, <2>1, OpenReviewIs DEF OpenReview
      <3> QED
        BY <3>1, TurnsAre DEF TurnsRise
    <2>2. CASE StartReturns
      BY <1>2, <2>2, StartReturnsIs DEF StartReturns, SubmissionSound, SameTurn
    <2>3. CASE screen.at = "loading" /\ screen'.visit = screen.visit /\ resets' \subseteq resets
      BY <1>2, <2>3 DEF SubmissionSound
    <2>4. ASSUME NEW y \in resets, ResetEnds(y)
          PROVE  screen.at = "loading" /\ screen'.visit = screen.visit /\ resets' \subseteq resets
      BY <1>2, <2>4, ResetEndsIs DEF SameTurn
    <2>5. CASE LoadText \/ LoadDiscarded \/ CloseReview \/ Kill \/ AnswerReturns
      BY <1>2, <2>5, LoadTextIs, LoadDiscardedIs, ClosedIs, AnswerReturnsIs DEF CloseReview, Kill, AnswerReturns
    <2>6. CASE Say \/ StartOver
      BY <1>2, <2>6, SayIs, StartOverIs DEF Say, Mutable, StartOver
    <2>7. CASE SendAnswer
      <3>1. screen' = screen /\ resets' = resets
        BY <1>2, <2>7, SendAnswerAdds DEF SendAnswer
      <3> QED
        BY <1>2, <2>3, <3>1
    <2>8. CASE UNCHANGED <<screen, resets>>
      BY <1>2, <2>3, <2>8
    <2>9. GoToBackground \/ Submit \/ (\E t \in DOMAIN tasks : Wake(t) \/ Send(t) \/ Lands(t) \/ Fails(t))
              => UNCHANGED <<screen, resets>>
      BY DEF GoToBackground, Submit, Wake, Send, Lands, Fails
    <2> QED
      BY <2>1, <2>2, <2>3, <2>4, <2>5, <2>6, <2>7, <2>8, <2>9 DEF PhoneNext
  <1>3. ASSUME submission' # Silence
        PROVE  /\ \A w \in {secured', discarded'} : w # Silence => w.turn <= submission'.turn
               /\ \A x \in resets' : x.turn <= submission'.turn
    <2>1. CASE Submit
      <3>1. screen.at = "asking" /\ UNCHANGED <<screen, resets>>
        BY <2>1 DEF Submit, Mutable
      <3>2. Current' = Current /\ Current = screen.turn /\ submission'.turn = screen.turn
        BY <2>1, <3>1, SubmitIs DEF Current
      <3> QED
        BY <3>1, <3>2, SecuredRises DEF TurnsRise
    <2>2. CASE SendAnswer
      <3>1. submission # Silence /\ UNCHANGED <<resets, history>> /\ submission'.turn = submission.turn
        BY <1>3, <2>2, SendAnswerIs DEF SendAnswer
      <3> QED
        BY <3>1 DEF SubmissionSound, history
    <2>3. CASE submission # Silence /\ UNCHANGED submission
      <3>1. \A w \in {secured', discarded'} : w # Silence => w.turn <= submission'.turn
        BY <2>3, SubmissionKeeps
      <3>2. ASSUME NEW x \in resets' PROVE x.turn <= submission.turn
        <4>1. CASE x \in resets
          BY <2>3, <4>1 DEF SubmissionSound
        <4>2. CASE x \notin resets /\ StartOver
          <5>1. screen.turn = submission.turn /\ x.turn = screen.turn
            BY <2>3, <3>2, <4>2, StartOverMakes DEF SubmissionSound, StartOver
          <5> QED
            BY <2>3, <5>1, TurnsAre
        <4>3. CASE LoadDiscarded
          BY <2>3, <4>3 DEF LoadDiscarded, SubmissionSound
        <4> QED
          BY <3>2, <4>1, <4>2, <4>3, ResetsGrow
      <3> QED
        BY <2>3, <3>1, <3>2
    <2>4. Submit \/ SendAnswer \/ UNCHANGED submission
      BY <1>3 DEF PhoneNext, OpenReview, StartReturns, LoadText, LoadDiscarded, Say, GoToBackground, CloseReview,
         StartOver, ResetEnds, AnswerReturns, Wake, Send, Lands, Fails, Kill
    <2> QED
      BY <1>3, <2>1, <2>2, <2>3, <2>4
  <1>4. ASSUME submission' # Silence, submission'.task # 0
        PROVE  /\ submission'.task \in DOMAIN tasks' /\ tasks'[submission'.task].kind = "answer"
               /\ tasks'[submission'.task].turn = submission'.turn
    <2>1. CASE Submit
      BY <1>4, <2>1, SubmitIs
    <2>2. CASE SendAnswer
      <3>1. submission # Silence /\ submission.task = 0
        BY <2>2 DEF SendAnswer
      <3>2. screen' # screen
        BY <1>4, <2>2, <3>1, SendAnswerIs, ScreenIs
      <3>3. /\ Adds(Task("answer", submission.text, submission.turn, "wire", 0), 0)
            /\ submission'.turn = submission.turn /\ submission'.task = NewTask
        BY <2>2, <3>2, SendAnswerAdds
      <3>4. NewTask \in DOMAIN tasks' /\ tasks'[NewTask].kind = "answer" /\ tasks'[NewTask].turn = submission.turn
        BY <3>3, CallMade, Zenon
      <3> QED
        BY <3>3, <3>4
    <2>3. CASE submission # Silence /\ UNCHANGED submission
      <3> DEFINE t == submission.task
      <3>1. t \in DOMAIN tasks /\ tasks[t].kind = "answer" /\ tasks[t].turn = submission.turn
        BY <1>4, <2>3 DEF SubmissionSound
      <3>2. t \in DOMAIN tasks' /\ SameCall(tasks'[t], tasks[t])
        BY <3>1, KindStays
      <3> QED
        BY <2>3, <3>1, <3>2 DEF SameCall
    <2>4. Submit \/ SendAnswer \/ UNCHANGED submission
      BY <1>4 DEF PhoneNext, OpenReview, StartReturns, LoadText, LoadDiscarded, Say, GoToBackground, CloseReview,
         StartOver, ResetEnds, AnswerReturns, Wake, Send, Lands, Fails, Kill
    <2> QED
      BY <1>4, <2>1, <2>2, <2>3, <2>4
  <1> QED
    BY <1>1, <1>2, <1>3, <1>4 DEF SubmissionSound, SubmissionShown

-----------------------------------------------------------------------------
\* What is being edited is saved and uploaded.
LEMMA FlushMust ==
  ASSUME PhoneTypeOK, Flush, Flushes, submission = Silence
  PROVE  Flushed
  <1>1. /\ Save(screen.text, screen.turn)
        /\ Launch(Task("upload", screen.text, screen.turn, "wait", chain))
        /\ chain' = NewTask
    BY DEF Flush
  <1>2. Task("upload", screen.text, screen.turn, "wait", chain) \in CallRecords
    BY ScreenUploadIs
  <1>3. Adds(Task("upload", screen.text, screen.turn, "wait", chain), chain)
    BY <1>1, <1>2, LaunchAdds
  <1> QED
    BY <1>1, <1>3 DEF Flushed

\* Every step keeps SleepersSound: a text that is replaced has its upload cancelled.
LEMMA SleepersStep ==
  ASSUME PhoneTypeOK, SubmissionSound, SleepersSound, PhoneNext
  PROVE  SleepersSound'
  <1>1. ASSUME NEW t \in DOMAIN tasks', tasks'[t].stage = "sleep"
        PROVE  /\ tasks'[t].kind = "upload"
               /\ ~tasks'[t].cancelled =>
                   /\ t = chain' /\ screen'.at = "asking" /\ ~screen'.resetting /\ submission' = Silence
                   /\ tasks'[t].text = screen'.text /\ tasks'[t].turn = screen'.turn
    <2>1. CASE t \notin DOMAIN tasks
      <3>1. /\ Say /\ tasks'[t].kind = "upload" /\ tasks'[t].text = screen'.text
            /\ tasks'[t].turn = screen.turn /\ chain' = t
        BY <1>1, <2>1, NewTaskIs
      <3>2. /\ screen.at = "asking" /\ ~screen.resetting /\ submission' = Silence
        BY <3>1 DEF Say, Mutable
      <3>3. screen'.at = screen.at /\ screen'.resetting = screen.resetting /\ screen'.turn = screen.turn
        BY <3>1, SayIs DEF SameTurn
      <3> QED
        BY <3>1, <3>2, <3>3
    <2>2. CASE t \in DOMAIN tasks
      <3>1. ASSUME NEW stage \in {"wait", "wire", "ok", "failed", "ended"}, Advances(t, stage) PROVE FALSE
        BY <1>1, <3>1, GoneIs DEF Advances
      <3>2. tasks'[t] # Gone
        BY <1>1, GoneIs
      <3>3. /\ Alike(tasks'[t], tasks[t])
            /\ tasks'[t].cancelled = tasks[t].cancelled \/ (Cancels /\ t = chain)
        BY <2>2, <3>1, <3>2, OldTask
      <3>4. tasks[t].stage = "sleep" /\ tasks[t].kind = "upload" /\ tasks'[t].kind = "upload"
        BY <1>1, <2>2, <3>3 DEF Alike, SleepersSound
      <3>5. ASSUME ~tasks'[t].cancelled
            PROVE  /\ t = chain' /\ screen'.at = "asking" /\ ~screen'.resetting /\ submission' = Silence
                   /\ tasks'[t].text = screen'.text /\ tasks'[t].turn = screen'.turn
        <4>1. ~tasks[t].cancelled
          BY <2>2, <3>3, <3>5, CancelsIs, TasksAre
        <4>2. /\ t = chain /\ screen.at = "asking" /\ ~screen.resetting /\ submission = Silence
              /\ tasks[t].text = screen.text /\ tasks[t].turn = screen.turn
          BY <2>2, <3>4, <4>1 DEF SleepersSound
        <4>3. ~Cancels
          <5>1. ~Ended(t)
            BY <2>2, <3>4, TasksAre DEF Ended
          <5> QED
            BY <2>2, <3>5, <4>2, <5>1, CancelsIs
        <4>4. CASE UNCHANGED <<chain, submission, screen>>
          BY <3>3, <4>2, <4>4 DEF Alike
        <4>5. ASSUME NEW x \in resets, ResetEnds(x)
              PROVE  /\ t = chain' /\ screen'.at = "asking" /\ ~screen'.resetting /\ submission' = Silence
                     /\ tasks'[t].text = screen'.text /\ tasks'[t].turn = screen'.turn
          <5>1. UNCHANGED <<chain, submission>>
            BY <4>5 DEF ResetEnds
          <5> QED
            BY <3>3, <4>2, <4>5, <5>1, ResetEndsIs DEF Alike, SameTurn, SameText
        <4>6. CASE Flush
          BY <4>2, <4>3, <4>6, FlushIs, FlushMust DEF Cancels, Flushes
        <4>7. ~(OpenReview \/ StartReturns \/ LoadText \/ LoadDiscarded \/ SendAnswer \/ AnswerReturns)
          BY <4>2 DEF OpenReview, StartReturns, LoadText, LoadDiscarded, SendAnswer, AnswerReturns
        <4>8. ASSUME NEW b \in DOMAIN tasks, Moves(b) PROVE UNCHANGED <<chain, submission, screen>>
          BY <4>8 DEF Moves, Wake, Send, Lands, Fails
        <4>9. ~Kill
          BY <2>2, <3>2, <3>4, KillIs
        <4> QED
          BY <4>3, <4>4, <4>5, <4>6, <4>7, <4>8, <4>9 DEF PhoneNext, Cancels, GoToBackground, CloseReview, Moves
      <3> QED
        BY <3>4, <3>5
    <2> QED
      BY <2>1, <2>2
  <1> QED
    BY <1>1 DEF SleepersSound

-----------------------------------------------------------------------------
\* Every step keeps EmptySound.
LEMMA EmptyStep ==
  ASSUME PhoneTypeOK, SubmissionSound, SleepersSound, EmptySound, PhoneNext
  PROVE  EmptySound'
  <1>1. CASE screen'.at # "asking" \/ submission' # Silence \/ screen'.text # Silence
    BY <1>1 DEF EmptySound
  <1>2. CASE file' = Silence
    BY <1>2 DEF EmptySound, Read
  <1>3. CASE /\ UNCHANGED <<file, submission>> /\ screen'.at = screen.at /\ screen'.turn = screen.turn
             /\ screen'.text = screen.text
    BY <1>3 DEF EmptySound, Read
  <1>4. CASE OpenReview \/ StartReturns \/ CloseReview \/ Kill
    BY <1>1, <1>4, OpenReviewIs, StartReturnsIs, ClosedIs DEF CloseReview, Kill
  <1>5. CASE LoadText
    BY <1>5, LoadTextIs DEF LoadText, EmptySound, Read
  <1>6. CASE LoadDiscarded
    <2>1. UNCHANGED file /\ file = [turn |-> screen'.turn, text |-> Silence]
      BY <1>6, LoadDiscardedIs DEF LoadDiscarded, IsDiscarded
    <2>2. Read(screen'.turn) = Silence
      BY <2>1 DEF Read
    <2> QED
      BY <2>1, <2>2 DEF EmptySound, Read
  <1>7. CASE Say
    BY <1>1, <1>7, SayIs
  <1>8. CASE GoToBackground
    <2>1. UNCHANGED <<screen, submission>> /\ Flush
      BY <1>8 DEF GoToBackground
    <2>2. CASE Flushed
      <3>1. screen.text = Silence => file' = Silence
        BY <2>2, ScreenIs, SaveIs DEF Flushed
      <3> QED
        BY <1>1, <1>2, <2>1, <3>1
    <2> QED
      BY <1>1, <1>3, <2>1, <2>2, FlushIs
  <1>9. CASE StartOver
    BY <1>9, StartOverIs DEF EmptySound, Read
  <1>10. ASSUME NEW x \in resets, ResetEnds(x) PROVE EmptySound'
    <2>1. submission' = submission
      BY <1>10 DEF ResetEnds
    <2> QED
      BY <1>2, <1>3, <1>10, <2>1, ResetEndsIs DEF SameTurn, SameText
  <1>11. CASE Submit
    BY <1>1, <1>11, SubmitIs
  <1>12. CASE SendAnswer
    <2>1. CASE ~Owns(submission.turn) /\ submission' = Silence /\ UNCHANGED screen
      <3>1. screen.at # "asking"
        BY <1>12, <2>1 DEF SendAnswer, Owns, SubmissionSound
      <3> QED
        BY <1>1, <2>1, <3>1
    <2> QED
      BY <1>1, <1>12, <2>1, SendAnswerIs
  <1>13. CASE AnswerReturns
    <2>1. submission # Silence
      BY <1>13 DEF AnswerReturns
    <2> QED
      BY <1>1, <1>2, <1>13, <2>1, AnswerReturnsIs, SubmissionIs
  <1>14. ASSUME NEW t \in DOMAIN tasks, Wake(t) PROVE EmptySound'
    <2>1. UNCHANGED <<screen, submission>>
      BY <1>14 DEF Wake
    <2>2. CASE Wakes(t) /\ Save(tasks[t].text, tasks[t].turn)
      <3>1. tasks[t].text = screen.text /\ tasks[t].turn = screen.turn
        BY <1>14, <2>2 DEF Wake, Wakes, SleepersSound
      <3>2. screen.text = Silence => file' = Silence
        BY <2>2, <3>1, ScreenIs, SaveIs
      <3> QED
        BY <1>1, <1>2, <2>1, <3>2
    <2>3. CASE UNCHANGED file
      BY <1>3, <2>1, <2>3
    <2> QED
      BY <1>14, <2>2, <2>3 DEF Wake
  <1>15. ASSUME NEW t \in DOMAIN tasks, Send(t) \/ Lands(t) \/ Fails(t) PROVE EmptySound'
    BY <1>3, <1>15 DEF Send, Lands, Fails
  <1> QED
    BY <1>4, <1>5, <1>6, <1>7, <1>8, <1>9, <1>10, <1>11, <1>12, <1>13, <1>14, <1>15 DEF PhoneNext

-----------------------------------------------------------------------------
(* Resets, and the words that were saved                                   *)

\* A mishap is not forgotten.
LEMMA MishapsGrow ==
  ASSUME PhoneNext
  PROVE  mishaps \subseteq mishaps'
  <1>1. ASSUME NEW name, NEW happens, Mishap(name, happens) PROVE mishaps \subseteq mishaps'
    BY <1>1 DEF Mishap
  <1>2. ASSUME NEW text, NEW turn, Save(text, turn) PROVE mishaps \subseteq mishaps'
    BY <1>1, <1>2 DEF Save
  <1>3. CASE LoadDiscarded \/ StartOver
    BY <1>1, <1>3 DEF LoadDiscarded, StartOver
  <1>4. CASE Flush
    BY <1>2, <1>4 DEF Flush, history
  <1>5. CASE Submit
    BY <1>2, <1>5 DEF Submit
  <1>6. ASSUME NEW t \in DOMAIN tasks, Wake(t) PROVE mishaps \subseteq mishaps'
    BY <1>1, <1>2, <1>6 DEF Wake
  <1>7. CASE UNCHANGED mishaps
    BY <1>7
  <1>8. LoadDiscarded \/ StartOver \/ Flush \/ Submit \/ (\E t \in DOMAIN tasks : Wake(t)) \/ UNCHANGED mishaps
    BY DEF PhoneNext, OpenReview, StartReturns, LoadText, Say, GoToBackground, CloseReview,
       ResetEnds, SendAnswer, AnswerReturns, Send, Lands, Fails, Kill, history
  <1> QED
    BY <1>3, <1>4, <1>5, <1>6, <1>7, <1>8

\* A start over begins only after the one before it has ended.
LEMMA OneAtATime ==
  ASSUME OneReset', StartOver \/ LoadDiscarded
  PROVE  resets = {}
  BY DEF OneReset, StartOver, LoadDiscarded, Mishap

\* An answer that came through is of a turn that has passed.
LEMMA AnswerPasses ==
  ASSUME PhoneTypeOK, PhoneTypeOK', TurnsRise, SubmissionSound, AnswersSound, PhoneNext,
         AnswerReturns, tasks[submission.task].stage = "ok"
  PROVE  /\ submission.turn < Current'
         /\ \A x \in resets' : x.turn < Current' /\ (screen'.at \in {"asking", "processing"} => x.turn # screen'.turn)
         /\ secured' = secured /\ (secured # Silence => secured.turn < Current')
         /\ screen'.at \in {"asking", "processing"} => screen'.turn = Current'
  <1>1. /\ submission # Silence /\ submission.task # 0 /\ submission.turn \in Nat
        /\ screen'.at \in {"asking", "processing"} => screen'.turn = Current'
    BY TurnsAre DEF AnswerReturns, Current
  <1>2. submission.turn < remote.turn /\ remote' = remote
    BY <1>1 DEF AnswerReturns, SubmissionSound, AnswersSound
  <1>3. Current' = remote.turn \/ Current' = submission.turn + 1
    <2>1. screen'.at = "closed" \/ (screen'.at = "asking" /\ screen'.turn = submission.turn + 1)
      BY AnswerReturnsIs
    <2> QED
      BY <1>2, <2>1 DEF Current
  <1>4. submission.turn < Current' /\ Current' \in Nat
    BY <1>1, <1>2, <1>3, TurnsAre
  <1>5. resets' = resets /\ secured' = secured
    BY DEF AnswerReturns, history
  <1>6. secured # Silence => secured.turn <= submission.turn /\ secured.turn \in Nat
    BY <1>1, TurnsAre, PartsAre DEF SubmissionSound
  <1>7. \A x \in resets : x.turn <= submission.turn /\ x.turn \in Nat
    BY <1>1, TurnsAre DEF SubmissionSound
  <1> QED
    BY <1>1, <1>4, <1>5, <1>6, <1>7

\* A start over that waits keeps the editor shut.
LEMMA ResetShuts ==
  ASSUME PhoneTypeOK, ResetsSound, NEW x \in resets, x.turn = Current
  PROVE  ~Mutable /\ ~Flushes /\ IsDiscarded(x.turn)
  BY ScreenIs DEF ResetsSound, Mutable, Flushes

\* Every step keeps ResetsSound, as long as start overs do not overlap.
LEMMA ResetsStep ==
  ASSUME PhoneTypeOK, PhoneTypeOK', TurnsRise, TurnsRise', SubmissionSound, AnswersSound, SleepersSound,
         ResetsSound, OneReset', PhoneNext
  PROVE  ResetsSound'
  <1>1. ASSUME NEW x \in resets', x \notin resets
        PROVE  /\ resets' = {x}
               /\ StartOver \/ LoadDiscarded
               /\ IsDiscarded(x.turn)' /\ screen'.resetting
               /\ x.by = "load" => screen'.at = "asking" /\ screen'.text = Silence /\ submission' = Silence
    <2>1. StartOver \/ LoadDiscarded
      BY <1>1, ResetsGrow
    <2>2. resets = {}
      BY <2>1, OneAtATime
    <2>3. CASE StartOver
      <3>1. resets' = {x}
        BY <1>1, <2>2, <2>3 DEF StartOver
      <3>2. x.by = "start over" /\ x.turn = screen.turn
        BY <1>1, <2>3, StartOverMakes
      <3> QED
        BY <2>1, <2>3, <3>1, <3>2, StartOverIs DEF IsDiscarded
    <2>4. CASE LoadDiscarded
      <3>1. resets' = {x}
        BY <1>1, <2>2, <2>4 DEF LoadDiscarded
      <3>2. x.turn = screen.start.turn
        BY <1>1, <2>4, LoadMakes
      <3>3. IsDiscarded(screen.start.turn) /\ file' = file /\ submission' = Silence
        BY <2>4 DEF LoadDiscarded, SubmissionSound
      <3> QED
        BY <2>1, <2>4, <3>1, <3>2, <3>3, LoadDiscardedIs DEF IsDiscarded
    <2> QED
      BY <2>1, <2>3, <2>4
  <1>2. ASSUME NEW x \in resets', x \in resets
        PROVE  ~StartOver /\ ~LoadDiscarded /\ ~Kill /\ resets' = resets /\ ~\E y \in resets : ResetEnds(y)
    <2>1. ~StartOver /\ ~LoadDiscarded
      BY <1>2, OneAtATime
    <2>2. ~Kill
      BY <1>2 DEF Kill
    <2>3. ASSUME NEW y \in resets, ResetEnds(y) PROVE FALSE
      BY <1>2, <2>3 DEF ResetEnds, ResetsSound
    <2> QED
      BY <2>1, <2>2, <2>3 DEF PhoneNext, OpenReview, StartReturns, LoadText, Say, GoToBackground, CloseReview,
         Submit, SendAnswer, AnswerReturns, Wake, Send, Lands, Fails
  <1>3. ASSUME NEW x \in resets', x \in resets, x.turn = Current'
        PROVE  IsDiscarded(x.turn)' /\ (screen'.at \in {"asking", "processing"} => screen'.resetting)
    <2>1. x.turn = Current
      <3>1. /\ x.turn <= Current /\ Current <= Current'
            /\ Current \in Nat /\ Current' \in Nat /\ x.turn \in Nat
        BY <1>3, CurrentRises, CurrentNext, TurnsAre DEF TurnsRise
      <3> QED
        BY <1>3, <3>1
    <2>2. ~Mutable /\ ~Flushes /\ IsDiscarded(x.turn)
      BY <1>3, <2>1, ResetShuts
    <2>3. screen.at \in {"asking", "processing"} => screen.resetting
      BY <1>3, <2>1 DEF ResetsSound
    <2>4. CASE file' = file /\ (screen'.at \in {"asking", "processing"} =>
                    screen.at \in {"asking", "processing"} /\ screen'.resetting = screen.resetting)
      BY <2>2, <2>3, <2>4 DEF IsDiscarded
    <2>5. CASE OpenReview \/ StartReturns
      BY <2>4, <2>5, OpenReviewIs, StartReturnsIs DEF OpenReview, StartReturns
    <2>6. ~LoadText
      BY <2>1, <2>2 DEF LoadText, Current
    <2>7. ~Say /\ ~Submit
      BY <2>2 DEF Say, Submit
    <2>8. CASE GoToBackground \/ CloseReview
      BY <2>2, <2>4, <2>8, ClosedIs DEF GoToBackground, CloseReview, Flush
    <2>9. CASE SendAnswer
      <3>1. file' = file
        BY <2>9 DEF SendAnswer
      <3> QED
        BY <2>4, <2>9, <3>1, SendAnswerIs
    <2>10. CASE AnswerReturns
      <3>1. tasks[submission.task].stage # "ok"
        BY <1>3, <2>10, AnswerPasses, CurrentNext
      <3>2. screen.at # "closed" => screen.at = "processing"
        BY <2>10 DEF AnswerReturns, SubmissionSound
      <3> QED
        BY <2>4, <2>10, <3>1, <3>2, AnswerReturnsIs
    <2>11. ASSUME NEW t \in DOMAIN tasks, Moves(t)
           PROVE  UNCHANGED <<file, screen>>
      <3>1. CASE Wake(t)
        BY <2>2, <3>1 DEF Wake, Wakes, SleepersSound, Mutable
      <3>2. CASE Send(t) \/ Lands(t) \/ Fails(t)
        BY <3>2 DEF Send, Lands, Fails
      <3> QED
        BY <2>11, <3>1, <3>2 DEF Moves
    <2> QED
      BY <1>2, <1>3, <2>4, <2>5, <2>6, <2>7, <2>8, <2>9, <2>10, <2>11 DEF PhoneNext, Moves
  <1>4. ASSUME NEW x \in resets', x \in resets, x.by = "load", x.visit = screen'.visit,
               screen'.at \in {"asking", "processing"}, screen'.turn = x.turn
        PROVE  screen'.at = "asking" /\ screen'.text = Silence /\ submission' = Silence
    <2>1. screen.at \in {"asking", "processing"} /\ screen.turn = x.turn =>
              /\ x.turn = Current
              /\ ~Mutable
              /\ x.visit = screen.visit => screen.at = "asking" /\ screen.text = Silence /\ submission = Silence
      BY <1>4, ResetShuts DEF ResetsSound, Owns, Current
    <2>2. CASE UNCHANGED <<screen, submission>>
      BY <1>4, <2>1, <2>2
    <2>3. ~OpenReview /\ ~StartReturns /\ ~CloseReview
      BY <1>4, OpenReviewIs, StartReturnsIs, ClosedIs DEF CloseReview
    <2>4. ~LoadText
      BY <1>4, LoadTextIs DEF LoadText, SubmissionSound
    <2>5. CASE Say
      BY <1>4, <2>1, <2>5, SayIs DEF Say, Mutable, SameTurn
    <2>6. CASE Submit
      BY <1>4, <2>1, <2>6 DEF Submit, Mutable
    <2>7. CASE SendAnswer
      <3>1. submission # Silence
        BY <2>7 DEF SendAnswer
      <3>2. CASE screen' # screen
        BY <1>4, <2>1, <2>7, <3>1, <3>2, SendAnswerAdds DEF SameTurn
      <3>3. CASE screen' = screen
        BY <1>4, <2>1, <3>1, <3>3
      <3> QED
        BY <3>2, <3>3
    <2>8. CASE AnswerReturns
      <3>1. tasks[submission.task].stage # "ok"
        BY <1>4, <2>8, AnswerPasses
      <3>2. screen.at # "closed" => screen.at = "processing"
        BY <2>8 DEF AnswerReturns, SubmissionSound
      <3> QED
        BY <1>4, <2>1, <2>8, <3>1, <3>2, AnswerReturnsIs
    <2>9. CASE GoToBackground
      BY <2>2, <2>9 DEF GoToBackground
    <2>10. ASSUME NEW t \in DOMAIN tasks, Moves(t) PROVE UNCHANGED <<screen, submission>>
      BY <2>10 DEF Moves, Wake, Send, Lands, Fails
    <2> QED
      BY <1>2, <1>4, <2>2, <2>3, <2>4, <2>5, <2>6, <2>7, <2>8, <2>9, <2>10 DEF PhoneNext, Moves
  <1>5. \A x, y \in resets' : x = y
    <2>1. CASE resets' \subseteq resets
      BY <2>1 DEF ResetsSound
    <2>2. CASE ~(resets' \subseteq resets)
      <3>1. PICK x \in resets' : x \notin resets
        BY <2>2
      <3>2. resets' = {x}
        BY <1>1, <3>1
      <3> QED
        BY <3>2
    <2> QED
      BY <2>1, <2>2
  <1> QED
    BY <1>1, <1>3, <1>4, <1>5 DEF ResetsSound, Owns, IsDiscarded

-----------------------------------------------------------------------------
\* The order of words.
LEMMA AfterIs ==
  ASSUME NEW a \in Words, NEW b \in Words, ~After(a, b), ~After(b, a), a # Silence, b # Silence
  PROVE  a = b
  <1>1. /\ a.turn \in Nat /\ b.turn \in Nat /\ a.n \in Nat /\ b.n \in Nat
        /\ a = [turn |-> a.turn, n |-> a.n] /\ b = [turn |-> b.turn, n |-> b.n]
    BY PhoneAssumption DEF Words
  <1> QED
    BY <1>1 DEF After

\* What is on the screen, once it is saved, is the latest.
LEMMA SaveKeeps ==
  ASSUME PhoneTypeOK, WordsSaid, TurnsRise, WordsKept, screen.at = "asking", Save(screen.text, screen.turn)
  PROVE  /\ screen.text # Silence =>
                 secured' = screen.text /\ screen.text.turn = screen.turn
                 /\ file' = [turn |-> screen.turn, text |-> screen.text]
         /\ screen.text = Silence =>
                 file' = Silence /\ secured' = secured /\ (secured # Silence => secured.turn < Current)
         /\ screen.turn = Current
  <1>1. /\ screen.turn = Current /\ screen.turn \in Nat /\ screen.turn \in 0 .. LastTurn
        /\ screen.text \in Utterances /\ secured \in Utterances
        /\ secured # Silence => secured \in Words /\ secured.turn \in Nat /\ secured.turn <= Current
    BY TurnsAre, ScreenIs, PartsAre DEF Current, TurnsRise
  <1>2. secured # Silence /\ secured.turn = screen.turn => screen.text # Silence /\ ~After(secured, screen.text)
    BY DEF WordsKept, WordsReturn, Back
  <1>3. CASE screen.text = Silence
    <2>1. file' = Silence /\ secured' = secured
      BY <1>1, <1>3, SaveIs
    <2>2. secured # Silence => secured.turn # screen.turn
      BY <1>2, <1>3
    <2> QED
      BY <1>1, <1>3, <2>1, <2>2
  <1>4. CASE screen.text # Silence
    <2>1. screen.text \in Words /\ screen.text.turn = screen.turn
      BY <1>4 DEF WordsSaid, Uttered
    <2>2. After(screen.text, secured) \/ screen.text = secured
      <3>1. CASE secured = Silence \/ secured.turn < screen.turn
        BY <1>1, <2>1, <3>1 DEF After
      <3>2. CASE secured # Silence /\ secured.turn = screen.turn
        BY <1>1, <1>2, <2>1, <3>2, AfterIs
      <3> QED
        BY <1>1, <3>1, <3>2
    <2>3. /\ file' = [turn |-> screen.turn, text |-> screen.text]
          /\ secured' = IF After(screen.text, secured) THEN screen.text ELSE secured
      BY <1>1, <1>4, SaveIs
    <2> QED
      BY <1>1, <1>4, <2>1, <2>2, <2>3
  <1> QED
    BY <1>3, <1>4

\* The saves of what is on the screen.
Saves == screen.at = "asking" /\ Save(screen.text, screen.turn)

\* An upload that wakes saves what is on the screen, or finds itself cancelled.
LEMMA WakeSaves ==
  ASSUME PhoneTypeOK, SleepersSound, NEW t \in DOMAIN tasks, Wake(t)
  PROVE  (Saves /\ submission = Silence) \/ UNCHANGED <<file, secured, discarded>>
  BY DEF Wake, Wakes, SleepersSound, Saves

\* The steps at which the latest words change, or the file.
LEMMA SavingSteps ==
  ASSUME PhoneTypeOK, SleepersSound, PhoneNext
  PROVE  \/ Saves /\ (screen' = screen \/ screen'.at = "closed")
         \/ StartOver \/ AnswerReturns \/ \E x \in resets : ResetEnds(x)
         \/ UNCHANGED <<file, secured, discarded>>
  <1>1. CASE Flush /\ (screen' = screen \/ CloseReview)
    <2>1. screen' = screen \/ screen'.at = "closed"
      BY <1>1, ClosedIs DEF CloseReview
    <2> QED
      BY <1>1, <2>1, FlushIs DEF Flushed, Flushes, Saves, history
  <1>2. CASE Submit
    BY <1>2 DEF Submit, Mutable, Saves
  <1>3. ASSUME NEW t \in DOMAIN tasks, Wake(t)
        PROVE  (Saves /\ screen' = screen) \/ UNCHANGED <<file, secured, discarded>>
    BY <1>3, WakeSaves DEF Wake
  <1>4. CASE GoToBackground \/ CloseReview
    BY <1>1, <1>4 DEF GoToBackground, CloseReview
  <1>5. CASE OpenReview \/ StartReturns \/ LoadText \/ LoadDiscarded \/ Say \/ SendAnswer \/ Kill
    BY <1>5 DEF OpenReview, StartReturns, LoadText, LoadDiscarded, Say, SendAnswer, Kill, history
  <1>6. ASSUME NEW t \in DOMAIN tasks, Send(t) \/ Lands(t) \/ Fails(t)
        PROVE  UNCHANGED <<file, secured, discarded>>
    BY <1>6 DEF Send, Lands, Fails, history
  <1> QED
    BY <1>2, <1>3, <1>4, <1>5, <1>6 DEF PhoneNext

\* Every step keeps WordsKept: words last saved leave the file only when their turn has
\* passed.
LEMMA KeptStep ==
  ASSUME PhoneTypeOK, PhoneTypeOK', WordsSaid, TurnsRise, TurnsRise', SubmissionSound, AnswersSound,
         SleepersSound, ResetsSound, WordsKept, PhoneNext
  PROVE  WordsKept'
  <1>1. /\ Current \in Nat /\ Current' \in Nat /\ Current <= Current'
        /\ secured # Silence => secured.turn \in Nat /\ secured.turn <= Current /\ secured \in Words
                                /\ secured.n \in Nat
        /\ \A turn \in Nat : Passed(turn) => turn < Current'
        /\ secured # Silence => file = [turn |-> secured.turn, text |-> secured] \/ Passed(secured.turn)
    BY TurnsAre, PartsAre, CurrentNext, CurrentRises DEF TurnsRise, Passed, WordsKept
  <1>2. ASSUME NEW x \in resets, ResetEnds(x), file' # file PROVE file = [turn |-> x.turn, text |-> Silence]
    <2>1. Owns(x.turn)
      BY <1>2, ResetEndsIs
    <2> QED
      BY <2>1 DEF ResetsSound, Owns, Current, IsDiscarded
  <1>3. ASSUME secured' # Silence
        PROVE  file' = [turn |-> secured'.turn, text |-> secured'] \/ secured'.turn < Current'
    <2>1. CASE Saves
      <3>1. CASE screen.text = Silence
        BY <1>1, <1>3, <2>1, <3>1, SaveKeeps DEF Saves
      <3>2. CASE screen.text # Silence
        BY <1>1, <1>3, <2>1, <3>2, SaveKeeps DEF Saves
      <3> QED
        BY <3>1, <3>2
    <2>2. CASE StartOver
      BY <1>3, <2>2 DEF StartOver
    <2>3. CASE AnswerReturns
      <3>1. CASE tasks[submission.task].stage = "ok"
        BY <1>3, <2>3, <3>1, AnswerPasses
      <3>2. CASE tasks[submission.task].stage # "ok"
        BY <1>1, <1>3, <2>3, <3>2 DEF AnswerReturns, history
      <3> QED
        BY <3>1, <3>2
    <2>4. ASSUME NEW x \in resets, ResetEnds(x)
          PROVE  file' = [turn |-> secured'.turn, text |-> secured'] \/ secured'.turn < Current'
      <3>1. secured' = secured
        BY <2>4 DEF ResetEnds, history
      <3>2. CASE file' = file
        BY <1>1, <1>3, <3>1, <3>2
      <3>3. CASE file' # file
        <4>1. file = [turn |-> x.turn, text |-> Silence]
          BY <1>2, <2>4, <3>3
        <4>2. file # [turn |-> secured.turn, text |-> secured]
          BY <1>3, <3>1, <4>1
        <4> QED
          BY <1>1, <1>3, <3>1, <4>2
      <3> QED
        BY <3>2, <3>3
    <2>5. CASE UNCHANGED <<file, secured>>
      BY <1>1, <1>3, <2>5
    <2> QED
      BY <2>1, <2>2, <2>3, <2>4, <2>5, SavingSteps
  <1>4. ASSUME screen'.at = "asking", secured' # Silence, secured'.turn = screen'.turn
        PROVE  screen'.text # Silence /\ ~After(secured', screen'.text)
    <2>1. ASSUME NEW w \in Words PROVE ~After(w, w) \/ w = Silence
      <3>1. w.turn \in Nat /\ w.n \in Nat
        BY PhoneAssumption DEF Words
      <3> QED
        BY <3>1 DEF After
    <2>2. CASE Saves /\ screen' = screen
      <3>1. CASE screen.text = Silence
        BY <1>1, <1>4, <2>2, <3>1, SaveKeeps DEF Saves
      <3>2. CASE screen.text # Silence
        BY <1>4, <2>1, <2>2, <3>2, SaveKeeps, TurnsAre, ScreenIs DEF Saves
      <3> QED
        BY <3>1, <3>2
    <2>3. CASE screen.at = "asking" /\ screen'.turn = screen.turn /\ screen'.text = screen.text
               /\ secured' = secured
      BY <1>4, <2>3 DEF WordsKept, WordsReturn, Back
    <2>4. CASE LoadText \/ LoadDiscarded
      <3>1. /\ screen.at = "loading" /\ screen.start # Silence /\ secured' = secured
            /\ screen'.turn = screen.start.turn
        BY <2>4, LoadTextIs, LoadDiscardedIs DEF LoadText, LoadDiscarded, history
      <3>2. ~Passed(secured.turn)
        BY <1>1, <1>4, <3>1 DEF Passed, Current
      <3>3. file = [turn |-> screen.start.turn, text |-> secured]
        BY <1>1, <1>4, <3>1, <3>2
      <3>4. CASE LoadDiscarded
        <4>1. file = [turn |-> screen.start.turn, text |-> Silence]
          BY <3>4 DEF LoadDiscarded, IsDiscarded
        <4> QED
          BY <1>4, <3>1, <3>3, <4>1
      <3>5. CASE LoadText
        <4>1. file # Silence /\ file.turn = screen.start.turn /\ file.text = secured
          BY <1>4, <3>1, <3>3, PhoneAssumption, StartIs, PartsAre DEF Records
        <4>2. Read(screen.start.turn) = secured
          BY <4>1 DEF Read
        <4>3. screen'.text = secured
          BY <1>4, <3>1, <3>5, <4>2, LoadTextIs
        <4> QED
          BY <1>1, <1>4, <2>1, <3>1, <4>3
      <3> QED
        BY <2>4, <3>4, <3>5
    <2>5. CASE Say
      <3>1. secured' = secured /\ screen.turn \in 0 .. LastTurn /\ said[screen.turn] \in Nat
        BY <2>5, ScreenIs, PartsAre, PhoneAssumption DEF Say, history
      <3>2. /\ screen'.text # Silence /\ screen'.text.turn = screen.turn
            /\ screen'.text.n = said[screen.turn] + 1 /\ screen'.turn = screen.turn
        BY <2>5, SayIs DEF SameTurn
      <3>3. secured.n <= said[screen.turn] /\ secured.n \in Nat
        BY <1>1, <1>4, <3>1, <3>2 DEF WordsSaid, Uttered
      <3>4. ~After(secured, screen'.text)
        BY <1>4, <3>1, <3>2, <3>3, TurnsAre DEF After
      <3> QED
        BY <3>1, <3>2, <3>4
    <2>6. CASE StartOver
      BY <1>4, <2>6 DEF StartOver
    <2>7. CASE AnswerReturns
      <3>1. tasks[submission.task].stage # "ok"
        <4>1. CASE tasks[submission.task].stage = "ok"
          BY <1>1, <1>4, <2>7, <4>1, AnswerPasses
        <4> QED
          BY <4>1
      <3>2. secured' = secured /\ secured \in {Silence, submission.text} /\ screen.at # "closed"
        BY <1>4, <2>7, AnswerReturnsIs DEF AnswerReturns, history, WordsKept
      <3>3. screen'.text = submission.text
        BY <2>7, <3>1, <3>2, AnswerReturnsIs
      <3> QED
        BY <1>1, <1>4, <2>1, <3>2, <3>3
    <2>8. ASSUME NEW x \in resets, ResetEnds(x)
          PROVE  screen'.text # Silence /\ ~After(secured', screen'.text)
      <3>1. secured' = secured
        BY <2>8 DEF ResetEnds, history
      <3> QED
        BY <1>4, <2>3, <2>8, <3>1, ResetEndsIs DEF SameTurn, SameText
    <2>9. ~OpenReview /\ ~StartReturns /\ ~CloseReview /\ ~Kill
      BY <1>4, OpenReviewIs, StartReturnsIs, ClosedIs DEF CloseReview, Kill
    <2>10. CASE SendAnswer
      <3>1. screen' = screen /\ secured' = secured
        BY <1>4, <2>10, SendAnswerAdds DEF SendAnswer, history
      <3> QED
        BY <1>4, <2>3, <3>1
    <2>11. CASE GoToBackground \/ Submit \/ \E t \in DOMAIN tasks : Moves(t)
      <3>1. screen' = screen
        BY <2>11 DEF GoToBackground, Submit, Moves, Wake, Send, Lands, Fails
      <3>2. (Saves /\ screen' = screen) \/ StartOver \/ secured' = secured
        BY <3>1, SavingSteps DEF AnswerReturns, ResetEnds, history
      <3> QED
        BY <1>4, <2>2, <2>3, <2>6, <3>1, <3>2
    <2> QED
      BY <2>4, <2>5, <2>6, <2>7, <2>8, <2>9, <2>10, <2>11 DEF PhoneNext, Moves
  <1>5. ASSUME submission' # Silence PROVE secured' \in {Silence, submission'.text}
    <2>1. CASE Submit
      <3>1. screen.text # Silence /\ Saves /\ submission'.text = screen.text
        BY <2>1, SubmitIs DEF Submit, Mutable, Saves
      <3> QED
        BY <3>1, SaveKeeps DEF Saves
    <2>2. CASE submission # Silence /\ submission'.text = submission.text /\ secured' = secured
      BY <2>2 DEF WordsKept
    <2>3. CASE SendAnswer
      <3>1. submission # Silence /\ submission'.text = submission.text /\ secured' = secured
        BY <1>5, <2>3, SendAnswerIs DEF SendAnswer, history
      <3> QED
        BY <2>2, <3>1
    <2>4. CASE submission # Silence /\ submission' = submission
      <3>1. CASE Saves
        <4>1. screen.text \in {Silence, submission.text}
          BY <2>4, <3>1 DEF SubmissionSound, Saves
        <4>2. secured' \in {secured, screen.text}
          BY <3>1, SaveKeeps DEF Saves
        <4> QED
          BY <2>4, <4>1, <4>2 DEF WordsKept
      <3>2. CASE StartOver
        BY <3>2 DEF StartOver
      <3>3. CASE UNCHANGED secured
        BY <2>2, <2>4, <3>3
      <3> QED
        BY <2>4, <3>1, <3>2, <3>3, SavingSteps DEF AnswerReturns, ResetEnds, history
    <2>5. Submit \/ SendAnswer \/ (submission # Silence /\ submission' = submission)
      BY <1>5 DEF PhoneNext, OpenReview, StartReturns, LoadText, LoadDiscarded, Say, Mutable, GoToBackground,
         CloseReview, StartOver, ResetEnds, AnswerReturns, Wake, Send, Lands, Fails, Kill
    <2> QED
      BY <2>1, <2>3, <2>4, <2>5
  <1> QED
    BY <1>3, <1>4, <1>5 DEF WordsKept, Passed, WordsReturn, Back

-----------------------------------------------------------------------------
(* The order of the uploads, and what was discarded                        *)

\* An upload that can land could land before.
LEMMA CouldLand ==
  ASSUME PhoneTypeOK, PhoneTypeOK', TurnsRise, PhoneNext, NEW b \in DOMAIN tasks, CanLand(b)'
  PROVE  /\ CanLand(b) /\ remote'.turn = remote.turn /\ ~Kill
         /\ tasks'[b].text = tasks[b].text /\ tasks'[b].turn = tasks[b].turn
  <1>1. b \in DOMAIN tasks' /\ tasks'[b].kind = "upload" /\ tasks'[b].stage \in {"sleep", "wait", "wire"}
        /\ tasks'[b].turn = remote'.turn
    BY DEF CanLand, Upload
  <1>2. tasks'[b] # Gone
    BY <1>1, GoneIs
  <1>3. SameCall(tasks'[b], tasks[b])
    BY <1>2, TasksFade DEF Fades
  <1>4. tasks[b].stage \in {"sleep", "wait", "wire"}
    <2>1. CASE Alike(tasks'[b], tasks[b])
      BY <1>1, <2>1 DEF Alike
    <2>2. CASE Moves(b)
      BY <2>2 DEF Moves, Wake, Send, Lands, Fails
    <2> QED
      BY <1>2, <2>1, <2>2, OldTask
  <1>5. remote'.turn = remote.turn
    <2>1. /\ remote.turn <= remote'.turn /\ remote.turn \in Nat /\ remote'.turn \in Nat
          /\ tasks[b].turn <= Current /\ Current <= remote.turn /\ Current \in Nat /\ tasks[b].turn \in Nat
      BY RemoteRises, TurnsAre DEF TurnsRise
    <2> QED
      BY <1>1, <1>3, <2>1 DEF SameCall
  <1>6. ~Kill
    BY <1>1, <1>2, <1>3, KillIs DEF SameCall
  <1> QED
    BY <1>1, <1>3, <1>4, <1>5, <1>6 DEF CanLand, Upload, SameCall

\* Once an upload has ended none before it can land.
LEMMA BeforeEnded ==
  ASSUME PhoneTypeOK, InOrder, NEW a, a = 0 \/ Upload(a), Ended(a), NEW b \in DOMAIN tasks, b <= a
  PROVE  ~CanLand(b)
  <1>1. b \in Nat /\ b # 0 /\ DOMAIN tasks = 1 .. Len(tasks) /\ Len(tasks) \in Nat
    BY TasksAre
  <1>2. CASE a = 0
    BY <1>1, <1>2
  <1>3. CASE a \in DOMAIN tasks /\ tasks[a].kind = "upload" /\ tasks[a].stage \in {"ok", "failed", "ended"}
    <2>1. CASE b = a
      BY <1>3, <2>1 DEF CanLand
    <2>2. CASE b # a
      <3>1. b \in 1 .. a-1
        BY <1>1, <1>3, <2>2
      <3> QED
        BY <1>3, <3>1 DEF InOrder
    <2> QED
      BY <2>1, <2>2
  <1> QED
    BY <1>1, <1>2, <1>3 DEF Upload, Ended

\* Every step keeps InOrder: an upload is sent only after the one before it has ended.
LEMMA InOrderStep ==
  ASSUME PhoneTypeOK, PhoneTypeOK', TurnsRise, ChainSound, ResetsSound, InOrder, Covered,
         mishaps' = {}, PhoneNext
  PROVE  InOrder'
  <1>1. ASSUME NEW t \in DOMAIN tasks', tasks'[t].kind = "upload", NEW b \in 1 .. t-1, CanLand(b)'
        PROVE  tasks'[t].stage \in {"sleep", "wait"} /\ b <= tasks'[t].after
    <2>1. b \in DOMAIN tasks
      <3>1. t \in Nat /\ b \in Nat /\ b < t /\ 1 <= b
        <4>1. t \in Nat
          <5>1. tasks' \in Seq(CallRecords)
            BY DEF PhoneTypeOK
          <5> QED
            BY <5>1
        <4> QED
          BY <4>1
      <3>2. CASE t \in DOMAIN tasks
        BY <3>1, <3>2, TasksAre
      <3>3. CASE t \notin DOMAIN tasks
        <4>1. t = Len(tasks) + 1
          BY <3>3, NewTaskIs DEF NewTask
        <4> QED
          BY <3>1, <4>1, TasksAre
      <3> QED
        BY <3>2, <3>3
    <2>2. CanLand(b) /\ ~Kill
      BY <1>1, <2>1, CouldLand
    <2>3. CASE t \notin DOMAIN tasks
      <3>1. /\ tasks'[t].stage \in {"sleep", "wait"} /\ tasks'[t].after = chain
            /\ Mutable \/ Flushed
        BY <1>1, <2>3, NewTaskIs DEF Say
      <3>2. screen.at = "asking" /\ submission = Silence /\ (Mutable \/ Flushes)
        BY <3>1 DEF Mutable, Flushed, Flushes
      <3>3. ~Awaited(b)
        <4>1. ASSUME NEW x \in resets, x.turn = remote.turn PROVE FALSE
          <5>1. x.turn = Current
            <6>1. x.turn <= Current /\ Current <= remote.turn /\ Current \in Nat /\ remote.turn \in Nat
              BY <4>1, TurnsAre DEF TurnsRise
            <6> QED
              BY <4>1, <6>1
          <5> QED
            BY <3>2, <5>1, ResetShuts
        <4> QED
          BY <4>1 DEF Awaited
      <3> QED
        BY <2>1, <2>2, <3>1, <3>2, <3>3 DEF Covered
    <2>4. CASE t \in DOMAIN tasks
      <3>1. tasks[t].kind = "upload"
        BY <1>1, <2>2, <2>4, OldTask DEF Alike, Advances
      <3>2. tasks[t].stage \in {"sleep", "wait"} /\ b <= tasks[t].after
        BY <1>1, <2>2, <2>4, <3>1 DEF InOrder
      <3>3. ~Ended(tasks[t].after)
        BY <2>1, <2>2, <2>4, <3>2, BeforeEnded DEF ChainSound
      <3>4. CASE Alike(tasks'[t], tasks[t])
        BY <3>2, <3>4 DEF Alike
      <3>5. CASE Moves(t)
        <4>1. Wake(t)
          BY <3>2, <3>3, <3>5 DEF Moves, Send, Lands, Fails
        <4>2. Wakes(t)
          BY <3>3, <4>1 DEF Wake, Mishap
        <4>3. Advances(t, "wait")
          BY <2>4, <4>1, <4>2, StageAdvances DEF Wake
        <4> QED
          BY <3>2, <4>3 DEF Advances
      <3> QED
        BY <2>2, <2>4, <3>4, <3>5, OldTask
    <2> QED
      BY <2>3, <2>4
  <1> QED
    BY <1>1 DEF InOrder

\* The clear of a start over goes on waiting.
LEMMA AwaitedStays ==
  ASSUME PhoneTypeOK, PhoneTypeOK', TurnsRise, ChainSound, InOrder, PhoneNext,
         NEW b \in DOMAIN tasks, Awaited(b), CanLand(b)'
  PROVE  Awaited(b)'
  <1>1. CanLand(b) /\ ~Kill /\ remote'.turn = remote.turn
    BY CouldLand
  <1>2. PICK x \in resets : /\ x.by = "start over" /\ x.turn = remote.turn
                            /\ tasks[x.task].stage = "wait" /\ b <= tasks[x.task].after
    BY DEF Awaited
  <1> DEFINE c == x.task
  <1>3. c \in DOMAIN tasks /\ c # 0
    BY TasksAre DEF ChainSound
  <1>4. ~Ended(tasks[c].after)
    BY <1>1, <1>2, <1>3, BeforeEnded DEF ChainSound
  <1>5. x \in resets'
    <2>1. ASSUME NEW y \in resets, ResetEnds(y) PROVE x \in resets'
      BY <1>2, <1>3, <2>1 DEF ResetEnds, Ended
    <2> QED
      BY <1>1, <2>1 DEF PhoneNext, OpenReview, StartReturns, LoadText, LoadDiscarded, Say, GoToBackground,
         CloseReview, StartOver, Submit, SendAnswer, AnswerReturns, Wake, Send, Lands, Fails
  <1>6. Alike(tasks'[c], tasks[c])
    BY <1>1, <1>2, <1>3, <1>4, OldTask DEF Moves, Wake, Send, Lands, Fails
  <1> QED
    BY <1>1, <1>2, <1>5, <1>6 DEF Awaited, Alike

\* Every step keeps Covered.
LEMMA CoveredStep ==
  ASSUME PhoneTypeOK, PhoneTypeOK', TurnsRise, ChainSound, InOrder, Covered, PhoneNext
  PROVE  Covered'
  <1>1. ASSUME NEW b \in DOMAIN tasks', CanLand(b)'
        PROVE  \/ b <= chain'
               \/ submission' # Silence /\ submission'.task = 0 /\ b <= submission'.after
               \/ Awaited(b)'
    <2>1. CASE b \notin DOMAIN tasks
      <3>1. chain' = b /\ b \in Nat
        BY <1>1, <2>1, NewTaskIs DEF CanLand, Upload
      <3> QED
        BY <3>1
    <2>2. CASE b \in DOMAIN tasks
      <3>1. CanLand(b) /\ ~Kill /\ remote'.turn = remote.turn /\ b \in Nat
        BY <1>1, <2>2, CouldLand, TasksAre
      <3>2. CASE Awaited(b)
        BY <1>1, <2>2, <3>2, AwaitedStays
      <3>3. CASE submission # Silence /\ submission.task = 0 /\ b <= submission.after
        <4>1. ~SendAnswer
          BY <2>2, <3>1, <3>3, BeforeEnded DEF SendAnswer, ChainSound
        <4>2. submission' = submission
          BY <3>1, <3>3, <4>1 DEF PhoneNext, OpenReview, StartReturns, LoadText, LoadDiscarded, Say,
             GoToBackground, CloseReview, StartOver, ResetEnds, Submit, Mutable, AnswerReturns, Wake, Send,
             Lands, Fails
        <4> QED
          BY <3>3, <4>2
      <3>4. CASE b <= chain
        <4>1. CASE chain' = chain
          BY <3>4, <4>1
        <4>2. CASE Say \/ Flushed
          <5>1. chain' = Len(tasks) + 1
            BY <4>2 DEF Say, Flushed, NewTask
          <5> QED
            BY <2>2, <5>1, TasksAre
        <4>3. CASE Submit
          BY <3>4, <4>3, SubmitIs
        <4>4. CASE StartOver
          <5> DEFINE x == [by |-> "start over", task |-> NewTask, turn |-> screen.turn, visit |-> screen.visit]
          <5>1. x \in resets'
            BY <4>4 DEF StartOver
          <5>2. x.by = "start over" /\ x.task = NewTask /\ x.turn = screen.turn
            OBVIOUS
          <5> HIDE DEF x
          <5>3. screen.turn = remote.turn
            <6>1. Current = screen.turn
              BY <4>4 DEF StartOver, Current
            <6>2. /\ tasks[b].turn = remote.turn /\ tasks[b].turn <= Current /\ Current <= remote.turn
                  /\ Current \in Nat /\ remote.turn \in Nat
              BY <2>2, <3>1, TurnsAre DEF CanLand, TurnsRise
            <6> QED
              BY <6>1, <6>2
          <5>4. tasks'[NewTask].stage = "wait" /\ tasks'[NewTask].after = chain
            BY <4>4, StartOverAdds, MadeIs
          <5> QED
            BY <3>1, <3>4, <5>1, <5>2, <5>3, <5>4 DEF Awaited
        <4>5. CASE Flush
          BY <4>1, <4>2, <4>5, FlushIs
        <4> QED
          BY <3>1, <4>1, <4>2, <4>3, <4>4, <4>5 DEF PhoneNext, OpenReview, StartReturns, LoadText, LoadDiscarded,
             GoToBackground, CloseReview, ResetEnds, SendAnswer, AnswerReturns, Wake, Send, Lands, Fails
      <3> QED
        BY <2>2, <3>1, <3>2, <3>3, <3>4 DEF Covered
    <2> QED
      BY <2>1, <2>2
  <1> QED
    BY <1>1 DEF Covered

-----------------------------------------------------------------------------
\* What was discarded is of the turn the phone is at, or of one before.
LEMMA DiscardedIs ==
  ASSUME PhoneTypeOK, WordsSaid, TurnsRise, SubmissionSound
  PROVE  /\ discarded # Silence => /\ discarded \in Words /\ discarded.turn \in Nat /\ discarded.n \in Nat
                                   /\ discarded.turn <= Current /\ discarded.n <= said[discarded.turn]
                                   /\ submission # Silence => discarded.turn <= submission.turn
         /\ \A w \in Words : discarded # Silence /\ discarded.turn < w.turn => Fresh(w, discarded)
         /\ remote.draft # Silence => remote.draft \in Words /\ remote.draft.turn = remote.turn
         /\ discarded # Silence /\ discarded.turn < remote.turn => Fresh(remote.draft, discarded)
         /\ \A d : Fresh(Silence, d)
         /\ \A w : Fresh(w, Silence)
  <1>1. discarded # Silence => /\ discarded \in Words /\ discarded.turn \in Nat /\ discarded.n \in Nat
                               /\ discarded.turn <= Current /\ discarded.n <= said[discarded.turn]
                               /\ submission # Silence => discarded.turn <= submission.turn
    BY PartsAre, TurnsAre DEF WordsSaid, Uttered, TurnsRise, SubmissionSound
  <1>2. \A w \in Words : discarded # Silence /\ discarded.turn < w.turn => Fresh(w, discarded)
    BY DEF Fresh, After
  <1>3. remote.draft # Silence => remote.draft \in Words /\ remote.draft.turn = remote.turn
    BY DEF WordsSaid, Uttered
  <1>4. /\ \A d : Fresh(Silence, d)
        /\ \A w : Fresh(w, Silence)
    BY DEF Fresh
  <1> QED
    BY <1>1, <1>2, <1>3, <1>4

\* The steps of ResetEnds, AnswerReturns and a save, as they change the file.
LEMMA FileSteps ==
  ASSUME PhoneTypeOK, SubmissionSound, SleepersSound, PhoneNext, ~StartOver
  PROVE  /\ discarded' = discarded
         /\ \/ Saves /\ file' # Silence /\ file'.turn = screen.turn /\ file'.text = screen.text
            \/ /\ Saves /\ screen.text = Silence /\ file' = Silence /\ submission = Silence
               /\ IsDiscarded(screen.turn) => mishaps' # {}
            \/ AnswerReturns /\ file' = Silence /\ tasks[submission.task].stage = "ok"
            \/ \E x \in resets : ResetEnds(x) /\ file' = Silence /\ tasks[x.task].stage = "ok" /\ Owns(x.turn)
            \/ file' = file
  <1>1. ASSUME Saves
        PROVE  /\ discarded' = discarded
               /\ screen.text # Silence => file' # Silence /\ file'.turn = screen.turn /\ file'.text = screen.text
               /\ screen.text = Silence => file' = Silence /\ (IsDiscarded(screen.turn) => mishaps' # {})
    BY <1>1, ScreenIs, SaveIs DEF Saves
  <1>2. CASE Flush
    <2>1. CASE Flushed
      BY <1>1, <2>1 DEF Flushed, Flushes, Saves
    <2>2. CASE Flushes /\ screen.text # Silence /\ Save(screen.text, screen.turn)
      BY <1>1, <2>2 DEF Flushes, Saves
    <2>3. CASE UNCHANGED <<file, history>>
      BY <2>3 DEF history
    <2> QED
      BY <1>2, <2>1, <2>2, <2>3, FlushIs
  <1>3. CASE Submit
    BY <1>1, <1>3 DEF Submit, Mutable, Saves
  <1>4. ASSUME NEW t \in DOMAIN tasks, Wake(t)
        PROVE  (Saves /\ submission = Silence) \/ UNCHANGED <<file, secured, discarded>>
    BY <1>4, WakeSaves
  <1>5. CASE AnswerReturns
    BY <1>5, AnswerReturnsIs DEF AnswerReturns, history
  <1>6. ASSUME NEW x \in resets, ResetEnds(x)
        PROVE  /\ discarded' = discarded
               /\ \/ file' = file
                  \/ file' = Silence /\ tasks[x.task].stage = "ok" /\ Owns(x.turn)
    <2>1. discarded' = discarded
      BY <1>6 DEF ResetEnds, history
    <2> QED
      BY <1>6, <2>1, ResetEndsIs
  <1>7. CASE OpenReview \/ StartReturns \/ LoadText \/ LoadDiscarded \/ Say \/ SendAnswer \/ Kill
    BY <1>7 DEF OpenReview, StartReturns, LoadText, LoadDiscarded, Say, SendAnswer, Kill, history
  <1>8. ASSUME NEW t \in DOMAIN tasks, Send(t) \/ Lands(t) \/ Fails(t)
        PROVE  UNCHANGED <<file, secured, discarded>>
    BY <1>8 DEF Send, Lands, Fails, history
  <1> QED
    BY <1>1, <1>2, <1>3, <1>4, <1>5, <1>6, <1>7, <1>8 DEF PhoneNext, GoToBackground, CloseReview

\* What the server's copy becomes.
LEMMA DraftSteps ==
  ASSUME PhoneTypeOK, ChainSound, PhoneNext
  PROVE  \/ remote' = remote
         \/ remote'.draft = Silence
         \/ remote'.turn = remote.turn /\ remote'.draft = remote.draft
         \/ \E t \in DOMAIN tasks :
               /\ CanLand(t) /\ Lands(t) /\ remote'.turn = remote.turn /\ remote'.draft = tasks[t].text
               /\ UNCHANGED <<file, screen, resets>>
  <1>1. ASSUME NEW t \in DOMAIN tasks, Lands(t)
        PROVE  \/ remote' = remote
               \/ remote'.draft = Silence
               \/ remote'.turn = remote.turn /\ remote'.draft = remote.draft
               \/ /\ CanLand(t) /\ remote'.turn = remote.turn /\ remote'.draft = tasks[t].text
                  /\ UNCHANGED <<file, screen, resets>>
    <2>1. CASE AnswerLands(t)
      BY <2>1, AnswerLandsIs
    <2>2. CASE PatchLands(t)
      <3>1. tasks[t].kind = "clear" => tasks[t].text = Silence
        BY DEF ChainSound
      <3>2. tasks[t].stage = "wire" /\ UNCHANGED <<file, screen, resets>>
        BY <1>1 DEF Lands
      <3> QED
        BY <2>2, <3>1, <3>2, PatchLandsIs DEF CanLand, Upload
    <2> QED
      BY <1>1, <2>1, <2>2 DEF Lands
  <1>2. remote' = remote \/ \E t \in DOMAIN tasks : Lands(t)
    BY DEF PhoneNext, OpenReview, StartReturns, LoadText, LoadDiscarded, Say, GoToBackground, CloseReview,
           StartOver, ResetEnds, Submit, SendAnswer, AnswerReturns, Wake, Send, Fails, Kill
  <1> QED
    BY <1>1, <1>2

\* An upload that goes out while a clear waits for it is covered by the tombstone.
LEMMA AwaitedHolds ==
  ASSUME PhoneTypeOK, TurnsRise, ResetsSound, NEW b, Awaited(b)
  PROVE  Holds(remote.turn)
  <1>1. PICK x \in resets : x.turn = remote.turn
    BY DEF Awaited
  <1>2. x.turn <= Current /\ Current <= remote.turn /\ Current \in Nat /\ remote.turn \in Nat
    BY TurnsAre DEF TurnsRise
  <1>3. x.turn = Current
    BY <1>1, <1>2
  <1>4. file = [turn |-> x.turn, text |-> Silence]
    BY <1>3 DEF ResetsSound, IsDiscarded
  <1>5. x \in Resets
    BY PartsAre
  <1>6. x.turn \in 0 .. LastTurn
    BY <1>5 DEF Resets
  <1>7. file \in Records
    BY <1>4, <1>6, PartsAre DEF Records
  <1> QED
    BY <1>1, <1>4, <1>7, PhoneAssumption DEF Holds

\* A step that discards.
LEMMA StartOverDiscards ==
  ASSUME PhoneTypeOK, PhoneTypeOK', WordsSaid, TurnsRise, SubmissionSound, Covered', OneReset', StartOver, PhoneNext
  PROVE  DiscardsSound'
  <1>1. /\ remote' = remote /\ submission' = submission /\ screen.at \in {"asking", "processing"}
        /\ discarded' = IF submission = Silence THEN screen.text ELSE Silence
        /\ chain' = 0
    BY DEF StartOver
  <1>2. file' # Silence /\ file'.turn = screen.turn /\ file'.text = Silence
    BY StartOverIs
  <1>3. screen'.text = Silence /\ screen'.at = screen.at
    BY StartOverIs
  <1>4. \A w : Fresh(w, Silence) /\ Fresh(Silence, w)
    BY DEF Fresh
  <1>5. Current = screen.turn /\ screen.turn <= remote.turn /\ screen.turn \in Nat /\ remote.turn \in Nat
    BY <1>1, TurnsAre DEF Current, TurnsRise
  <1>6. ASSUME NEW b \in DOMAIN tasks', CanLand(b)' PROVE Fresh(tasks'[b].text, discarded') \/ Awaited(b)'
    <2>1. CASE submission # Silence
      BY <1>1, <1>4, <2>1
    <2>2. CASE submission = Silence
      <3>1. b \in Nat /\ b # 0
        <4>1. tasks' \in Seq(CallRecords)
          BY DEF PhoneTypeOK
        <4> QED
          BY <4>1
      <3>2. Awaited(b)' \/ b <= 0
        BY <1>1, <1>6, <2>2 DEF Covered
      <3> QED
        BY <3>1, <3>2
    <2> QED
      BY <2>1, <2>2
  <1>7. Fresh(remote.draft, discarded') \/ (file' # Silence /\ file'.turn = remote.turn)
    <2>1. CASE discarded' = Silence \/ remote.draft = Silence \/ screen.turn = remote.turn
      BY <1>2, <1>4, <2>1
    <2>2. CASE discarded' # Silence /\ remote.draft # Silence /\ screen.turn # remote.turn
      <3>1. screen.at = "asking" /\ discarded' = screen.text
        BY <1>1, <2>2 DEF SubmissionSound
      <3>2. discarded'.turn = screen.turn /\ remote.draft.turn = remote.turn
        BY <2>2, <3>1 DEF WordsSaid, Uttered
      <3> QED
        BY <1>5, <2>2, <3>2 DEF Fresh, After
    <2> QED
      BY <2>1, <2>2
  <1>8. ASSUME NEW x \in resets' PROVE tasks'[x.task].stage # "ok"
    <2>1. resets = {}
      BY OneAtATime
    <2>2. x.task = NewTask
      BY <1>8, <2>1, StartOverMakes
    <2>3. tasks'[NewTask].stage = "wait"
      BY StartOverAdds, MadeIs
    <2> QED
      BY <2>2, <2>3
  <1>9. submission' # Silence => discarded' = Silence
    BY <1>1
  <1> QED
    BY <1>1, <1>2, <1>3, <1>4, <1>6, <1>7, <1>8, <1>9 DEF DiscardsSound, Holds

\* What is discarded stays out of the file, the screen and the answer.
LEMMA TextsStayFresh ==
  ASSUME PhoneTypeOK, WordsSaid, TurnsRise, SubmissionSound, SleepersSound, DiscardsSound, PhoneNext, ~StartOver
  PROVE  /\ file' # Silence => Fresh(file'.text, discarded')
         /\ screen'.at = "asking" => Fresh(screen'.text, discarded')
         /\ submission' # Silence => Fresh(submission'.text, discarded')
  <1>1. discarded' = discarded
    BY FileSteps
  <1>2. ASSUME file' # Silence PROVE Fresh(file'.text, discarded)
    <2>1. CASE Saves /\ file'.text = screen.text
      BY <2>1 DEF DiscardsSound, Saves
    <2>2. CASE file' = file
      BY <1>2, <2>2 DEF DiscardsSound
    <2> QED
      BY <1>2, <2>1, <2>2, FileSteps
  <1>3. ASSUME screen'.at = "asking" PROVE Fresh(screen'.text, discarded)
    <2>1. CASE screen.at = "asking" /\ screen'.text = screen.text
      BY <2>1 DEF DiscardsSound
    <2>2. CASE LoadText
      <3> DEFINE turn == screen.start.turn
      <3>1. /\ screen.at = "loading" /\ screen.start # Silence /\ ~IsDiscarded(turn)
            /\ screen'.text = IF Read(turn) # Silence THEN Read(turn) ELSE screen.start.text
        BY <2>2, LoadTextIs DEF LoadText
      <3>2. CASE Read(turn) # Silence
        BY <3>1, <3>2 DEF Read, DiscardsSound
      <3>3. CASE Read(turn) = Silence
        <4>1. ~Holds(turn)
          <5>1. ASSUME Holds(turn) PROVE IsDiscarded(turn)
            BY <3>3, <5>1, FileIs DEF Read, Holds, IsDiscarded
          <5> QED
            BY <3>1, <5>1
        <4> QED
          BY <3>1, <3>3, <4>1 DEF DiscardsSound
      <3> QED
        BY <3>2, <3>3
    <2>3. CASE LoadDiscarded
      BY <2>3, LoadDiscardedIs, DiscardedIs
    <2>4. CASE Say
      <3>1. /\ screen'.text \in Words /\ screen'.text.turn = screen.turn
            /\ screen'.text.n = said[screen.turn] + 1
        BY <2>4, SayIs
      <3>2. Current = screen.turn
        BY <2>4 DEF Say, Mutable, Current
      <3>3. said[screen.turn] \in Nat /\ screen.turn \in Nat
        BY ScreenIs, PartsAre, TurnsAre, PhoneAssumption
      <3>4. discarded # Silence => After(screen'.text, discarded)
        BY <3>1, <3>2, <3>3, DiscardedIs DEF After
      <3> QED
        BY <3>4 DEF Fresh
    <2>5. CASE AnswerReturns
      <3>1. submission # Silence /\ submission.task # 0 /\ screen.at # "closed"
        BY <1>3, <2>5, AnswerReturnsIs DEF AnswerReturns
      <3>2. screen.text = Silence
        BY <3>1 DEF SubmissionSound
      <3>3. screen'.text \in {Silence, submission.text}
        BY <1>3, <2>5, <3>1, <3>2, AnswerReturnsIs
      <3> QED
        BY <3>1, <3>3, DiscardedIs DEF DiscardsSound
    <2>6. ASSUME NEW x \in resets, ResetEnds(x) PROVE Fresh(screen'.text, discarded)
      BY <1>3, <2>1, <2>6, ResetEndsIs DEF SameText
    <2>7. ~OpenReview /\ ~StartReturns /\ ~CloseReview /\ ~Kill
      BY <1>3, OpenReviewIs, StartReturnsIs, ClosedIs DEF CloseReview, Kill
    <2>8. CASE SendAnswer
      <3>1. screen' = screen
        BY <1>3, <2>8, SendAnswerAdds
      <3> QED
        BY <1>3, <2>1, <3>1
    <2>9. CASE GoToBackground \/ Submit \/ \E t \in DOMAIN tasks : Moves(t)
      <3>1. screen' = screen
        BY <2>9 DEF GoToBackground, Submit, Moves, Wake, Send, Lands, Fails
      <3> QED
        BY <1>3, <2>1, <3>1
    <2> QED
      BY <2>2, <2>3, <2>4, <2>5, <2>6, <2>7, <2>8, <2>9 DEF PhoneNext, Moves
  <1>4. ASSUME submission' # Silence PROVE Fresh(submission'.text, discarded)
    <2>1. CASE Submit
      BY <2>1, SubmitIs DEF Submit, Mutable, DiscardsSound
    <2>2. CASE SendAnswer
      BY <1>4, <2>2, SendAnswerIs DEF SendAnswer, DiscardsSound
    <2>3. CASE submission' = submission
      BY <1>4, <2>3 DEF DiscardsSound
    <2> QED
      BY <1>4, <2>1, <2>2, <2>3 DEF PhoneNext, OpenReview, StartReturns, LoadText, LoadDiscarded, Say, Mutable,
         GoToBackground, CloseReview, ResetEnds, AnswerReturns, Wake, Send, Lands, Fails, Kill
  <1> QED
    BY <1>1, <1>2, <1>3, <1>4

\* The server's copy of what was discarded is hidden by the file.
LEMMA DraftStaysFresh ==
  ASSUME PhoneTypeOK, PhoneTypeOK', WordsSaid, WordsSaid', TurnsRise, SubmissionSound, AnswersSound, ChainSound,
         SleepersSound, EmptySound, ResetsSound, DiscardsSound, mishaps' = {}, PhoneNext, ~StartOver
  PROVE  Fresh(remote'.draft, discarded') \/ (file' # Silence /\ file'.turn = remote'.turn)
  <1>1. discarded' = discarded /\ (\A d : Fresh(Silence, d))
    BY FileSteps, DiscardedIs
  <1>2. /\ Current <= remote.turn /\ Current \in Nat /\ remote.turn \in Nat
        /\ remote.turn <= remote'.turn /\ remote'.turn \in Nat
        /\ screen.at \in {"asking", "processing"} => Current = screen.turn
    BY TurnsAre, RemoteRises DEF TurnsRise, Current
  <1>3. ASSUME discarded # Silence, discarded.turn < remote'.turn PROVE Fresh(remote'.draft, discarded)
    <2>1. remote'.draft # Silence => remote'.draft \in Words /\ remote'.draft.turn = remote'.turn
      BY DEF WordsSaid, Uttered
    <2> QED
      BY <1>1, <1>3, <2>1, DiscardedIs
  <1>4. CASE ~(remote' = remote \/ (remote'.turn = remote.turn /\ remote'.draft = remote.draft))
    <2>1. CASE remote'.draft = Silence
      BY <1>1, <2>1
    <2>2. ASSUME NEW t \in DOMAIN tasks, CanLand(t), remote'.turn = remote.turn, remote'.draft = tasks[t].text,
                 UNCHANGED file
          PROVE  Fresh(remote'.draft, discarded) \/ (file' # Silence /\ file'.turn = remote'.turn)
      <3>1. Fresh(tasks[t].text, discarded) \/ Awaited(t)
        BY <2>2 DEF DiscardsSound
      <3> QED
        BY <2>2, <3>1, AwaitedHolds DEF Holds
    <2> QED
      BY <1>1, <1>4, <2>1, <2>2, DraftSteps
  <1>5. CASE remote' = remote \/ (remote'.turn = remote.turn /\ remote'.draft = remote.draft)
    <2>1. remote'.turn = remote.turn /\ remote'.draft = remote.draft
      BY <1>5
    <2>2. CASE file' = file
      BY <1>1, <2>1, <2>2 DEF DiscardsSound, Holds
    <2>3. CASE discarded = Silence
      BY <1>1, <2>3, DiscardedIs DEF Fresh
    <2>4. CASE discarded # Silence /\ discarded.turn < remote.turn
      BY <1>1, <1>3, <2>1, <2>4
    <2>5. CASE Current = remote.turn /\ Saves /\ file' # Silence /\ file'.turn = screen.turn
      BY <1>2, <2>1, <2>5 DEF Saves
    <2>6. CASE Current = remote.turn /\ Saves /\ screen.text = Silence /\ submission = Silence
               /\ (IsDiscarded(screen.turn) => mishaps' # {})
      <3>1. screen.at = "asking" /\ screen.turn = remote.turn
        BY <1>2, <2>6 DEF Saves
      <3>2. Read(screen.turn) = Silence
        BY <2>6, <3>1 DEF EmptySound
      <3>3. ~Holds(screen.turn)
        <4>1. ASSUME Holds(screen.turn) PROVE IsDiscarded(screen.turn)
          BY <3>2, <4>1, FileIs DEF Read, Holds, IsDiscarded
        <4> QED
          BY <2>6, <4>1
      <3> QED
        BY <1>1, <2>1, <3>1, <3>3 DEF DiscardsSound
    <2>7. CASE AnswerReturns /\ tasks[submission.task].stage = "ok"
      <3>1. submission # Silence /\ submission.task # 0
        BY <2>7 DEF AnswerReturns
      <3>2. submission.turn < remote.turn /\ submission.turn \in Nat
        BY <2>7, <3>1, TurnsAre DEF SubmissionSound, AnswersSound
      <3>3. discarded # Silence => discarded.turn < remote.turn
        BY <1>2, <3>1, <3>2, DiscardedIs
      <3> QED
        BY <2>3, <2>4, <3>3
    <2>8. ASSUME NEW x \in resets, tasks[x.task].stage = "ok", Owns(x.turn), Current = remote.turn
          PROVE  Fresh(remote'.draft, discarded') \/ (file' # Silence /\ file'.turn = remote'.turn)
      <3>1. x.turn = remote.turn
        BY <1>2, <2>8 DEF Owns
      <3> QED
        BY <1>1, <2>1, <2>8, <3>1 DEF DiscardsSound
    <2>9. discarded = Silence \/ discarded.turn < remote.turn \/ Current = remote.turn
      BY <1>2, DiscardedIs
    <2> QED
      BY <2>2, <2>3, <2>4, <2>5, <2>6, <2>7, <2>8, <2>9, FileSteps
  <1> QED
    BY <1>4, <1>5

\* Every step but a start over keeps DiscardsSound.
LEMMA DiscardsStep ==
  ASSUME PhoneTypeOK, PhoneTypeOK', WordsSaid, WordsSaid', TurnsRise, SubmissionSound, AnswersSound, ChainSound,
         SleepersSound, EmptySound, ResetsSound, InOrder, DiscardsSound, mishaps' = {}, PhoneNext, ~StartOver
  PROVE  DiscardsSound'
  <1>1. discarded' = discarded /\ (\A d : Fresh(Silence, d))
    BY FileSteps, DiscardedIs
  <1>2. ASSUME NEW b \in DOMAIN tasks', CanLand(b)' PROVE Fresh(tasks'[b].text, discarded') \/ Awaited(b)'
    <2>1. CASE b \in DOMAIN tasks
      <3>1. CanLand(b) /\ tasks'[b].text = tasks[b].text
        BY <1>2, <2>1, CouldLand
      <3>2. Awaited(b) => Awaited(b)'
        BY <1>2, <2>1, AwaitedStays
      <3> QED
        BY <1>1, <2>1, <3>1, <3>2 DEF DiscardsSound
    <2>2. CASE b \notin DOMAIN tasks
      <3>1. CASE Say /\ tasks'[b].text = screen'.text
        <4>1. screen'.at = "asking"
          BY <3>1, SayIs DEF Say, Mutable
        <4> QED
          BY <3>1, <4>1, TextsStayFresh
      <3>2. CASE Flushed /\ tasks'[b].text = screen.text
        BY <1>1, <3>2 DEF Flushed, Flushes, DiscardsSound
      <3> QED
        BY <1>2, <2>2, <3>1, <3>2, NewTaskIs DEF CanLand, Upload
    <2> QED
      BY <2>1, <2>2
  <1>3. ASSUME screen'.at = "loading", screen'.start # Silence
        PROVE  Fresh(screen'.start.text, discarded') \/ (file' # Silence /\ file'.turn = screen'.start.turn)
    <2>1. CASE StartReturns
      <3>1. screen'.start.turn = remote.turn /\ screen'.start.text = remote.draft /\ file' = file
        BY <1>3, <2>1, StartReturnsIs DEF StartReturns
      <3> QED
        BY <1>1, <3>1 DEF DiscardsSound, Holds
    <2>2. screen.at = "loading" /\ screen'.start = screen.start => file' = file
      <3>1. ASSUME screen.at = "loading" PROVE ~Saves /\ ~AnswerReturns /\ ~(\E x \in resets : Owns(x.turn))
        BY <3>1 DEF Saves, AnswerReturns, SubmissionSound, Owns
      <3> QED
        BY <3>1, FileSteps
    <2>3. CASE screen.at = "loading" /\ screen'.start = screen.start
      BY <1>1, <1>3, <2>2, <2>3 DEF DiscardsSound, Holds
    <2>4. ~OpenReview /\ ~LoadText /\ ~LoadDiscarded /\ ~CloseReview /\ ~Kill /\ ~AnswerReturns
      BY <1>3, OpenReviewIs, LoadTextIs, LoadDiscardedIs, ClosedIs, AnswerReturnsIs DEF CloseReview, Kill,
         AnswerReturns, SubmissionSound
    <2>5. ~Say
      BY <1>3, SayIs DEF Say, Mutable
    <2>6. CASE SendAnswer
      <3>1. screen' = screen
        BY <1>3, <2>6, SendAnswerAdds
      <3> QED
        BY <1>3, <2>3, <3>1
    <2>7. ASSUME NEW x \in resets, ResetEnds(x)
          PROVE  screen.at = "loading" /\ screen'.start = screen.start
      BY <1>3, <2>7, ResetEndsIs
    <2>8. CASE GoToBackground \/ Submit \/ \E t \in DOMAIN tasks : Moves(t)
      <3>1. screen' = screen
        BY <2>8 DEF GoToBackground, Submit, Moves, Wake, Send, Lands, Fails
      <3> QED
        BY <1>3, <2>3, <3>1
    <2> QED
      BY <2>1, <2>3, <2>4, <2>5, <2>6, <2>7, <2>8 DEF PhoneNext, Moves
  <1>4. ASSUME NEW x \in resets', tasks'[x.task].stage = "ok", x.turn = remote'.turn
        PROVE  Fresh(remote'.draft, discarded')
    <2>1. CASE x \notin resets
      <3>1. LoadDiscarded /\ x.task = NewTask
        BY <1>4, <2>1, ResetsGrow, LoadMakes
      <3>2. tasks'[NewTask].stage = "wire"
        BY <3>1, LoadDiscardedAdds, MadeIs
      <3> QED
        BY <1>4, <3>1, <3>2
    <2>2. CASE x \in resets
      <3> DEFINE c == x.task
      <3>1. c \in DOMAIN tasks /\ tasks[c].kind = "clear" /\ tasks[c].turn = x.turn /\ tasks[c].text = Silence
        BY <2>2 DEF ChainSound
      <3>2. x.turn = remote.turn /\ remote'.turn = remote.turn
        <4>1. /\ x.turn <= Current /\ Current <= remote.turn /\ remote.turn <= remote'.turn
              /\ Current \in Nat /\ remote.turn \in Nat /\ remote'.turn \in Nat /\ x.turn \in Nat
          BY <2>2, TurnsAre, RemoteRises DEF TurnsRise
        <4> QED
          BY <1>4, <4>1
      <3>3. CASE tasks[c].stage = "ok"
        <4>1. Fresh(remote.draft, discarded)
          BY <2>2, <3>2, <3>3 DEF DiscardsSound
        <4>2. ASSUME NEW t \in DOMAIN tasks, CanLand(t) PROVE Fresh(tasks[t].text, discarded)
          <5>1. ~Awaited(t)
            <6>1. \A y \in resets : y = x
              BY <2>2 DEF ResetsSound
            <6> QED
              BY <3>3, <6>1 DEF Awaited
          <5> QED
            BY <4>2, <5>1 DEF DiscardsSound
        <4> QED
          BY <1>1, <4>1, <4>2, DraftSteps
      <3>4. CASE tasks[c].stage # "ok"
        <4>1. Moves(c)
          BY <1>4, <3>1, <3>4, OldTask DEF Alike, Kill
        <4>2. Lands(c)
          <5>1. \A stage : Advances(c, stage) => tasks'[c].stage = stage
            BY <3>1 DEF Advances
          <5> QED
            BY <1>4, <3>1, <4>1, <5>1, TaskSteps DEF Moves
        <4>3. PatchLands(c)
          BY <3>1, <4>2 DEF Lands, AnswerLands
        <4>4. remote'.draft = Silence
          BY <3>1, <3>2, <4>3, PatchLandsIs
        <4> QED
          BY <1>1, <4>4
      <3> QED
        BY <3>3, <3>4
    <2> QED
      BY <2>1, <2>2
  <1> QED
    BY <1>2, <1>3, <1>4, TextsStayFresh, DraftStaysFresh DEF DiscardsSound, Holds

-----------------------------------------------------------------------------
\* The inductive invariant holds at first,
LEMMA PhoneBegins ==
  ASSUME PhoneInit
  PROVE  PhoneInv
  <1> DEFINE none == [t \in 0 .. LastTurn |-> Silence]
             zero == [t \in 0 .. LastTurn |-> 0]
             shut == [at |-> "closed", visit |-> 0, turn |-> 0, text |-> Silence,
                      start |-> Silence, resumable |-> FALSE, resetting |-> FALSE]
             row == [turn |-> 0, draft |-> Silence, answers |-> none]
  <1>1. /\ file = Silence /\ tasks = << >> /\ chain = 0 /\ submission = Silence /\ resets = {}
        /\ secured = Silence /\ discarded = Silence /\ mishaps = {}
        /\ screen = shut /\ remote = row /\ said = zero
    BY DEF PhoneInit
  <1>2. /\ 0 \in 0 .. LastTurn /\ 0 \in 0 .. MaxVisits /\ 0 \in 0 .. MaxWords /\ 0 \in 0 .. LastTurn + 1
        /\ Silence \in Utterances
    BY PhoneAssumption DEF Utterances
  <1>3. /\ screen.at = "closed" /\ screen.start = Silence /\ remote.turn = 0 /\ remote.draft = Silence
        /\ remote.answers = none
    BY <1>1
  <1>4. shut \in Screens
    BY <1>2 DEF Screens
  <1>5. none \in [0 .. LastTurn -> Utterances] /\ zero \in [0 .. LastTurn -> 0 .. MaxWords]
        /\ \A u \in 0 .. LastTurn : none[u] = Silence
    BY <1>2
  <1> HIDE DEF none, zero, shut
  <1>6. row \in [turn : 0 .. LastTurn + 1, draft : Utterances, answers : [0 .. LastTurn -> Utterances]]
    BY <1>2, <1>5
  <1> HIDE DEF row
  <1>7. tasks \in Seq(CallRecords) /\ DOMAIN tasks = {} /\ Len(tasks) = 0 /\ chain \in 0 .. Len(tasks)
        /\ Len(tasks) <= MaxTasks
    BY <1>1, PhoneAssumption
  <1>8. /\ file \in Records \cup {Silence} /\ screen \in Screens /\ submission \in Submissions \cup {Silence}
        /\ resets \subseteq Resets /\ said \in [0 .. LastTurn -> 0 .. MaxWords]
        /\ secured \in Utterances /\ discarded \in Utterances /\ mishaps \subseteq Mishaps
        /\ remote \in [turn : 0 .. LastTurn + 1, draft : Utterances, answers : [0 .. LastTurn -> Utterances]]
    BY <1>1, <1>2, <1>4, <1>5, <1>6
  <1>9. PhoneTypeOK
    BY <1>7, <1>8, Zenon DEF PhoneTypeOK
  <1>10. WordsSaid /\ TurnsRise /\ SubmissionSound
    BY <1>1, <1>3, <1>7 DEF WordsSaid, Uttered, TurnsRise, Current, SubmissionSound
  <1>11. AnswersSound /\ ChainSound /\ SleepersSound /\ EmptySound
    BY <1>1, <1>3, <1>5, <1>7 DEF AnswersSound, ChainSound, SleepersSound, EmptySound
  <1>12. KeptInv
    BY <1>1, <1>3, <1>7 DEF KeptInv, ResetsSound, WordsKept, WordsReturn, Back
  <1>13. InOrder /\ Covered /\ DiscardsSound
    BY <1>1, <1>3, <1>7 DEF InOrder, Covered, DiscardsSound, Fresh
  <1> QED
    BY <1>9, <1>10, <1>11, <1>12, <1>13 DEF PhoneInv

\* every step keeps it,
LEMMA PhoneStep ==
  ASSUME PhoneInv, PhoneNext
  PROVE  PhoneInv'
  <1>1. /\ PhoneTypeOK /\ WordsSaid /\ TurnsRise /\ SubmissionSound /\ AnswersSound /\ ChainSound
        /\ SleepersSound /\ EmptySound
    BY DEF PhoneInv
  <1>2. PhoneTypeOK'
    BY <1>1, TypesStep DEF TurnsRise
  <1>3. WordsSaid' /\ TurnsRise' /\ SubmissionSound' /\ AnswersSound' /\ ChainSound'
    BY <1>1, <1>2, SaidStep, TurnsStep, SubmissionStep, AnswersStep, ChainStep
  <1>4. SleepersSound' /\ EmptySound'
    BY <1>1, SleepersStep, EmptyStep
  <1>5. ASSUME OneReset' PROVE OneReset /\ KeptInv /\ KeptInv'
    <2>1. OneReset
      BY <1>5, MishapsGrow DEF OneReset
    <2>2. ResetsSound /\ WordsKept
      BY <2>1 DEF PhoneInv, KeptInv
    <2>3. ResetsSound' /\ WordsKept'
      BY <1>1, <1>2, <1>3, <1>5, <2>2, ResetsStep, KeptStep
    <2> QED
      BY <2>1, <2>2, <2>3 DEF KeptInv
  <1>6. ASSUME mishaps' = {} PROVE InOrder' /\ Covered' /\ DiscardsSound'
    <2>1. mishaps = {} /\ OneReset'
      BY <1>6, MishapsGrow DEF OneReset
    <2>2. InOrder /\ Covered /\ DiscardsSound /\ ResetsSound
      BY <1>5, <2>1 DEF PhoneInv, KeptInv
    <2>3. InOrder' /\ Covered'
      BY <1>1, <1>2, <1>6, <2>2, InOrderStep, CoveredStep
    <2>4. CASE StartOver
      BY <1>1, <1>2, <2>1, <2>3, <2>4, StartOverDiscards
    <2>5. CASE ~StartOver
      BY <1>1, <1>2, <1>3, <1>6, <2>2, <2>3, <2>5, DiscardsStep
    <2> QED
      BY <2>3, <2>4, <2>5
  <1> QED
    BY <1>2, <1>3, <1>4, <1>5, <1>6 DEF PhoneInv

\* and so does a step of another part of the system.
LEMMA PhoneRests ==
  ASSUME PhoneInv, UNCHANGED phoneVars
  PROVE  PhoneInv'
  <1>1. UNCHANGED <<file, screen, tasks, chain, submission, resets, remote, said, secured, discarded, mishaps>>
    BY DEF phoneVars
  <1>2. PhoneTypeOK'
    BY <1>1 DEF PhoneInv, PhoneTypeOK
  <1>3. WordsSaid' /\ TurnsRise' /\ SubmissionSound' /\ AnswersSound'
    BY <1>1 DEF PhoneInv, WordsSaid, TurnsRise, Current, SubmissionSound, AnswersSound
  <1>4. ChainSound' /\ SleepersSound' /\ EmptySound'
    BY <1>1 DEF PhoneInv, ChainSound, Upload, SleepersSound, EmptySound, Read
  <1>5. OneReset' => KeptInv'
    BY <1>1 DEF PhoneInv, OneReset, KeptInv, ResetsSound, WordsKept, WordsReturn, Back, Current, Passed, Owns,
       IsDiscarded
  <1>6. mishaps' = {} => InOrder' /\ Covered' /\ DiscardsSound'
    BY <1>1 DEF PhoneInv, InOrder, Covered, DiscardsSound, CanLand, Upload, Awaited, Holds
  <1> QED
    BY <1>2, <1>3, <1>4, <1>5, <1>6 DEF PhoneInv

\* The inductive invariant says what was promised.
LEMMA PhonePromises ==
  ASSUME PhoneInv
  PROVE  DraftIsTrue
  <1>1. WordsBelong
    BY DEF PhoneInv, WordsSaid, Uttered, WordsBelong
  <1>2. "resets overlap" \notin mishaps => WordsReturn
    BY DEF PhoneInv, OneReset, KeptInv, WordsKept
  <1>3. mishaps = {} => DiscardedStayAway
    BY DEF PhoneInv, DiscardsSound, Fresh, DiscardedStayAway
  <1> QED
    BY <1>1, <1>2, <1>3 DEF DraftIsTrue

\* For any number of turns, words, visits and tasks (DraftStore.swift, AppState.swift):
\* what is on the screen was said for its turn; words that were saved are there again when
\* the review is opened, unless start overs overlap; and discarded words stay away, unless
\* a mishap has cost the calls their order.
THEOREM DraftsAreTrue == PhoneSpec => []DraftIsTrue
  <1>1. PhoneInit => PhoneInv
    BY PhoneBegins
  <1>2. PhoneInv /\ [PhoneNext]_phoneVars => PhoneInv'
    BY PhoneStep, PhoneRests
  <1>3. PhoneInv => DraftIsTrue
    BY PhonePromises
  <1> QED
    BY <1>1, <1>2, <1>3, PTL DEF PhoneSpec

=============================================================================
