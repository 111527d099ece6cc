----------------------------- MODULE ReviewPush -----------------------------
(****************************************************************************)
(* Review notifications of one account: the trigger that decides whether to  *)
(* push (routers/internal.py, called by services/review_poller.py and by a   *)
(* manual fallback, so several calls can run at once), the sweep that counts *)
(* unanswered pushes as missed, and the handlers that share the settings     *)
(* row, the card rows and the device tokens with them.                       *)
(*                                                                           *)
(* Time is counted in ticks.  zone is the offset of the account's time zone: *)
(* local time is now + zone.                                                 *)
(****************************************************************************)
EXTENDS Naturals, Sequences, FiniteSets, FiniteSetsExt

CONSTANTS
  Cards, Polls, Sweeps, Tokens,
  NoOne,        \* a free lock, no candidate yet
  DayLength,    \* ticks of a local day
  Windows,      \* the enabled windows: records of a from and a to tick
  Budgets,      \* values reviews_per_day can be set to
  Zones,        \* offsets the time zone can be set to
  MissedAfter,  \* MISSED_AFTER
  RecallDelay,  \* MIN_LEARNING_RECALL_DELAY
  MaxTime,      \* bound on the clock
  Operations    \* the operations of the environment that may happen

ASSUME TimeAssumption ==
  /\ {DayLength, MissedAfter, RecallDelay, MaxTime} \subseteq Nat \ {0}
  /\ Zones \subseteq 0 .. DayLength - 1 /\ Zones # {}
  /\ Budgets \subseteq Nat \ {0} /\ Budgets # {}
  /\ MissedAfter <= DayLength /\ DayLength <= MaxTime
  /\ Windows \subseteq [from : 0 .. DayLength - 1, to : 0 .. DayLength - 1]
  /\ \A w \in Windows : w.from < w.to
ASSUME WorkerAssumption == NoOne \notin Polls \cup Sweeps \cup Cards
ASSUME FiniteAssumption == IsFiniteSet(Cards)

Never == 0            \* SQL NULL in a time column: the clock starts a day later
Times == Never .. MaxTime
Workers == Polls \cup Sweeps

VARIABLES
  now,
  settings,            \* the settings row: its budget and its zone
  tokens,              \* registered device tokens
  \* the card rows: lifecycle, next_review_at (a local day), the recall hold,
  \* and the instants of the last push, of the pushes counted and resolved, of
  \* the last learning exposure
  active, due, hold, pushed, counted, resolved, missed, learned,
  \* the sessions of a card: is one live, when was the latest started
  live, started,
  settingsLock, cardLock,
  pc, work,
  pushes,              \* history: the pushes that were stamped, in order
  delivered            \* history: what APNs accepted

cardVars == <<active, due, hold, pushed, counted, resolved, missed, learned>>
sessionVars == <<live, started>>
vars == <<now, settings, tokens, cardVars, sessionVars, settingsLock, cardLock,
          pc, work, pushes, delivered>>

------------------------------------------------------------------------------
(* Calendar.                                                                 *)

LocalDay(t, zone) == (t + zone) \div DayLength
DayStart(t, zone) == DayLength * LocalDay(t, zone) - zone

\* Starts of the enabled windows the instant t falls inside.
OpenWindows(t, zone) ==
  {s \in {DayStart(t, zone) + w.from : w \in Windows} :
     \E w \in Windows : /\ s = DayStart(t, zone) + w.from
                        /\ s <= t /\ t <= DayStart(t, zone) + w.to}

\* On overlap the latest-starting window wins.
WindowStart(t, zone) == Max(OpenWindows(t, zone))

\* A new local day and some real hours after an exposure.
HoldAfter(t, zone) == Max({DayStart(t, zone) + DayLength, t + RecallDelay})

------------------------------------------------------------------------------
(* State.                                                                    *)

EnvironmentOps == {"session", "learn", "lifecycle", "settings", "tokens", "crash"}
ASSUME OperationsAssumption == Operations \subseteq EnvironmentOps

SettingsRows == [budget : Budgets, zone : Zones]
Days == Nat

\* What a call holds: the instant and guards it decided with, the cards still
\* to look at, the candidate, the tokens it sends to and what came of it.
Works ==
  [at : Times, zone : Zones, budget : Budgets, queue : SUBSET Cards,
   card : Cards \cup {NoOne}, tokens : SUBSET Tokens,
   invalid : SUBSET Tokens, sent : BOOLEAN]
NoWork ==
  [at |-> Never, zone |-> CHOOSE z \in Zones : TRUE,
   budget |-> CHOOSE b \in Budgets : TRUE, queue |-> {}, card |-> NoOne,
   tokens |-> {}, invalid |-> {}, sent |-> FALSE]

Stages == {"idle", "settings", "select", "candidate", "live", "send", "stamp",
           "sweep"}

\* The times, the settings row and what every call holds keep their types.
TypeOK ==
  /\ now \in DayLength .. MaxTime
  /\ settings \in SettingsRows
  /\ tokens \subseteq Tokens
  /\ active \in [Cards -> BOOLEAN] /\ live \in [Cards -> BOOLEAN]
  /\ due \in [Cards -> Days]
  /\ hold \in [Cards -> Nat]
  /\ {pushed, counted, resolved, learned, started} \subseteq [Cards -> Times]
  /\ missed \in [Cards -> Nat]
  /\ settingsLock \in Polls \cup {NoOne}
  /\ cardLock \in [Cards -> Polls \cup {NoOne}]
  /\ pc \in [Workers -> Stages]
  /\ work \in [Workers -> Works]
  /\ delivered \subseteq Cards \X Times

Init ==
  /\ now = DayLength
  /\ settings \in SettingsRows
  /\ tokens = Tokens
  /\ active = [c \in Cards |-> TRUE] /\ live = [c \in Cards |-> FALSE]
  /\ due = [c \in Cards |-> 1]
  /\ hold = [c \in Cards |-> 0]
  /\ pushed = [c \in Cards |-> Never] /\ counted = pushed
  /\ resolved = pushed /\ learned = pushed /\ started = pushed
  /\ missed = [c \in Cards |-> 0]
  /\ settingsLock = NoOne
  /\ cardLock = [c \in Cards |-> NoOne]
  /\ pc = [w \in Workers |-> "idle"]
  /\ work = [w \in Workers |-> NoWork]
  /\ pushes = << >> /\ delivered = {}

Goto(w, stage, holding) ==
  /\ pc' = [pc EXCEPT ![w] = stage]
  /\ work' = [work EXCEPT ![w] = holding]

\* The transaction ends: every lock it holds is free again.
Finish(w) ==
  /\ Goto(w, "idle", NoWork)
  /\ settingsLock' = IF settingsLock = w THEN NoOne ELSE settingsLock
  /\ cardLock' = [c \in Cards |-> IF cardLock[c] = w THEN NoOne ELSE cardLock[c]]

------------------------------------------------------------------------------
(* trigger-review.                                                           *)

PushedSince(t) == {c \in Cards : pushed[c] # Never /\ pushed[c] >= t}

DueCards(at, zone) ==
  {c \in Cards : active[c] /\ hold[c] <= at /\ due[c] <= LocalDay(at, zone)}

\* Not offered yet on the local day.
AlwaysUnoffered(c, at, zone) == TRUE                             \* mutant
Unoffered(c, at, zone) == pushed[c] = Never \/ pushed[c] < DayStart(at, zone)

\* The poller, one of its retries after a timeout (the server may still be
\* working on the first call), or an operator: a call that read lock keeps the
\* account's device registrations waiting until it ends.
PollCall(p) ==
  /\ pc[p] = "idle"
  /\ Goto(p, "settings", NoWork)
  /\ UNCHANGED <<now, settings, tokens, cardVars, sessionVars, settingsLock,
                 cardLock, pushes, delivered>>

SettingsRowFree == settingsLock = NoOne

BudgetSpent(at, zone, budget) ==
  Cardinality(PushedSince(DayStart(at, zone))) >= budget

\* The clock read under the lock, in UTC.
WallClock(zone) == now + zone                                    \* mutant
ReadClock(zone) == now

\* Lock the settings row, read the clock, and decide on the window and the
\* day's budget.
PollGuards(p) ==
  /\ pc[p] = "settings"
  /\ SettingsRowFree
  /\ LET zone == settings.zone IN
     IF \/ OpenWindows(now, zone) = {}
        \/ PushedSince(WindowStart(now, zone)) # {}
        \/ BudgetSpent(now, zone, settings.budget)
     THEN Finish(p)
     ELSE /\ Goto(p, "select", [NoWork EXCEPT !.at = ReadClock(zone),
                                              !.zone = zone,
                                              !.budget = settings.budget])
          /\ settingsLock' = p
          /\ UNCHANGED cardLock
  /\ UNCHANGED <<now, settings, tokens, cardVars, sessionVars, pushes, delivered>>

\* The statement's snapshot: which cards can be offered.
PollSelect(p) ==
  /\ pc[p] = "select"
  /\ LET due_cards == DueCards(work[p].at, work[p].zone)
         offerable == {c \in due_cards :
                         ~live[c] /\ Unoffered(c, work[p].at, work[p].zone)}
     IN Goto(p, "candidate", [work[p] EXCEPT !.queue = offerable])
  /\ UNCHANGED <<now, settings, tokens, cardVars, sessionVars, settingsLock,
                 cardLock, pushes, delivered>>

\* Lock the most overdue card of the snapshot.  If its row has changed by the
\* time the lock is there, the database evaluates the card's own columns again
\* and goes on to the next; the sessions it sees are still the snapshot's.
PollCandidate(p) ==
  /\ pc[p] = "candidate"
  /\ \/ work[p].queue = {} /\ Finish(p)
     \/ \E c \in work[p].queue :
          /\ \A d \in work[p].queue : due[c] <= due[d]
          /\ cardLock[c] = NoOne
          /\ IF /\ c \in DueCards(work[p].at, work[p].zone)
                /\ Unoffered(c, work[p].at, work[p].zone)
             THEN /\ Goto(p, "live", [work[p] EXCEPT !.card = c])
                  /\ cardLock' = [cardLock EXCEPT ![c] = p]
             ELSE /\ Goto(p, "candidate", [work[p] EXCEPT !.queue = @ \ {c}])
                  /\ UNCHANGED cardLock
          /\ UNCHANGED settingsLock
  /\ UNCHANGED <<now, settings, tokens, cardVars, sessionVars, pushes, delivered>>

\* The transaction, and with it the candidate's lock, stays open through APNs.
CommitBeforeSend(p) ==                                           \* mutant
  cardLock' = [cardLock EXCEPT ![work[p].card] = NoOne]
HoldThroughSend(p) == UNCHANGED cardLock

\* A session that became live while the card lock was contended is engagement
\* already; without a device there is nothing to send.
PollCheckLive(p) ==
  /\ pc[p] = "live"
  /\ IF live[work[p].card] \/ tokens = {}
     THEN Finish(p)
     ELSE /\ Goto(p, "send", [work[p] EXCEPT !.tokens = tokens])
          /\ HoldThroughSend(p)
          /\ UNCHANGED settingsLock
  /\ UNCHANGED <<now, settings, tokens, cardVars, sessionVars, pushes, delivered>>

\* APNs answers for each device: accepted, rejected for good, or neither
\* (a timeout or a transport error).  The locks stay held.
SendPush(p) ==
  /\ pc[p] = "send"
  /\ \E accepted \in SUBSET work[p].tokens :
     \E invalid \in SUBSET (work[p].tokens \ accepted) :
       /\ Goto(p, "stamp", [work[p] EXCEPT !.sent = accepted # {},
                                           !.invalid = invalid])
       /\ delivered' = IF accepted = {} THEN delivered
                       ELSE delivered \cup {<<work[p].card, work[p].at>>}
  /\ UNCHANGED <<now, settings, tokens, cardVars, sessionVars, settingsLock,
                 cardLock, pushes>>

\* Drop the tokens APNs refused for good; stamp the card only if something was
\* delivered; commit.
PollStamp(p) ==
  /\ pc[p] = "stamp"
  /\ tokens' = tokens \ work[p].invalid
  /\ IF work[p].sent
     THEN /\ pushed' = [pushed EXCEPT ![work[p].card] = work[p].at]
          /\ pushes' = Append(pushes, [card |-> work[p].card, at |-> work[p].at,
                                       zone |-> work[p].zone,
                                       budget |-> work[p].budget])
     ELSE UNCHANGED <<pushed, pushes>>
  /\ Finish(p)
  /\ UNCHANGED <<now, settings, active, due, hold, counted, resolved, missed,
                 learned, sessionVars, delivered>>

------------------------------------------------------------------------------
(* check-missed.                                                             *)

Unresolved(c, cutoff) ==
  /\ pushed[c] # Never /\ pushed[c] <= cutoff
  /\ counted[c] < pushed[c] /\ resolved[c] < pushed[c]

\* A session or an exposure since the push.
Engaged(c) == learned[c] >= pushed[c] \/ started[c] >= pushed[c]

SweepDiscover(s) ==
  /\ pc[s] = "idle"
  /\ \E c \in Cards : active[c] /\ Unresolved(c, now - MissedAfter)
  /\ Goto(s, "sweep", [NoWork EXCEPT !.at = now - MissedAfter, !.queue =
              {c \in Cards : active[c] /\ Unresolved(c, now - MissedAfter)}])
  /\ UNCHANGED <<now, settings, tokens, cardVars, sessionVars, settingsLock,
                 cardLock, pushes, delivered>>

AlwaysUnresolved(s, c) == TRUE                                   \* mutant
StillUnresolved(s, c) == active[c] /\ Unresolved(c, work[s].at)

\* An answered push is marked, so that no later sweep finds it again.
ForgetAnswered(c) == UNCHANGED resolved                          \* mutant
ResolveAnswered(c) == resolved' = [resolved EXCEPT ![c] = pushed[c]]

\* One card at a time, each in its own transaction under the card lock.
SweepCard(s, c) ==
  /\ pc[s] = "sweep" /\ c \in work[s].queue
  /\ cardLock[c] = NoOne
  /\ LET left == work[s].queue \ {c} IN
     IF left = {} THEN Goto(s, "idle", NoWork)
                  ELSE Goto(s, "sweep", [work[s] EXCEPT !.queue = left])
  /\ IF ~StillUnresolved(s, c) THEN UNCHANGED <<counted, resolved, missed>>
     ELSE IF Engaged(c)
     THEN /\ ResolveAnswered(c)
          /\ UNCHANGED <<counted, missed>>
     ELSE /\ counted' = [counted EXCEPT ![c] = pushed[c]]
          /\ missed' = [missed EXCEPT ![c] = @ + 1]
          /\ UNCHANGED resolved
  /\ UNCHANGED <<now, settings, tokens, active, due, hold, pushed, learned,
                 sessionVars, settingsLock, cardLock, pushes, delivered>>

------------------------------------------------------------------------------
(* The handlers that share rows with them, and the rest of the world.        *)

workerVars == <<settingsLock, cardLock, pc, work, pushes, delivered>>

StartSession(c) ==
  /\ "session" \in Operations
  /\ cardLock[c] = NoOne /\ active[c] /\ ~live[c] /\ hold[c] <= now
  /\ live' = [live EXCEPT ![c] = TRUE]
  /\ started' = [started EXCEPT ![c] = now]
  /\ UNCHANGED <<now, settings, tokens, cardVars, workerVars>>

\* A completed scheduled review moves the card to a later day; an abandoned or
\* a practice session leaves it due.
EndSession(c) ==
  /\ cardLock[c] = NoOne /\ live[c]
  /\ live' = [live EXCEPT ![c] = FALSE]
  /\ due' \in {due, [due EXCEPT ![c] = LocalDay(now, settings.zone) + 1]}
  /\ UNCHANGED <<now, settings, tokens, active, hold, pushed, counted, resolved,
                 missed, learned, started, workerVars>>

OpenLearning(c) ==
  /\ "learn" \in Operations
  /\ cardLock[c] = NoOne /\ active[c] /\ ~live[c]
  /\ learned' = [learned EXCEPT ![c] = now]
  /\ hold' = [hold EXCEPT ![c] = Max({@, HoldAfter(now, settings.zone)})]
  /\ UNCHANGED <<now, settings, tokens, active, due, pushed, counted, resolved,
                 missed, sessionVars, workerVars>>

\* archive_card and restore_card.
ChangeLifecycle(c) ==
  /\ "lifecycle" \in Operations
  /\ cardLock[c] = NoOne /\ ~live[c]
  /\ active' = [active EXCEPT ![c] = ~@]
  /\ UNCHANGED <<now, settings, tokens, due, hold, pushed, counted, resolved,
                 missed, learned, sessionVars, workerVars>>

\* The update of the settings row waits for its lock.
WriteSettings ==
  /\ "settings" \in Operations
  /\ SettingsRowFree
  /\ settings' \in SettingsRows
  /\ UNCHANGED <<now, tokens, cardVars, sessionVars, workerVars>>

\* Locks the user row for update, which a poll in progress shares.
UpsertDeviceToken ==
  /\ "tokens" \in Operations
  /\ \A p \in Polls : pc[p] = "idle"
  /\ \E t \in Tokens : tokens' = tokens \cup {t}
  /\ UNCHANGED <<now, settings, cardVars, sessionVars, workerVars>>

\* A call ends anywhere without committing: a process death, a cancellation,
\* a command timeout.  What APNs accepted stays delivered.  The last tick of the
\* bounded clock stands for the time after the last crash.
Crash(w) ==
  /\ "crash" \in Operations
  /\ now < MaxTime
  /\ pc[w] # "idle"
  /\ Finish(w)
  /\ UNCHANGED <<now, settings, tokens, cardVars, sessionVars, pushes, delivered>>

Tick ==
  /\ now < MaxTime
  /\ now' = now + 1
  /\ UNCHANGED <<settings, tokens, cardVars, sessionVars, workerVars>>

PollStep(p) == PollGuards(p) \/ PollSelect(p) \/ PollCandidate(p)
                 \/ PollCheckLive(p) \/ SendPush(p) \/ PollStamp(p)
SweepStep(s) == SweepDiscover(s) \/ \E c \in Cards : SweepCard(s, c)

Environment ==
  \/ \E c \in Cards : \/ StartSession(c) \/ EndSession(c)
                      \/ OpenLearning(c) \/ ChangeLifecycle(c)
  \/ WriteSettings \/ UpsertDeviceToken \/ Tick
  \/ \E w \in Workers : Crash(w)

Next ==
  \/ \E p \in Polls : PollCall(p) \/ PollStep(p)
  \/ \E s \in Sweeps : SweepStep(s)
  \/ Environment

Spec == Init /\ [][Next]_vars

\* Lock queues are fair, APNs answers or times out after eight seconds, the
\* sweep is scheduled again and again, and time passes.  Nobody has to poll or
\* study.
FairSpec ==
  /\ Spec
  /\ \A p \in Polls : SF_vars(PollStep(p))
  /\ \A s \in Sweeps : SF_vars(SweepStep(s))
  /\ WF_vars(Tick)
------------------------------------------------------------------------------
(* Properties.                                                               *)

\* One push per window, not one per poll: every stamped push came before the
\* window of the next one opened, however many polls ran at once
\* (_trigger_review_for_user, the settings-row lock and the window guard).
OnePushPerWindow ==
  \A j \in DOMAIN pushes : \A i \in 1 .. j - 1 :
    pushes[i].at < WindowStart(pushes[j].at, pushes[j].zone)

\* A card is not offered twice on one local day, whatever was archived,
\* restored, practised or moved to another time zone in between.
OfferedOncePerDay ==
  \A j \in DOMAIN pushes : \A i \in 1 .. j - 1 :
    pushes[i].card = pushes[j].card =>
      pushes[i].at < DayStart(pushes[j].at, pushes[j].zone)

\* The pushes stamped on the local day of the j-th push, up to that push.
DayOfPush(j) ==
  {i \in 1 .. j : pushes[i].at >= DayStart(pushes[j].at, pushes[j].zone)}

\* The cards offered on a local day never exceed reviews_per_day as it stood at
\* the last push, in whatever zones the earlier ones were decided; and while the
\* time zone stands, neither do the pushes: the code counts stamped cards in
\* place of pushes.  (A change of zone within a day lets one card be stamped
\* twice in what the last zone calls one day: then the two numbers differ.)
CapIsExact ==
  \A j \in DOMAIN pushes :
    /\ Cardinality({pushes[i].card : i \in DayOfPush(j)}) <= pushes[j].budget
    /\ (\A i \in DayOfPush(j) : pushes[i].zone = pushes[j].zone) =>
         Cardinality(DayOfPush(j)) <= pushes[j].budget

\* What the learner agreed to receive, whatever polls, settings and sessions do:
\* the three hold together.
PushesAreLimited == OnePushPerWindow /\ OfferedOncePerDay /\ CapIsExact

\* From the check of its sessions until the commit, seconds of APNs later, the
\* candidate stays a card to offer: nobody starts a session, learns it or
\* archives it behind the notification.
CandidateStaysOfferable ==
  \A p \in Polls : pc[p] \in {"send", "stamp"} =>
    LET c == work[p].card IN
    ~live[c] /\ c \in DueCards(work[p].at, work[p].zone)

\* missed_count only grows for a push that reached a device and that neither a
\* session nor the learning material answered, and once per push.
MissIsDeserved ==
  [][\A c \in Cards : missed'[c] # missed[c] =>
       /\ <<c, pushed[c]>> \in delivered
       /\ ~Engaged(c)
       /\ counted[c] < pushed[c] /\ resolved[c] < pushed[c]]_vars

\* Every call ends: the order settings row, card row cannot deadlock.
CallsFinish == \A w \in Workers : pc[w] # "idle" ~> pc[w] = "idle"

\* A push nobody answered in MissedAfter ticks does not stay open: it is
\* counted or resolved (or the card is archived), so sweeps come to an end.
PushIsSettled ==
  \A c \in Cards :
    (active[c] /\ Unresolved(c, now - MissedAfter)) ~>
      ~(active[c] /\ Unresolved(c, now - MissedAfter))

\* Every call comes to its end, and so does every push.
PushesSettle == CallsFinish /\ PushIsSettled
=============================================================================
