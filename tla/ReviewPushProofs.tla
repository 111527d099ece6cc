-------------------------- MODULE ReviewPushProofs --------------------------
(* For every number of polls, sweeps, cards, devices, windows and zones: an  *)
(* account is notified once per window, of a card once per local day, within *)
(* its budget, and of a card that is still to be offered.                    *)
EXTENDS ReviewPush, TLAPS, FiniteSetTheorems, WellFoundedInduction

------------------------------------------------------------------------------
(* The calendar.                                                              *)

\* What a day division leaves is less than a day.
LEMMA Division ==
  ASSUME NEW n \in Nat, NEW d \in Nat \ {0}
  PROVE  /\ n \div d \in Nat
         /\ d * (n \div d) <= n /\ n < d * (n \div d) + d
         /\ d * (n \div d) \in Nat
  OBVIOUS

\* Multiples of a day that are less than a day apart are equal.
LEMMA SameMultiple ==
  ASSUME NEW d \in Nat \ {0}, NEW a \in Nat, NEW b \in Nat,
         d * a < d * b + d, d * b < d * a + d
  PROVE  a = b
  <1>1. ASSUME NEW x \in Nat, NEW y \in Nat, x < y PROVE d * x + d <= d * y
    <2>1. x + 1 <= y
      BY <1>1
    <2>2. d * (x + 1) <= d * y
      BY <2>1
    <2> QED
      BY <2>2
  <1> QED
    BY <1>1

\* A local day begins before the instants it holds, and is a day long
\* (_first_real_local_datetime of midnight).
LEMMA DayStartIs ==
  ASSUME NEW t \in Nat, NEW zone \in Zones
  PROVE  /\ DayStart(t, zone) \in Int /\ LocalDay(t, zone) \in Nat
         /\ DayStart(t, zone) <= t /\ t < DayStart(t, zone) + DayLength
  <1>1. zone \in Nat /\ DayLength \in Nat \ {0} /\ t + zone \in Nat
    BY TimeAssumption
  <1> QED
    BY <1>1, Division DEF DayStart, LocalDay

\* Two instants on the later one's local day have the same start of the day.
LEMMA SameDay ==
  ASSUME NEW t \in Nat, NEW u \in Nat, NEW zone \in Zones,
         DayStart(t, zone) <= u, u <= t
  PROVE  DayStart(u, zone) = DayStart(t, zone)
  <1>1. zone \in Nat /\ DayLength \in Nat \ {0} /\ t + zone \in Nat /\ u + zone \in Nat
    BY TimeAssumption
  <1> DEFINE a == (t + zone) \div DayLength
             b == (u + zone) \div DayLength
  <1>2. a \in Nat /\ b \in Nat /\ DayLength * a \in Nat /\ DayLength * b \in Nat
    BY <1>1, Division
  <1>3. DayLength * a <= u + zone /\ u + zone < DayLength * b + DayLength
    BY <1>1, Division DEF DayStart, LocalDay
  <1>4. DayLength * b <= u + zone /\ u + zone <= t + zone
        /\ t + zone < DayLength * a + DayLength
    BY <1>1, Division
  <1>5. DayLength * a < DayLength * b + DayLength
        /\ DayLength * b < DayLength * a + DayLength
    <2> HIDE DEF a, b
    <2> QED
      BY <1>1, <1>2, <1>3, <1>4
  <1>6. a = b
    <2> HIDE DEF a, b
    <2> QED
      BY <1>1, <1>2, <1>5, SameMultiple
  <1> QED
    BY <1>6 DEF DayStart, LocalDay

\* A set of integers with a bound has a largest member.
LEMMA MaxIs ==
  ASSUME NEW S \in SUBSET Int, S # {}, NEW bound \in Int, \A x \in S : x <= bound
  PROVE  Max(S) \in S /\ \A x \in S : x <= Max(S)
  <1> DEFINE T == {bound - x : x \in S}
             R == OpToRel(<, Nat)
  <1>1. T \subseteq Nat /\ T # {}
    <2>1. \A x \in S : bound - x \in Nat
      OBVIOUS
    <2> QED
      BY <2>1
  <1>2. IsWellFoundedOn(R, Nat)
    BY NatLessThanWellFounded
  <1>3. PICK m \in T : \A y \in T : ~ (<<y, m>> \in R)
    <2> HIDE DEF T, R
    <2> QED
      BY <1>1, <1>2, WFMin
  <1>4. \A y \in T : m <= y
    <2>1. \A y \in T : ~ (y < m)
      BY <1>1, <1>3 DEF OpToRel
    <2> QED
      BY <1>1, <2>1
  <1>5. PICK x \in S : m = bound - x
    BY <1>3
  <1>6. \A y \in S : x >= y
    <2> TAKE y \in S
    <2>1. bound - y \in T
      OBVIOUS
    <2> QED
      BY <1>4, <1>5, <2>1
  <1> QED
    BY <1>6 DEF Max

\* Of two instants one is the later.
LEMMA MaxOfTwo ==
  ASSUME NEW a \in Nat, NEW b \in Nat
  PROVE  Max({a, b}) \in Nat
  <1>1. Max({a, b}) \in {a, b}
    <2>1. \A x \in {a, b} : x <= a + b
      OBVIOUS
    <2> QED
      BY <2>1, MaxIs
  <1> QED
    BY <1>1

\* A window begins on the day it belongs to, and not after the instant in it
\* (_active_window_start).
LEMMA WindowStartIs ==
  ASSUME NEW t \in Nat, NEW zone \in Zones, OpenWindows(t, zone) # {}
  PROVE  /\ WindowStart(t, zone) \in Int
         /\ DayStart(t, zone) <= WindowStart(t, zone) /\ WindowStart(t, zone) <= t
  <1> DEFINE S == OpenWindows(t, zone)
  <1>1. \A s \in S : s \in Int /\ s <= t /\ DayStart(t, zone) <= s
    BY DayStartIs, TimeAssumption DEF OpenWindows
  <1>2. Max(S) \in S
    <2>1. S \in SUBSET Int /\ S # {} /\ t \in Int
      BY <1>1
    <2> HIDE DEF S
    <2> QED
      BY <1>1, <2>1, MaxIs
  <1> QED
    BY <1>1, <1>2 DEF WindowStart

------------------------------------------------------------------------------
(* The inductive invariant.                                                   *)

\* A poll that went past its guards, and one that chose a card.
Deciding == {"select", "candidate", "live", "send", "stamp"}
Offering == {"live", "send", "stamp"}

Stamps == [card : Cards, at : DayLength .. MaxTime, zone : Zones, budget : Budgets]

\* The settings row stays locked from the guards to the commit, the card row from
\* its choice on.
LocksHeld ==
  \A p \in Polls :
    /\ pc[p] \in Deciding => settingsLock = p
    /\ pc[p] \in Offering => work[p].card \in Cards /\ cardLock[work[p].card] = p

\* What the guards found still stands: nobody else stamps a card meanwhile.
GuardsOf(p) ==
  LET at == work[p].at  zone == work[p].zone IN
  /\ at \in DayLength .. MaxTime
  /\ OpenWindows(at, zone) # {}
  /\ PushedSince(WindowStart(at, zone)) = {}
  /\ Cardinality(PushedSince(DayStart(at, zone))) < work[p].budget
GuardsStand == \A p \in Polls : pc[p] \in Deciding => GuardsOf(p)

\* The chosen card is still due and not offered on the day.
ChoiceStands ==
  \A p \in Polls : pc[p] \in Offering =>
    /\ work[p].card \in DueCards(work[p].at, work[p].zone)
    /\ Unoffered(work[p].card, work[p].at, work[p].zone)

\* A push was made inside a window, and the card row remembers the latest one.
StampsAreKept ==
  /\ pushes \in Seq(Stamps)
  /\ \A i \in DOMAIN pushes :
       /\ OpenWindows(pushes[i].at, pushes[i].zone) # {}
       /\ pushes[i].at <= pushed[pushes[i].card]

\* Every stamp is of a push that a device accepted.
StampsWereDelivered ==
  /\ \A c \in Cards : pushed[c] # Never => <<c, pushed[c]>> \in delivered
  /\ \A p \in Polls : pc[p] = "stamp" /\ work[p].sent =>
       <<work[p].card, work[p].at>> \in delivered

\* The cards of a day: what the daily limit really counts.
CardsWithinBudget ==
  \A j \in DOMAIN pushes :
    Cardinality({pushes[i].card : i \in DayOfPush(j)}) <= pushes[j].budget

IInv ==
  /\ TypeOK
  /\ LocksHeld
  /\ GuardsStand
  /\ ChoiceStands
  /\ CandidateStaysOfferable
  /\ StampsAreKept
  /\ StampsWereDelivered
  /\ OnePushPerWindow
  /\ OfferedOncePerDay
  /\ CardsWithinBudget

\* The constants are numbers.
LEMMA Numbers ==
  /\ DayLength \in Nat \ {0} /\ MaxTime \in Nat /\ Budgets \subseteq Nat
  /\ DayLength .. MaxTime \subseteq Nat
  BY TimeAssumption

\* A call that begins holds nothing.
LEMMA NoWorkType == NoWork \in Works
  BY TimeAssumption DEF NoWork, Works, Times, Never

\* The invariant holds before the first poll.
LEMMA InitIInv == Init => IInv
  <1> SUFFICES ASSUME Init PROVE IInv
    OBVIOUS
  <1> USE TimeAssumption, WorkerAssumption DEF Init
  <1>1. TypeOK
    BY NoWorkType DEF TypeOK, SettingsRows, Days, Times, Never, Stages
  <1>2. LocksHeld /\ GuardsStand /\ ChoiceStands /\ CandidateStaysOfferable
    BY DEF LocksHeld, GuardsStand, ChoiceStands, CandidateStaysOfferable, Deciding,
       Offering, Workers
  <1>3. StampsAreKept /\ StampsWereDelivered /\ OnePushPerWindow
        /\ OfferedOncePerDay /\ CardsWithinBudget
    BY DEF StampsAreKept, StampsWereDelivered, OnePushPerWindow, OfferedOncePerDay,
       CardsWithinBudget, Workers
  <1> QED
    BY <1>1, <1>2, <1>3 DEF IInv

------------------------------------------------------------------------------
(* Types.                                                                     *)

\* The parts of the types a proof cites on their own.
LEMMA Types ==
  ASSUME TypeOK
  PROVE  /\ now \in DayLength .. MaxTime /\ now \in Times
         /\ settings \in SettingsRows /\ tokens \subseteq Tokens
         /\ pushed \in [Cards -> Times] /\ hold \in [Cards -> Nat]
         /\ due \in [Cards -> Nat] /\ live \in [Cards -> BOOLEAN]
         /\ settingsLock \in Polls \cup {NoOne}
         /\ cardLock \in [Cards -> Polls \cup {NoOne}]
         /\ pc \in [Workers -> Stages] /\ work \in [Workers -> Works]
         /\ delivered \subseteq Cards \X Times
  BY TimeAssumption DEF TypeOK, Days, Times, Never

\* A call that goes on keeps its types, and leaves every other call alone.
LEMMA GotoKeeps ==
  ASSUME TypeOK, NEW w \in Workers, NEW stage \in Stages, NEW holding \in Works,
         Goto(w, stage, holding)
  PROVE  /\ pc' \in [Workers -> Stages] /\ work' \in [Workers -> Works]
         /\ pc'[w] = stage /\ work'[w] = holding
         /\ \A v \in Workers \ {w} : pc'[v] = pc[v] /\ work'[v] = work[v]
  BY Types DEF Goto

\* A transaction that ends keeps its types and frees its own locks alone.
LEMMA FinishKeeps ==
  ASSUME TypeOK, NEW w \in Workers, Finish(w)
  PROVE  /\ pc' \in [Workers -> Stages] /\ work' \in [Workers -> Works]
         /\ pc'[w] = "idle" /\ work'[w] = NoWork
         /\ \A v \in Workers \ {w} : pc'[v] = pc[v] /\ work'[v] = work[v]
         /\ settingsLock' \in Polls \cup {NoOne}
         /\ cardLock' \in [Cards -> Polls \cup {NoOne}]
         /\ settingsLock # w => settingsLock' = settingsLock
         /\ \A c \in Cards : cardLock[c] # w => cardLock'[c] = cardLock[c]
  <1>1. Goto(w, "idle", NoWork) /\ "idle" \in Stages
    BY DEF Finish, Stages
  <1>2. /\ settingsLock' \in Polls \cup {NoOne}
        /\ cardLock' \in [Cards -> Polls \cup {NoOne}]
        /\ settingsLock # w => settingsLock' = settingsLock
        /\ \A c \in Cards : cardLock[c] # w => cardLock'[c] = cardLock[c]
    BY Types DEF Finish
  <1> QED
    BY <1>1, <1>2, GotoKeeps, NoWorkType

\* A poll takes the locks that are free, and nobody else's.
Acts(w) ==
  /\ pc' \in [Workers -> Stages] /\ work' \in [Workers -> Works]
  /\ settingsLock' \in Polls \cup {NoOne}
  /\ cardLock' \in [Cards -> Polls \cup {NoOne}]
  /\ \A v \in Workers \ {w} : pc'[v] = pc[v] /\ work'[v] = work[v]
  /\ settingsLock \in {w, NoOne} \/ settingsLock' = settingsLock
  /\ \A c \in Cards : cardLock[c] \in {w, NoOne} \/ cardLock'[c] = cardLock[c]

\* A transaction that ends is an act of its call.
LEMMA FinishActs ==
  ASSUME TypeOK, NEW w \in Workers, Finish(w)
  PROVE  Acts(w) /\ pc'[w] = "idle"
  BY FinishKeeps DEF Acts

\* A call that goes on and takes free locks acts.
LEMMA GotoActs ==
  ASSUME TypeOK, NEW w \in Workers, NEW stage \in Stages, NEW holding \in Works,
         Goto(w, stage, holding),
         settingsLock' \in Polls \cup {NoOne},
         settingsLock \in {w, NoOne} \/ settingsLock' = settingsLock,
         cardLock' \in [Cards -> Polls \cup {NoOne}],
         \A c \in Cards : cardLock[c] \in {w, NoOne} \/ cardLock'[c] = cardLock[c]
  PROVE  Acts(w) /\ pc'[w] = stage /\ work'[w] = holding
  BY GotoKeeps DEF Acts

\* What a poll decides with.
LEMMA PollGuardsActs ==
  ASSUME TypeOK, NEW p \in Polls, PollGuards(p)
  PROVE  /\ Acts(p)
         /\ \/ pc'[p] = "idle"
            \/ /\ pc'[p] = "select" /\ settingsLock' = p
               /\ settingsLock = NoOne
               /\ work'[p].at = now /\ work'[p].zone = settings.zone
               /\ work'[p].budget = settings.budget
               /\ OpenWindows(now, settings.zone) # {}
               /\ PushedSince(WindowStart(now, settings.zone)) = {}
               /\ ~BudgetSpent(now, settings.zone, settings.budget)
  <1>0. p \in Workers
    BY DEF Workers
  <1> DEFINE zone == settings.zone
             holding == [NoWork EXCEPT !.at = now, !.zone = zone,
                                       !.budget = settings.budget]
             skip == \/ OpenWindows(now, zone) = {}
                     \/ PushedSince(WindowStart(now, zone)) # {}
                     \/ BudgetSpent(now, zone, settings.budget)
  <1>1. CASE skip
    BY <1>0, <1>1, FinishActs DEF PollGuards
  <1>2. CASE ~skip
    <2>1. /\ Goto(p, "select", holding)
          /\ settingsLock' = p /\ UNCHANGED cardLock /\ settingsLock = NoOne
      BY <1>2 DEF PollGuards, ReadClock, SettingsRowFree
    <2>2. holding \in Works /\ holding.at = now /\ holding.zone = zone
          /\ holding.budget = settings.budget
      BY NoWorkType, Types DEF Works, SettingsRows
    <2>3. Acts(p) /\ pc'[p] = "select" /\ work'[p] = holding
      <3> HIDE DEF holding
      <3> QED
        BY <1>0, <2>1, <2>2, GotoActs, Types DEF Stages
    <2> QED
      BY <1>2, <2>1, <2>2, <2>3
  <1> QED
    BY <1>1, <1>2

\* Looking at the cards changes no decision.
LEMMA PollSelectActs ==
  ASSUME TypeOK, NEW p \in Polls, PollSelect(p)
  PROVE  /\ Acts(p) /\ pc'[p] = "candidate" /\ UNCHANGED <<settingsLock, cardLock>>
         /\ pc[p] = "select"
         /\ work'[p].at = work[p].at /\ work'[p].zone = work[p].zone
         /\ work'[p].budget = work[p].budget
  <1>0. p \in Workers
    BY DEF Workers
  <1>1. PICK queue \in SUBSET Cards :
          /\ Goto(p, "candidate", [work[p] EXCEPT !.queue = queue])
          /\ UNCHANGED <<settingsLock, cardLock>> /\ pc[p] = "select"
    BY DEF PollSelect, DueCards
  <1>2. [work[p] EXCEPT !.queue = queue] \in Works
    BY <1>0, Types DEF Works
  <1>3. Acts(p) /\ pc'[p] = "candidate" /\ work'[p] = [work[p] EXCEPT !.queue = queue]
    BY <1>0, <1>1, <1>2, GotoActs, Types DEF Stages
  <1> QED
    BY <1>0, <1>1, <1>3, Types DEF Works

\* A poll that chooses a card has it locked, due and unoffered.
Chooses(p, c) ==
  /\ pc[p] = "candidate" /\ pc'[p] = "live"
  /\ work'[p].card = c /\ cardLock'[c] = p
  /\ c \in DueCards(work[p].at, work[p].zone)
  /\ Unoffered(c, work[p].at, work[p].zone)

\* A poll without a card ends; one with a card has locked it.
LEMMA PollCandidateActs ==
  ASSUME TypeOK, NEW p \in Polls, PollCandidate(p)
  PROVE  /\ Acts(p) /\ pc[p] = "candidate"
         /\ \/ pc'[p] = "idle"
            \/ /\ pc'[p] = "candidate" \/ \E c \in Cards : Chooses(p, c)
               /\ UNCHANGED settingsLock
               /\ work'[p].at = work[p].at /\ work'[p].zone = work[p].zone
               /\ work'[p].budget = work[p].budget
  <1>0. p \in Workers /\ work[p] \in Works /\ pc[p] = "candidate"
    BY Types DEF Workers, PollCandidate
  <1>1. CASE Finish(p)
    BY <1>0, <1>1, FinishActs
  <1>2. ASSUME NEW c \in work[p].queue,
               cardLock[c] = NoOne, UNCHANGED settingsLock,
               c \in DueCards(work[p].at, work[p].zone),
               Unoffered(c, work[p].at, work[p].zone),
               Goto(p, "live", [work[p] EXCEPT !.card = c]),
               cardLock' = [cardLock EXCEPT ![c] = p]
        PROVE  /\ Acts(p)
               /\ Chooses(p, c) /\ c \in Cards
               /\ work'[p].at = work[p].at /\ work'[p].zone = work[p].zone
               /\ work'[p].budget = work[p].budget
    <2>1. c \in Cards
      BY <1>0 DEF Works
    <2>2. [work[p] EXCEPT !.card = c] \in Works
      BY <1>0, <2>1 DEF Works
    <2>3. cardLock' \in [Cards -> Polls \cup {NoOne}] /\ cardLock'[c] = p
          /\ \A d \in Cards : cardLock[d] \in {p, NoOne} \/ cardLock'[d] = cardLock[d]
      BY <1>2, <2>1, Types
    <2>4. Acts(p) /\ pc'[p] = "live" /\ work'[p] = [work[p] EXCEPT !.card = c]
      BY <1>0, <1>2, <2>2, <2>3, GotoActs, Types DEF Stages
    <2> QED
      BY <1>0, <1>2, <2>1, <2>3, <2>4 DEF Works, Chooses
  <1>3. ASSUME NEW c \in work[p].queue,
               Goto(p, "candidate", [work[p] EXCEPT !.queue = @ \ {c}]),
               UNCHANGED <<settingsLock, cardLock>>
        PROVE  /\ Acts(p) /\ pc'[p] = "candidate"
               /\ work'[p].at = work[p].at /\ work'[p].zone = work[p].zone
               /\ work'[p].budget = work[p].budget
    <2>1. [work[p] EXCEPT !.queue = @ \ {c}] \in Works
      BY <1>0 DEF Works
    <2>2. Acts(p) /\ pc'[p] = "candidate"
          /\ work'[p] = [work[p] EXCEPT !.queue = @ \ {c}]
      BY <1>0, <1>3, <2>1, GotoActs, Types DEF Stages
    <2> QED
      BY <1>0, <2>2 DEF Works
  <1> QED
    BY <1>0, <1>1, <1>2, <1>3 DEF PollCandidate

\* A poll sends for a card that no session is open on.
LEMMA PollCheckLiveActs ==
  ASSUME TypeOK, NEW p \in Polls, PollCheckLive(p)
  PROVE  /\ Acts(p) /\ pc[p] = "live"
         /\ \/ pc'[p] = "idle"
            \/ /\ pc'[p] = "send" /\ ~live[work[p].card]
               /\ UNCHANGED <<settingsLock, cardLock>>
               /\ work'[p].at = work[p].at /\ work'[p].zone = work[p].zone
               /\ work'[p].budget = work[p].budget /\ work'[p].card = work[p].card
  <1>0. p \in Workers /\ work[p] \in Works /\ pc[p] = "live"
    BY Types DEF Workers, PollCheckLive
  <1>1. CASE Finish(p)
    BY <1>0, <1>1, FinishActs
  <1>2. CASE /\ Goto(p, "send", [work[p] EXCEPT !.tokens = tokens])
             /\ UNCHANGED <<settingsLock, cardLock>> /\ ~live[work[p].card]
    <2>1. [work[p] EXCEPT !.tokens = tokens] \in Works
      BY <1>0, Types DEF Works
    <2>2. Acts(p) /\ pc'[p] = "send" /\ work'[p] = [work[p] EXCEPT !.tokens = tokens]
      BY <1>0, <1>2, <2>1, GotoActs, Types DEF Stages
    <2> QED
      BY <1>0, <1>2, <2>2 DEF Works
  <1> QED
    BY <1>0, <1>1, <1>2 DEF PollCheckLive, HoldThroughSend

\* A poll that was delivered knows it.
LEMMA SendPushActs ==
  ASSUME TypeOK, NEW p \in Polls, SendPush(p)
  PROVE  /\ Acts(p) /\ pc[p] = "send" /\ pc'[p] = "stamp"
         /\ UNCHANGED <<settingsLock, cardLock>>
         /\ work'[p].at = work[p].at /\ work'[p].zone = work[p].zone
         /\ work'[p].budget = work[p].budget /\ work'[p].card = work[p].card
         /\ work'[p].sent => delivered' = delivered \cup {<<work[p].card, work[p].at>>}
         /\ ~work'[p].sent => delivered' = delivered
  <1>0. p \in Workers /\ work[p] \in Works /\ pc[p] = "send"
        /\ UNCHANGED <<settingsLock, cardLock>>
    BY Types DEF Workers, SendPush
  <1>1. PICK accepted \in SUBSET work[p].tokens,
             invalid \in SUBSET work[p].tokens :
          /\ Goto(p, "stamp", [work[p] EXCEPT !.sent = accepted # {},
                                              !.invalid = invalid])
          /\ delivered' = IF accepted = {} THEN delivered
                          ELSE delivered \cup {<<work[p].card, work[p].at>>}
    BY DEF SendPush
  <1> DEFINE holding == [work[p] EXCEPT !.sent = accepted # {}, !.invalid = invalid]
  <1>3. holding \in Works /\ (holding.sent <=> accepted # {})
        /\ holding.at = work[p].at /\ holding.zone = work[p].zone
        /\ holding.budget = work[p].budget /\ holding.card = work[p].card
    BY <1>0 DEF Works
  <1>4. Acts(p) /\ pc'[p] = "stamp" /\ work'[p] = holding
    <2> HIDE DEF holding
    <2>1. Goto(p, "stamp", holding)
      BY <1>1 DEF holding
    <2> QED
      BY <1>0, <1>3, <2>1, GotoActs, Types DEF Stages
  <1> QED
    BY <1>0, <1>1, <1>3, <1>4

\* A stamp marks the candidate with the instant the poll decided at.
Stamp(p) ==
  [card |-> work[p].card, at |-> work[p].at, zone |-> work[p].zone,
   budget |-> work[p].budget]

\* The stamp is the last step of its call.
LEMMA PollStampActs ==
  ASSUME TypeOK, NEW p \in Polls, PollStamp(p)
  PROVE  /\ Acts(p) /\ pc[p] = "stamp" /\ pc'[p] = "idle"
         /\ \/ /\ work[p].sent
               /\ pushed' = [pushed EXCEPT ![work[p].card] = work[p].at]
               /\ pushes' = Append(pushes, Stamp(p))
            \/ UNCHANGED <<pushed, pushes>>
  <1>1. p \in Workers /\ Finish(p)
    BY DEF Workers, PollStamp
  <1>2. Acts(p) /\ pc'[p] = "idle"
    BY <1>1, FinishActs
  <1> QED
    BY <1>2 DEF PollStamp, Stamp

\* A sweep holds no lock between its cards.
LEMMA SweepActs ==
  ASSUME TypeOK, NEW s \in Sweeps, SweepStep(s)
  PROVE  /\ Acts(s) /\ pc'[s] \in {"idle", "sweep"}
  <1>0. s \in Workers /\ work[s] \in Works
    BY Types DEF Workers
  <1>1. CASE SweepDiscover(s)
    <2> DEFINE holding == [NoWork EXCEPT !.at = now - MissedAfter, !.queue =
              {c \in Cards : active[c] /\ Unresolved(c, now - MissedAfter)}]
    <2>1. now - MissedAfter \in Times
      BY Types, TimeAssumption DEF Times, Never
    <2>2. holding \in Works
      BY <2>1, NoWorkType DEF Works
    <2>3. Goto(s, "sweep", holding) /\ UNCHANGED <<settingsLock, cardLock>>
      BY <1>1 DEF SweepDiscover
    <2> HIDE DEF holding
    <2> QED
      BY <1>0, <2>2, <2>3, GotoActs, Types DEF Stages
  <1>2. ASSUME NEW c \in Cards, SweepCard(s, c)
        PROVE  Acts(s) /\ pc'[s] \in {"idle", "sweep"}
    <2>1. PICK stage \in {"idle", "sweep"}, holding \in Works : Goto(s, stage, holding)
      <3>1. [work[s] EXCEPT !.queue = work[s].queue \ {c}] \in Works
        BY <1>0 DEF Works
      <3> QED
        BY <1>2, <3>1, NoWorkType DEF SweepCard
    <2>2. UNCHANGED <<settingsLock, cardLock>>
      BY <1>2 DEF SweepCard
    <2> QED
      BY <1>0, <2>1, <2>2, GotoActs, Types DEF Stages
  <1> QED
    BY <1>1, <1>2 DEF SweepStep

------------------------------------------------------------------------------
(* What a step does to the calls and their locks.                             *)

\* A poll passes its guards.
Decides(p) ==
  /\ pc'[p] = "select" /\ settingsLock = NoOne /\ settingsLock' = p
  /\ work'[p].at = now /\ work'[p].zone = settings.zone
  /\ work'[p].budget = settings.budget
  /\ OpenWindows(now, settings.zone) # {}
  /\ PushedSince(WindowStart(now, settings.zone)) = {}
  /\ ~BudgetSpent(now, settings.zone, settings.budget)
  /\ UNCHANGED <<pushed, pushes, delivered>>

\* A poll goes on with what it decided, and with the card it chose.
GoesOn(p) ==
  /\ pc[p] \in Deciding /\ settingsLock' = settingsLock
  /\ work'[p].at = work[p].at /\ work'[p].zone = work[p].zone
  /\ work'[p].budget = work[p].budget
  /\ UNCHANGED <<cardVars, sessionVars, pushes>>
  /\ \/ pc'[p] = "candidate" /\ delivered' = delivered
     \/ (\E c \in Cards : Chooses(p, c)) /\ delivered' = delivered
     \/ /\ pc[p] = "live" /\ pc'[p] = "send" /\ ~live[work[p].card]
        /\ work'[p].card = work[p].card /\ UNCHANGED <<cardLock, delivered>>
     \/ /\ pc[p] = "send" /\ pc'[p] = "stamp" /\ UNCHANGED cardLock
        /\ work'[p].card = work[p].card
        /\ work'[p].sent => delivered' = delivered \cup {<<work[p].card, work[p].at>>}
        /\ ~work'[p].sent => delivered' = delivered

\* A call that holds nothing afterwards.
Leaves(w) ==
  pc'[w] \notin Deciding /\ delivered' = delivered /\ UNCHANGED <<pushed, pushes>>

CallsStill ==
  UNCHANGED <<pc, work, settingsLock, cardLock, pushed, pushes, delivered>>

\* No other step stamps a card, or touches a lock that is held.
LEMMA StepOfCalls ==
  ASSUME TypeOK, [Next]_vars
  PROVE  \/ CallsStill
         \/ \E w \in Workers : Acts(w) /\ Leaves(w)
         \/ \E p \in Polls : Acts(p) /\ (Decides(p) \/ GoesOn(p))
         \/ \E p \in Polls : PollStamp(p)
  <1>0. Polls \subseteq Workers /\ Sweeps \subseteq Workers
    BY DEF Workers
  <1>1. ASSUME NEW p \in Polls, PollCall(p) PROVE Acts(p) /\ Leaves(p)
    <2>1. Goto(p, "settings", NoWork) /\ UNCHANGED <<settingsLock, cardLock>>
          /\ UNCHANGED <<pushed, pushes, delivered>>
      BY <1>1 DEF PollCall, cardVars
    <2>2. Acts(p) /\ pc'[p] = "settings"
      BY <1>0, <2>1, GotoActs, Types, NoWorkType DEF Stages
    <2> QED
      BY <2>1, <2>2 DEF Leaves, Deciding
  <1>2. ASSUME NEW p \in Polls, PollGuards(p)
        PROVE  Acts(p) /\ (Leaves(p) \/ Decides(p))
    <2>1. UNCHANGED <<pushed, pushes, delivered>>
      BY <1>2 DEF PollGuards, cardVars
    <2> QED
      BY <1>2, <2>1, PollGuardsActs DEF Leaves, Decides, Deciding
  <1>3. ASSUME NEW p \in Polls, PollSelect(p) PROVE Acts(p) /\ GoesOn(p)
    <2>1. UNCHANGED <<cardVars, sessionVars, pushes, delivered>>
      BY <1>3 DEF PollSelect
    <2> QED
      BY <1>3, <2>1, PollSelectActs DEF GoesOn, Deciding
  <1>4. ASSUME NEW p \in Polls, PollCandidate(p)
        PROVE  Acts(p) /\ (Leaves(p) \/ GoesOn(p))
    <2>1. UNCHANGED <<cardVars, sessionVars, pushes, delivered>>
      BY <1>4 DEF PollCandidate
    <2> QED
      BY <1>4, <2>1, PollCandidateActs DEF Leaves, GoesOn, Deciding, cardVars
  <1>5. ASSUME NEW p \in Polls, PollCheckLive(p)
        PROVE  Acts(p) /\ (Leaves(p) \/ GoesOn(p))
    <2>1. UNCHANGED <<cardVars, sessionVars, pushes, delivered>>
      BY <1>5 DEF PollCheckLive
    <2> QED
      BY <1>5, <2>1, PollCheckLiveActs DEF Leaves, GoesOn, Deciding, cardVars
  <1>6. ASSUME NEW p \in Polls, SendPush(p) PROVE Acts(p) /\ GoesOn(p)
    <2>1. UNCHANGED <<cardVars, sessionVars, pushes>>
      BY <1>6 DEF SendPush
    <2> QED
      BY <1>6, <2>1, SendPushActs DEF GoesOn, Deciding
  <1>7. ASSUME NEW s \in Sweeps, SweepStep(s) PROVE Acts(s) /\ Leaves(s)
    <2>1. UNCHANGED <<pushed, pushes, delivered>>
      BY <1>7 DEF SweepStep, SweepDiscover, SweepCard, cardVars
    <2> QED
      BY <1>7, <2>1, SweepActs DEF Leaves, Deciding
  <1>8. ASSUME NEW w \in Workers, Crash(w) PROVE Acts(w) /\ Leaves(w)
    <2>1. UNCHANGED <<pushed, pushes, delivered>> /\ Finish(w)
      BY <1>8 DEF Crash, cardVars
    <2> QED
      BY <2>1, FinishActs DEF Leaves, Deciding
  <1>9. ASSUME \/ \E c \in Cards : \/ StartSession(c) \/ EndSession(c)
                                   \/ OpenLearning(c) \/ ChangeLifecycle(c)
               \/ WriteSettings \/ UpsertDeviceToken \/ Tick \/ UNCHANGED vars
        PROVE  CallsStill
    BY <1>9 DEF StartSession, EndSession, OpenLearning, ChangeLifecycle, WriteSettings,
       UpsertDeviceToken, Tick, vars, cardVars, workerVars, CallsStill
  <1> QED
    BY <1>0, <1>1, <1>2, <1>3, <1>4, <1>5, <1>6, <1>7, <1>8, <1>9
       DEF Next, PollStep, Environment

\* A card row that somebody has locked stands as it is.
LEMMA LockedRowsStand ==
  ASSUME TypeOK, [Next]_vars, NEW c \in Cards, cardLock[c] # NoOne
  PROVE  /\ active'[c] = active[c] /\ due'[c] = due[c] /\ hold'[c] = hold[c]
         /\ live'[c] = live[c]
  <1> DEFINE same == /\ active'[c] = active[c] /\ due'[c] = due[c]
                     /\ hold'[c] = hold[c] /\ live'[c] = live[c]
  <1>1. ASSUME NEW p \in Polls, PollCall(p) \/ PollStep(p) PROVE same
    BY <1>1 DEF PollCall, PollStep, PollGuards, PollSelect, PollCandidate, PollCheckLive,
       SendPush, PollStamp, cardVars, sessionVars
  <1>2. ASSUME NEW s \in Sweeps, SweepStep(s) PROVE same
    BY <1>2 DEF SweepStep, SweepDiscover, SweepCard, cardVars, sessionVars
  <1>3. ASSUME NEW d \in Cards,
               StartSession(d) \/ EndSession(d) \/ OpenLearning(d) \/ ChangeLifecycle(d)
        PROVE  same
    <2>1. c # d
      BY <1>3 DEF StartSession, EndSession, OpenLearning, ChangeLifecycle
    <2>2. /\ active' \in {active, [active EXCEPT ![d] = ~@]}
          /\ hold' = hold \/ \E h : hold' = [hold EXCEPT ![d] = h]
          /\ due' = due \/ \E h : due' = [due EXCEPT ![d] = h]
          /\ live' = live \/ \E h : live' = [live EXCEPT ![d] = h]
      BY <1>3 DEF StartSession, EndSession, OpenLearning, ChangeLifecycle, cardVars,
         sessionVars
    <2>3. active \in [Cards -> BOOLEAN] /\ hold \in [Cards -> Nat]
          /\ due \in [Cards -> Nat] /\ live \in [Cards -> BOOLEAN]
      BY DEF TypeOK, Days
    <2> QED
      BY <2>1, <2>2, <2>3
  <1>4. ASSUME \/ WriteSettings \/ UpsertDeviceToken \/ Tick \/ UNCHANGED vars
               \/ \E w \in Workers : Crash(w)
        PROVE  same
    BY <1>4 DEF WriteSettings, UpsertDeviceToken, Tick, Crash, vars, cardVars, sessionVars
  <1> QED
    BY <1>1, <1>2, <1>3, <1>4 DEF Next, Environment

------------------------------------------------------------------------------
(* The invariant is inductive.                                                *)

\* A step leaves the calls of everybody else, and the locks they hold.
LEMMA OthersStand ==
  ASSUME TypeOK, LocksHeld, NEW w \in Workers, Acts(w), NEW p \in Polls, p # w
  PROVE  /\ pc'[p] = pc[p] /\ work'[p] = work[p]
         /\ pc[p] \in Deciding => settingsLock' = p
         /\ pc[p] \in Offering =>
              work[p].card \in Cards /\ cardLock'[work[p].card] = p
  BY WorkerAssumption DEF Acts, LocksHeld, Workers

\* One poll at a time is past the guards of the account.
LEMMA OneDecides ==
  ASSUME LocksHeld, NEW p \in Polls, NEW q \in Polls,
         pc[p] \in Deciding, pc[q] \in Deciding
  PROVE  p = q
  BY DEF LocksHeld

\* Locks are held until their transaction ends.
LEMMA LocksStay ==
  ASSUME TypeOK, LocksHeld, [Next]_vars
  PROVE  LocksHeld'
  <1>1. CASE CallsStill
    BY <1>1 DEF CallsStill, LocksHeld
  <1>2. ASSUME NEW w \in Workers, Acts(w), pc'[w] \notin Deciding PROVE LocksHeld'
    BY <1>2, OthersStand DEF LocksHeld, Deciding, Offering
  <1>3. ASSUME NEW w \in Polls, Acts(w), Decides(w) PROVE LocksHeld'
    BY <1>3, OthersStand DEF LocksHeld, Decides, Deciding, Offering, Workers
  <1>4. ASSUME NEW w \in Polls, Acts(w), GoesOn(w) PROVE LocksHeld'
    <2>1. pc'[w] \in Deciding => settingsLock' = w
      BY <1>4 DEF GoesOn, LocksHeld
    <2>2. pc'[w] \in Offering => work'[w].card \in Cards /\ cardLock'[work'[w].card] = w
      BY <1>4 DEF GoesOn, LocksHeld, Chooses, Offering
    <2> QED
      BY <1>4, <2>1, <2>2, OthersStand DEF LocksHeld, Workers
  <1>5. ASSUME NEW w \in Polls, PollStamp(w) PROVE LocksHeld'
    BY <1>2, <1>5, PollStampActs DEF Workers, Deciding
  <1> QED
    BY <1>1, <1>2, <1>3, <1>4, <1>5, StepOfCalls DEF Leaves

\* Guards stand while nobody stamps and the call keeps what it decided with.
LEMMA GuardsKept ==
  ASSUME NEW p \in Polls, GuardsOf(p), pushed' = pushed,
         work'[p].at = work[p].at, work'[p].zone = work[p].zone,
         work'[p].budget = work[p].budget
  PROVE  GuardsOf(p)'
  BY DEF GuardsOf, PushedSince

\* The number of cards stamped since an instant is a number.
LEMMA StampedCards ==
  ASSUME NEW t
  PROVE  IsFiniteSet(PushedSince(t)) /\ Cardinality(PushedSince(t)) \in Nat
  BY FiniteAssumption, FS_Subset, FS_CardinalityType DEF PushedSince

\* The guards are passed under the lock, and nobody stamps until it is free.
LEMMA GuardsStay ==
  ASSUME TypeOK, LocksHeld, GuardsStand, [Next]_vars
  PROVE  GuardsStand'
  <1>1. CASE CallsStill
    BY <1>1, GuardsKept DEF CallsStill, GuardsStand
  <1>2. ASSUME NEW w \in Workers, Acts(w), Leaves(w) PROVE GuardsStand'
    BY <1>2, OthersStand, GuardsKept DEF GuardsStand, Leaves
  <1>3. ASSUME NEW w \in Polls, Acts(w), Decides(w) PROVE GuardsStand'
    <2>1. GuardsOf(w)'
      <3>1. now \in DayLength .. MaxTime
        BY Types
      <3>2. settings.budget \in Nat
        BY Types, TimeAssumption DEF SettingsRows
      <3>3. Cardinality(PushedSince(DayStart(now, settings.zone))) < settings.budget
        BY <1>3, <3>2, StampedCards DEF Decides, BudgetSpent
      <3> QED
        BY <1>3, <3>1, <3>3 DEF GuardsOf, Decides, PushedSince
    <2> QED
      BY <1>3, <2>1, OthersStand, GuardsKept DEF GuardsStand, Decides, Workers
  <1>4. ASSUME NEW w \in Polls, Acts(w), GoesOn(w) PROVE GuardsStand'
    <2>1. GuardsOf(w)'
      BY <1>4, GuardsKept DEF GoesOn, GuardsStand, cardVars
    <2> QED
      BY <1>4, <2>1, OthersStand, GuardsKept DEF GuardsStand, GoesOn, Workers, cardVars
  <1>5. ASSUME NEW w \in Polls, PollStamp(w) PROVE GuardsStand'
    <2>1. Acts(w) /\ pc'[w] = "idle" /\ pc[w] \in Deciding
      BY <1>5, PollStampActs DEF Deciding
    <2>2. ASSUME NEW p \in Polls, p # w PROVE pc'[p] \notin Deciding
      BY <2>1, <2>2, OthersStand, OneDecides DEF Workers
    <2> QED
      BY <2>1, <2>2 DEF GuardsStand, Deciding
  <1> QED
    BY <1>1, <1>2, <1>3, <1>4, <1>5, StepOfCalls

\* A card stays due and unoffered for the poll that locked it.
LEMMA ChoiceKept ==
  ASSUME NEW p \in Polls, NEW c \in Cards, NEW at, NEW zone,
         c \in DueCards(at, zone), Unoffered(c, at, zone),
         active'[c] = active[c], due'[c] = due[c], hold'[c] = hold[c],
         pushed' = pushed, work'[p].card = c, work'[p].at = at, work'[p].zone = zone
  PROVE  /\ work'[p].card \in DueCards(work[p].at, work[p].zone)'
         /\ Unoffered(work[p].card, work[p].at, work[p].zone)'
  BY DEF DueCards, Unoffered

\* The candidate stays to be offered: its row is locked.
LEMMA ChoiceStays ==
  ASSUME TypeOK, LocksHeld, ChoiceStands, CandidateStaysOfferable, [Next]_vars
  PROVE  ChoiceStands' /\ CandidateStaysOfferable'
  <1> DEFINE Good(p) ==
        /\ pc[p] \in Offering =>
             /\ work[p].card \in DueCards(work[p].at, work[p].zone)
             /\ Unoffered(work[p].card, work[p].at, work[p].zone)
        /\ pc[p] \in {"send", "stamp"} => ~live[work[p].card]
  <1>0. \A p \in Polls : Good(p)
    BY DEF ChoiceStands, CandidateStaysOfferable
  <1>1. ASSUME NEW p \in Polls, pc'[p] = pc[p], work'[p] = work[p], pushed' = pushed
        PROVE  Good(p)'
    <2>1. CASE pc[p] \notin Offering
      BY <1>1, <2>1 DEF Offering
    <2>2. CASE pc[p] \in Offering
      <3> DEFINE c == work[p].card
      <3>1. c \in Cards /\ cardLock[c] # NoOne
        BY <2>2, WorkerAssumption DEF LocksHeld
      <3>2. active'[c] = active[c] /\ due'[c] = due[c] /\ hold'[c] = hold[c]
            /\ live'[c] = live[c]
        BY <3>1, LockedRowsStand
      <3>3. c \in DueCards(work[p].at, work[p].zone)
            /\ Unoffered(c, work[p].at, work[p].zone)
        BY <1>0, <2>2
      <3>4. pc[p] \in {"send", "stamp"} => ~live[c]
        BY <1>0
      <3> QED
        BY <1>1, <3>1, <3>2, <3>3, <3>4, ChoiceKept
    <2> QED
      BY <2>1, <2>2
  <1>2. ASSUME NEW p \in Polls, pc'[p] \notin Offering PROVE Good(p)'
    BY <1>2 DEF Offering
  <1>3. ASSUME NEW p \in Polls, GoesOn(p) PROVE Good(p)'
    <2>1. UNCHANGED <<active, due, hold, pushed, live>>
      BY <1>3 DEF GoesOn, cardVars, sessionVars
    <2>2. CASE pc'[p] = "candidate"
      BY <1>2, <2>2 DEF Offering
    <2>3. ASSUME NEW c \in Cards, Chooses(p, c) PROVE Good(p)'
      <3>1. pc'[p] = "live" /\ work'[p].card = c /\ work'[p].at = work[p].at
            /\ work'[p].zone = work[p].zone
            /\ c \in DueCards(work[p].at, work[p].zone)
            /\ Unoffered(c, work[p].at, work[p].zone)
        BY <1>3, <2>3 DEF GoesOn, Chooses
      <3> QED
        BY <2>1, <3>1, ChoiceKept
    <2>4. CASE /\ pc[p] \in {"live", "send"} /\ pc'[p] \in {"send", "stamp"}
               /\ work'[p].card = work[p].card
               /\ pc[p] = "live" => ~live[work[p].card]
      <3>1. work[p].card \in Cards /\ pc[p] \in Offering
        BY <2>4 DEF LocksHeld, Offering
      <3>2. work'[p].at = work[p].at /\ work'[p].zone = work[p].zone
        BY <1>3 DEF GoesOn
      <3>3. ~live[work[p].card]
        BY <1>0, <2>4
      <3> QED
        BY <1>0, <2>1, <2>4, <3>1, <3>2, <3>3, ChoiceKept
    <2> QED
      BY <1>3, <2>2, <2>3, <2>4 DEF GoesOn
  <1>4. \A p \in Polls : Good(p)'
    <2>1. CASE CallsStill
      BY <1>1, <2>1 DEF CallsStill
    <2>2. ASSUME NEW w \in Workers, Acts(w), Leaves(w) PROVE \A p \in Polls : Good(p)'
      BY <1>1, <1>2, <2>2, OthersStand DEF Leaves, Deciding, Offering
    <2>3. ASSUME NEW w \in Polls, Acts(w), Decides(w) PROVE \A p \in Polls : Good(p)'
      BY <1>1, <1>2, <2>3, OthersStand DEF Decides, Offering, Workers
    <2>4. ASSUME NEW w \in Polls, Acts(w), GoesOn(w) PROVE \A p \in Polls : Good(p)'
      BY <1>1, <1>3, <2>4, OthersStand DEF GoesOn, Workers, cardVars
    <2>5. ASSUME NEW w \in Polls, PollStamp(w) PROVE \A p \in Polls : Good(p)'
      <3>1. Acts(w) /\ pc'[w] = "idle" /\ pc[w] \in Deciding
        BY <2>5, PollStampActs DEF Deciding
      <3>2. ASSUME NEW p \in Polls PROVE pc'[p] \notin Offering
        BY <3>1, <3>2, OthersStand, OneDecides DEF Workers, Deciding, Offering
      <3> QED
        BY <1>2, <3>2
    <2> QED
      BY <2>1, <2>2, <2>3, <2>4, <2>5, StepOfCalls
  <1>5. ChoiceStands'
    BY <1>4 DEF ChoiceStands
  <1>6. CandidateStaysOfferable'
    BY <1>4 DEF CandidateStaysOfferable, Offering
  <1> QED
    BY <1>5, <1>6

\* The columns of the rows, and the clock, keep their types.
LEMMA RowTypesStay ==
  ASSUME TypeOK, [Next]_vars
  PROVE  /\ now' \in DayLength .. MaxTime /\ settings' \in SettingsRows
         /\ tokens' \subseteq Tokens
         /\ active' \in [Cards -> BOOLEAN] /\ live' \in [Cards -> BOOLEAN]
         /\ due' \in [Cards -> Days] /\ hold' \in [Cards -> Nat]
         /\ {counted', resolved', learned', started'} \subseteq [Cards -> Times]
         /\ missed' \in [Cards -> Nat]
  <1> DEFINE typed ==
         /\ now' \in DayLength .. MaxTime /\ settings' \in SettingsRows
         /\ tokens' \subseteq Tokens
         /\ active' \in [Cards -> BOOLEAN] /\ live' \in [Cards -> BOOLEAN]
         /\ due' \in [Cards -> Days] /\ hold' \in [Cards -> Nat]
         /\ {counted', resolved', learned', started'} \subseteq [Cards -> Times]
         /\ missed' \in [Cards -> Nat]
  <1>0. /\ now \in DayLength .. MaxTime /\ settings \in SettingsRows
        /\ tokens \subseteq Tokens
        /\ active \in [Cards -> BOOLEAN] /\ live \in [Cards -> BOOLEAN]
        /\ due \in [Cards -> Days] /\ hold \in [Cards -> Nat]
        /\ {pushed, counted, resolved, learned, started} \subseteq [Cards -> Times]
        /\ missed \in [Cards -> Nat] /\ now \in Times
    BY Types DEF TypeOK
  <1>1. ASSUME NEW p \in Polls, PollCall(p) \/ PollStep(p) PROVE typed
    BY <1>0, <1>1 DEF PollCall, PollStep, PollGuards, PollSelect, PollCandidate,
       PollCheckLive, SendPush, PollStamp, cardVars, sessionVars
  <1>2. ASSUME NEW s \in Sweeps, SweepStep(s) PROVE typed
    <2>1. CASE SweepDiscover(s)
      BY <1>0, <2>1 DEF SweepDiscover, cardVars, sessionVars
    <2>2. ASSUME NEW c \in Cards, SweepCard(s, c) PROVE typed
      <3>1. UNCHANGED <<now, settings, tokens, active, live, due, hold, learned, started>>
        BY <2>2 DEF SweepCard, sessionVars
      <3>2. counted' \in [Cards -> Times] /\ resolved' \in [Cards -> Times]
            /\ missed' \in [Cards -> Nat]
        BY <1>0, <2>2 DEF SweepCard, ResolveAnswered
      <3> QED
        BY <1>0, <3>1, <3>2
    <2> QED
      BY <1>2, <2>1, <2>2 DEF SweepStep
  <1>3. ASSUME NEW c \in Cards, OpenLearning(c) PROVE typed
    <2> DEFINE zone == settings.zone
    <2>1. now \in Nat /\ zone \in Zones /\ RecallDelay \in Nat /\ DayLength \in Nat
      BY <1>0, TimeAssumption DEF SettingsRows, Times, Never
    <2>2. DayStart(now, zone) + DayLength \in Nat /\ now + RecallDelay \in Nat
      BY <2>1, DayStartIs
    <2>3. HoldAfter(now, zone) \in Nat
      BY <2>2, MaxOfTwo DEF HoldAfter
    <2>4. Max({hold[c], HoldAfter(now, zone)}) \in Nat
      BY <1>0, <2>3, MaxOfTwo
    <2>5. hold' = [hold EXCEPT ![c] = Max({hold[c], HoldAfter(now, zone)})]
      BY <1>3 DEF OpenLearning
    <2>6. hold' \in [Cards -> Nat]
      BY <1>0, <2>4, <2>5
    <2>7. learned' \in [Cards -> Times]
      BY <1>0, <1>3 DEF OpenLearning
    <2> QED
      BY <1>0, <1>3, <2>6, <2>7 DEF OpenLearning, sessionVars
  <1>4. ASSUME NEW c \in Cards, StartSession(c) \/ EndSession(c) \/ ChangeLifecycle(c)
        PROVE  typed
    <2>1. settings.zone \in Zones /\ now \in Nat
      BY <1>0, TimeAssumption DEF SettingsRows, Times, Never
    <2>2. LocalDay(now, settings.zone) + 1 \in Nat
      BY <2>1, DayStartIs
    <2>3. due' \in [Cards -> Days]
      BY <1>0, <1>4, <2>2
         DEF StartSession, EndSession, ChangeLifecycle, cardVars, Days
    <2>4. /\ active' = active \/ active' = [active EXCEPT ![c] = ~@]
          /\ \/ live' = live \/ live' = [live EXCEPT ![c] = TRUE]
             \/ live' = [live EXCEPT ![c] = FALSE]
          /\ started' = started \/ started' = [started EXCEPT ![c] = now]
          /\ UNCHANGED <<now, settings, tokens, hold, counted, resolved, learned, missed>>
      BY <1>4 DEF StartSession, EndSession, ChangeLifecycle, cardVars, sessionVars
    <2>5. active' \in [Cards -> BOOLEAN] /\ live' \in [Cards -> BOOLEAN]
          /\ started' \in [Cards -> Times]
      BY <1>0, <2>4
    <2> QED
      BY <1>0, <2>3, <2>4, <2>5
  <1>5. ASSUME \/ WriteSettings \/ UpsertDeviceToken \/ Tick \/ UNCHANGED vars
               \/ \E w \in Workers : Crash(w)
        PROVE  typed
    BY <1>0, <1>5, TimeAssumption DEF WriteSettings, UpsertDeviceToken, Tick, Crash, vars,
       cardVars, sessionVars
  <1> QED
    BY <1>1, <1>2, <1>3, <1>4, <1>5 DEF Next, Environment

\* Types are kept, what a poll stamps and delivers included.
LEMMA TypesStay ==
  ASSUME TypeOK, LocksHeld, [Next]_vars
  PROVE  TypeOK'
  <1> DEFINE calls == /\ settingsLock' \in Polls \cup {NoOne}
                      /\ cardLock' \in [Cards -> Polls \cup {NoOne}]
                      /\ pc' \in [Workers -> Stages]
                      /\ work' \in [Workers -> Works]
                      /\ delivered' \subseteq Cards \X Times
                      /\ pushed' \in [Cards -> Times]
  <1>1. ASSUME CallsStill PROVE calls
    BY <1>1, Types DEF CallsStill
  <1>2. ASSUME NEW w \in Workers, Acts(w), Leaves(w) PROVE calls
    BY <1>2, Types DEF Acts, Leaves
  <1>3. ASSUME NEW p \in Polls, Acts(p), Decides(p) PROVE calls
    BY <1>3, Types DEF Acts, Decides
  <1>4. ASSUME NEW p \in Polls, Acts(p), GoesOn(p) PROVE calls
    <2>1. work[p].at \in Times
      BY Types DEF Works, Workers
    <2>2. pc[p] = "send" => work[p].card \in Cards
      BY DEF LocksHeld, Offering
    <2>3. delivered' \subseteq Cards \X Times
      BY <1>4, <2>1, <2>2, Types DEF GoesOn
    <2> QED
      BY <1>4, <2>3, Types DEF Acts, GoesOn, cardVars
  <1>5. ASSUME NEW p \in Polls, PollStamp(p) PROVE calls
    <2>1. work[p].at \in Times
      BY Types DEF Works, Workers
    <2>2. pushed' \in [Cards -> Times]
      BY <1>5, <2>1, PollStampActs, Types
    <2>3. delivered' = delivered
      BY <1>5 DEF PollStamp
    <2> QED
      BY <1>5, <2>2, <2>3, PollStampActs, Types DEF Acts
  <1>6. calls
    BY <1>1, <1>2, <1>3, <1>4, <1>5, StepOfCalls, Types DEF CallsStill
  <1> QED
    BY <1>6, RowTypesStay DEF TypeOK

------------------------------------------------------------------------------
(* The history of the pushes.                                                 *)

\* A stamp is later than the window of every push before it allows, of a card that
\* is new to the day, and within the budget of the day's cards.
LEMMA HistoryOfStamp ==
  ASSUME IInv, NEW p \in Polls, PollStamp(p), work[p].sent,
         pushed' = [pushed EXCEPT ![work[p].card] = work[p].at],
         pushes' = Append(pushes, Stamp(p))
  PROVE  StampsAreKept' /\ OnePushPerWindow' /\ OfferedOncePerDay' /\ CardsWithinBudget'
  <1> DEFINE at == work[p].at
             zone == work[p].zone
             card == work[p].card
             ws == WindowStart(at, zone)
             ds == DayStart(at, zone)
             n == Len(pushes)
  <1>0. TypeOK /\ LocksHeld /\ GuardsStand /\ ChoiceStands /\ StampsAreKept
        /\ OnePushPerWindow /\ OfferedOncePerDay /\ CardsWithinBudget
    BY DEF IInv
  <1>1. pc[p] \in Deciding /\ pc[p] \in Offering /\ pc[p] = "stamp"
    BY DEF PollStamp, Deciding, Offering
  <1>2. /\ card \in Cards /\ at \in DayLength .. MaxTime /\ at \in Nat
        /\ zone \in Zones /\ work[p].budget \in Budgets /\ work[p].budget \in Nat
    <2>1. card \in Cards
      BY <1>0, <1>1 DEF LocksHeld
    <2>2. at \in DayLength .. MaxTime
      BY <1>0, <1>1 DEF GuardsStand, GuardsOf
    <2>3. work[p] \in Works
      BY <1>0, Types DEF Workers
    <2>4. zone \in Zones /\ work[p].budget \in Budgets
      BY <2>3 DEF Works
    <2> QED
      BY <2>1, <2>2, <2>4, Numbers
  <1>3. /\ OpenWindows(at, zone) # {} /\ PushedSince(ws) = {}
        /\ Cardinality(PushedSince(ds)) < work[p].budget
        /\ Unoffered(card, at, zone)
    BY <1>0, <1>1 DEF GuardsStand, GuardsOf, ChoiceStands
  <1>4. ws \in Int /\ ds \in Int /\ ds <= ws /\ ws <= at
    BY <1>2, <1>3, WindowStartIs, DayStartIs
  <1>5. /\ n \in Nat /\ DOMAIN pushes = 1 .. n /\ DOMAIN pushes' = 1 .. n + 1
        /\ \A i \in 1 .. n : pushes'[i] = pushes[i] /\ pushes[i] \in Stamps
        /\ pushes'[n + 1] = Stamp(p)
        /\ pushes' \in Seq(Stamps)
    <2>1. Stamp(p) \in Stamps
      BY <1>2 DEF Stamp, Stamps
    <2>2. pushes \in Seq(Stamps)
      BY <1>0 DEF StampsAreKept
    <2> QED
      BY <2>1, <2>2
  <1>6. Stamp(p).card = card /\ Stamp(p).at = at /\ Stamp(p).zone = zone
        /\ Stamp(p).budget = work[p].budget
    BY DEF Stamp
  <1> HIDE DEF ws, ds
  <1>7. ASSUME NEW i \in 1 .. n
        PROVE  /\ pushes[i].card \in Cards /\ pushes[i].at \in Nat
               /\ pushed[pushes[i].card] \in Nat
               /\ pushes[i].at <= pushed[pushes[i].card]
               /\ pushed[pushes[i].card] # Never
               /\ pushed[pushes[i].card] < ws
    <2>1. pushes[i].card \in Cards /\ pushes[i].at \in DayLength .. MaxTime
      BY <1>5 DEF Stamps
    <2>2. pushed[pushes[i].card] \in Nat
      BY <1>0, <2>1, Types DEF Times, Never
    <2>3. pushes[i].at <= pushed[pushes[i].card]
      BY <1>0, <1>5 DEF StampsAreKept
    <2>4. pushed[pushes[i].card] # Never /\ pushes[i].at \in Nat
      BY <2>1, <2>2, <2>3, TimeAssumption DEF Never
    <2>5. ~ (pushed[pushes[i].card] >= ws)
      BY <1>3, <2>1, <2>4 DEF PushedSince
    <2> QED
      BY <1>4, <2>1, <2>2, <2>3, <2>4, <2>5
  <1>8. StampsAreKept'
    <2>1. ASSUME NEW i \in 1 .. n + 1
          PROVE  /\ OpenWindows(pushes'[i].at, pushes'[i].zone) # {}
                 /\ pushes'[i].at <= pushed'[pushes'[i].card]
      <3>1. CASE i = n + 1
        <4>1. pushed'[card] = at
          BY <1>0, <1>2, Types
        <4> QED
          BY <1>2, <1>3, <1>5, <1>6, <3>1, <4>1
      <3>2. CASE i # n + 1
        <4>1. i \in 1 .. n
          BY <1>5, <3>2
        <4>2. OpenWindows(pushes[i].at, pushes[i].zone) # {}
          BY <1>0, <1>5, <4>1 DEF StampsAreKept
        <4>3. pushed'[pushes[i].card] = IF pushes[i].card = card THEN at
                                        ELSE pushed[pushes[i].card]
          BY <1>0, <1>7, <4>1, Types
        <4>4. pushes[i].at <= pushed'[pushes[i].card]
          BY <1>2, <1>4, <1>7, <4>1, <4>3
        <4> QED
          BY <1>5, <4>1, <4>2, <4>4
      <3> QED
        BY <3>1, <3>2
    <2> QED
      BY <1>5, <2>1 DEF StampsAreKept
  <1>9. OnePushPerWindow'
    <2>1. ASSUME NEW j \in 1 .. n + 1, NEW i \in 1 .. j - 1
          PROVE  pushes'[i].at < WindowStart(pushes'[j].at, pushes'[j].zone)
      <3>1. i \in 1 .. n
        BY <1>5
      <3>2. CASE j = n + 1
        BY <1>4, <1>5, <1>6, <1>7, <3>1, <3>2 DEF ws
      <3>3. CASE j # n + 1
        <4>1. j \in 1 .. n
          BY <1>5, <3>3
        <4> QED
          BY <1>0, <1>5, <3>1, <4>1 DEF OnePushPerWindow
      <3> QED
        BY <3>2, <3>3
    <2> QED
      BY <1>5, <2>1 DEF OnePushPerWindow
  <1>10. OfferedOncePerDay'
    <2>1. ASSUME NEW j \in 1 .. n + 1, NEW i \in 1 .. j - 1,
                 pushes'[i].card = pushes'[j].card
          PROVE  pushes'[i].at < DayStart(pushes'[j].at, pushes'[j].zone)
      <3>1. i \in 1 .. n
        BY <1>5
      <3>2. CASE j = n + 1
        <4>1. pushes[i].card = card
          BY <1>5, <1>6, <2>1, <3>1, <3>2
        <4>2. pushed[card] < ds
          BY <1>3, <1>7, <3>1, <4>1 DEF Unoffered, ds
        <4> QED
          BY <1>4, <1>5, <1>6, <1>7, <3>1, <3>2, <4>1, <4>2 DEF ds
      <3>3. CASE j # n + 1
        <4>1. j \in 1 .. n
          BY <1>5, <3>3
        <4> QED
          BY <1>0, <1>5, <2>1, <3>1, <4>1 DEF OfferedOncePerDay
      <3> QED
        BY <3>2, <3>3
    <2> QED
      BY <1>5, <2>1 DEF OfferedOncePerDay
  <1>11. CardsWithinBudget'
    <2>1. ASSUME NEW j \in 1 .. n + 1
          PROVE  Cardinality({pushes'[i].card : i \in DayOfPush(j)'}) <= pushes'[j].budget
      <3>1. CASE j = n + 1
        <4> DEFINE cards == {pushes'[i].card : i \in DayOfPush(j)'}
        <4>1. DayOfPush(j)' = {i \in 1 .. n + 1 : pushes'[i].at >= ds}
          BY <1>5, <1>6, <3>1 DEF DayOfPush, ds
        <4>2. cards \subseteq PushedSince(ds) \cup {card}
          <5>1. ASSUME NEW i \in DayOfPush(j)'
                PROVE  pushes'[i].card \in PushedSince(ds) \cup {card}
            <6>1. CASE i = n + 1
              BY <1>5, <1>6, <6>1
            <6>2. CASE i # n + 1
              <7>1. i \in 1 .. n /\ pushes[i].at >= ds
                BY <1>5, <4>1, <6>2
              <7>2. pushed[pushes[i].card] >= ds
                BY <1>4, <1>7, <7>1
              <7> QED
                BY <1>5, <1>7, <7>1, <7>2 DEF PushedSince
            <6> QED
              BY <6>1, <6>2
          <5> QED
            BY <5>1
        <4>3. IsFiniteSet(PushedSince(ds)) /\ Cardinality(PushedSince(ds)) \in Nat
          BY StampedCards
        <4>4. /\ IsFiniteSet(PushedSince(ds) \cup {card})
              /\ Cardinality(PushedSince(ds) \cup {card}) <= Cardinality(PushedSince(ds)) + 1
          <5>1. /\ IsFiniteSet(PushedSince(ds) \cup {card})
                /\ Cardinality(PushedSince(ds) \cup {card}) =
                     IF card \in PushedSince(ds) THEN Cardinality(PushedSince(ds))
                     ELSE Cardinality(PushedSince(ds)) + 1
            BY <4>3, FS_AddElement
          <5> QED
            BY <4>3, <5>1
        <4>5. Cardinality(cards) <= Cardinality(PushedSince(ds) \cup {card})
              /\ Cardinality(cards) \in Nat
              /\ Cardinality(PushedSince(ds) \cup {card}) \in Nat
          <5> HIDE DEF cards
          <5> QED
            BY <4>2, <4>4, FS_Subset, FS_CardinalityType
        <4>6. Cardinality(PushedSince(ds)) < work[p].budget
          BY <1>3 DEF ds
        <4>7. Cardinality(cards) <= work[p].budget
          <5> HIDE DEF cards
          <5> QED
            BY <1>2, <4>3, <4>4, <4>5, <4>6
        <4> QED
          BY <1>5, <1>6, <3>1, <4>7
      <3>2. CASE j # n + 1
        <4>1. j \in 1 .. n
          BY <1>5, <3>2
        <4>2. DayOfPush(j)' = DayOfPush(j) /\ DayOfPush(j) \subseteq 1 .. n
          BY <1>5, <4>1 DEF DayOfPush
        <4>3. {pushes'[i].card : i \in DayOfPush(j)'} = {pushes[i].card : i \in DayOfPush(j)}
          BY <1>5, <4>2
        <4> QED
          BY <1>0, <1>5, <4>1, <4>3 DEF CardsWithinBudget
      <3> QED
        BY <3>1, <3>2
    <2> QED
      BY <1>5, <2>1 DEF CardsWithinBudget
  <1> QED
    BY <1>8, <1>9, <1>10, <1>11

\* Nothing else touches the history.
LEMMA HistoryStays ==
  ASSUME IInv, [Next]_vars
  PROVE  StampsAreKept' /\ OnePushPerWindow' /\ OfferedOncePerDay' /\ CardsWithinBudget'
  <1>0. StampsAreKept /\ OnePushPerWindow /\ OfferedOncePerDay /\ CardsWithinBudget
        /\ TypeOK
    BY DEF IInv
  <1>1. CASE UNCHANGED <<pushed, pushes>>
    BY <1>0, <1>1 DEF StampsAreKept, OnePushPerWindow, OfferedOncePerDay,
       CardsWithinBudget, DayOfPush
  <1>2. ASSUME NEW p \in Polls, PollStamp(p), ~UNCHANGED <<pushed, pushes>>
        PROVE  StampsAreKept' /\ OnePushPerWindow' /\ OfferedOncePerDay'
               /\ CardsWithinBudget'
    BY <1>0, <1>2, PollStampActs, HistoryOfStamp
  <1> QED
    BY <1>0, <1>1, <1>2, StepOfCalls
       DEF CallsStill, Leaves, Decides, GoesOn, cardVars

\* What is stamped was delivered before.
LEMMA DeliveriesStay ==
  ASSUME TypeOK, LocksHeld, StampsWereDelivered, [Next]_vars
  PROVE  StampsWereDelivered'
  <1> DEFINE Sent(p) == pc[p] = "stamp" /\ work[p].sent =>
                          <<work[p].card, work[p].at>> \in delivered
             Known(c) == pushed[c] # Never => <<c, pushed[c]>> \in delivered
  <1>0. (\A c \in Cards : Known(c)) /\ (\A p \in Polls : Sent(p))
    BY DEF StampsWereDelivered
  <1>1. CASE CallsStill
    BY <1>1 DEF CallsStill, StampsWereDelivered
  <1>2. ASSUME NEW w \in Workers, Acts(w), UNCHANGED <<pushed, delivered>>,
               pc'[w] # "stamp"
        PROVE  StampsWereDelivered'
    BY <1>2 DEF StampsWereDelivered, Acts, Workers
  <1>3. ASSUME NEW p \in Polls, Acts(p), GoesOn(p), pc'[p] = "stamp"
        PROVE  StampsWereDelivered'
    <2>1. pc[p] = "send" /\ pushed' = pushed /\ delivered \subseteq delivered'
      BY <1>3 DEF GoesOn, Chooses, cardVars
    <2>2. work'[p].sent => <<work'[p].card, work'[p].at>> \in delivered'
      BY <1>3, <2>1 DEF GoesOn, Chooses
    <2> QED
      BY <1>3, <2>1, <2>2 DEF StampsWereDelivered, Acts, Workers
  <1>4. ASSUME NEW p \in Polls, PollStamp(p) PROVE StampsWereDelivered'
    <2>1. Acts(p) /\ pc[p] = "stamp" /\ pc'[p] = "idle"
      BY <1>4, PollStampActs
    <2>2. delivered' = delivered
      BY <1>4 DEF PollStamp
    <2>3. CASE pushed' = pushed
      BY <1>2, <2>1, <2>2, <2>3 DEF Workers
    <2>4. CASE work[p].sent /\ pushed' = [pushed EXCEPT ![work[p].card] = work[p].at]
      <3>1. ASSUME NEW c \in Cards PROVE Known(c)'
        <4>1. CASE c = work[p].card
          BY <1>0, <2>1, <2>2, <2>4, <4>1, Types
        <4>2. CASE c # work[p].card
          BY <1>0, <2>2, <2>4, <4>2, Types
        <4> QED
          BY <4>1, <4>2
      <3>2. ASSUME NEW q \in Polls PROVE Sent(q)'
        BY <1>0, <2>1, <2>2 DEF Acts, Workers
      <3> QED
        BY <3>1, <3>2 DEF StampsWereDelivered
    <2> QED
      BY <1>4, <2>3, <2>4, PollStampActs
  <1>5. ASSUME NEW w \in Workers, Acts(w), Leaves(w) PROVE StampsWereDelivered'
    BY <1>2, <1>5 DEF Leaves, Deciding
  <1>6. ASSUME NEW p \in Polls, Acts(p), Decides(p) PROVE StampsWereDelivered'
    BY <1>2, <1>6 DEF Decides, Workers
  <1>7. ASSUME NEW p \in Polls, Acts(p), GoesOn(p), pc'[p] # "stamp"
        PROVE  StampsWereDelivered'
    BY <1>2, <1>7 DEF GoesOn, Workers, cardVars
  <1> QED
    BY <1>1, <1>3, <1>4, <1>5, <1>6, <1>7, StepOfCalls

\* While the time zone stands a day's pushes are of different cards, so that the
\* limit on the cards is one on the pushes.
LEMMA CapFollows ==
  ASSUME TypeOK, StampsAreKept, OnePushPerWindow, OfferedOncePerDay, CardsWithinBudget
  PROVE  CapIsExact
  <1> SUFFICES ASSUME NEW j \in DOMAIN pushes,
                      \A i \in DayOfPush(j) : pushes[i].zone = pushes[j].zone
               PROVE  Cardinality(DayOfPush(j)) <= pushes[j].budget
    BY DEF CapIsExact, CardsWithinBudget
  <1> DEFINE day == DayOfPush(j)
             zone == pushes[j].zone
             cards == {pushes[i].card : i \in day}
             f == [i \in day |-> pushes[i].card]
  <1>1. \A i \in DOMAIN pushes :
          /\ pushes[i].card \in Cards /\ pushes[i].zone \in Zones
          /\ pushes[i].at \in Nat /\ pushes[i].budget \in Nat
          /\ OpenWindows(pushes[i].at, pushes[i].zone) # {}
    <2>1. ASSUME NEW i \in DOMAIN pushes
          PROVE  pushes[i] \in Stamps /\ OpenWindows(pushes[i].at, pushes[i].zone) # {}
      BY <2>1 DEF StampsAreKept
    <2> QED
      BY <2>1, Numbers DEF Stamps
  <1>2. day \subseteq 1 .. j /\ DOMAIN pushes = 1 .. Len(pushes) /\ j \in Nat
        /\ 1 .. j \subseteq DOMAIN pushes
    BY DEF DayOfPush, StampsAreKept
  <1>3. ASSUME NEW k \in day
        PROVE  DayStart(pushes[k].at, pushes[k].zone) = DayStart(pushes[j].at, zone)
    <2>1. k \in 1 .. j /\ pushes[k].zone = zone /\ DayStart(pushes[j].at, zone) <= pushes[k].at
      BY <1>1, <1>2, <1>3, DayStartIs DEF DayOfPush
    <2>2. pushes[k].at <= pushes[j].at
      <3>1. CASE k = j
        BY <1>1, <3>1
      <3>2. CASE k # j
        <4>1. pushes[k].at < WindowStart(pushes[j].at, zone)
          BY <1>2, <2>1, <3>2 DEF OnePushPerWindow
        <4>2. WindowStart(pushes[j].at, zone) \in Int
              /\ WindowStart(pushes[j].at, zone) <= pushes[j].at
          BY <1>1, WindowStartIs
        <4> QED
          BY <1>1, <1>2, <2>1, <4>1, <4>2
      <3> QED
        BY <3>1, <3>2
    <2> QED
      BY <1>1, <1>2, <2>1, <2>2, SameDay
  <1>4. ASSUME NEW i \in day, NEW k \in day, i < k, pushes[i].card = pushes[k].card
        PROVE  FALSE
    <2>1. i \in 1 .. k - 1 /\ k \in DOMAIN pushes /\ i \in DOMAIN pushes
      BY <1>2, <1>4
    <2>2. pushes[i].at < DayStart(pushes[k].at, pushes[k].zone)
      BY <1>4, <2>1 DEF OfferedOncePerDay
    <2>3. pushes[i].at < DayStart(pushes[j].at, zone)
      BY <1>3, <1>4, <2>2
    <2>4. pushes[i].at >= DayStart(pushes[j].at, zone)
      BY <1>4 DEF DayOfPush
    <2> QED
      BY <1>1, <2>1, <2>3, <2>4, DayStartIs
  <1>5. f \in Injection(day, cards)
    <2>1. \A i, k \in day : i = k \/ i < k \/ k < i
      BY <1>2
    <2>2. \A i, k \in day : f[i] = f[k] => i = k
      BY <1>4, <2>1
    <2> QED
      BY <2>2 DEF Injection, IsInjective
  <1>6. IsFiniteSet(cards) /\ Cardinality(cards) \in Nat
    <2>1. cards \subseteq Cards
      BY <1>1, <1>2
    <2> HIDE DEF cards
    <2> QED
      BY <2>1, FiniteAssumption, FS_Subset, FS_CardinalityType
  <1>7. IsFiniteSet(day) /\ Cardinality(day) <= Cardinality(cards)
    <2> HIDE DEF day, cards, f
    <2> QED
      BY <1>5, <1>6, FS_Injection
  <1>8. Cardinality(cards) <= pushes[j].budget
    BY DEF CardsWithinBudget
  <1>9. Cardinality(day) \in Nat
    BY <1>7, FS_CardinalityType
  <1> HIDE DEF day, cards
  <1>10. Cardinality(day) <= pushes[j].budget
    BY <1>1, <1>6, <1>7, <1>8, <1>9
  <1> QED
    BY <1>10 DEF day

------------------------------------------------------------------------------
(* The theorems.                                                              *)

\* Everything a poll, a sweep, the clock or a crash does keeps the invariant.
LEMMA NextIInv == IInv /\ [Next]_vars => IInv'
  <1> SUFFICES ASSUME IInv, [Next]_vars PROVE IInv'
    OBVIOUS
  <1>1. TypeOK' /\ LocksHeld' /\ GuardsStand' /\ ChoiceStands'
        /\ CandidateStaysOfferable' /\ StampsWereDelivered'
    BY TypesStay, LocksStay, GuardsStay, ChoiceStays, DeliveriesStay DEF IInv
  <1> QED
    BY <1>1, HistoryStays DEF IInv

\* The invariant that the theorems of this module rest on.
THEOREM InductiveInvariant == Spec => []IInv
  BY InitIInv, NextIInv, PTL DEF Spec

\* The times, the settings row and what every call holds keep their types.
THEOREM TypeCorrect == Spec => []TypeOK
  <1>1. IInv => TypeOK
    BY DEF IInv
  <1> QED
    BY <1>1, InductiveInvariant, PTL

\* One push per window, one offer of a card per local day, and a limit on the
\* day's cards - on its pushes, while the time zone stands - for any polls at once.
THEOREM PushesLimited == Spec => []PushesAreLimited
  <1>1. IInv => PushesAreLimited
    BY CapFollows DEF IInv, PushesAreLimited
  <1> QED
    BY <1>1, InductiveInvariant, PTL

\* Nobody starts, learns or archives the candidate behind the notification.
THEOREM CandidateOfferable == Spec => []CandidateStaysOfferable
  <1>1. IInv => CandidateStaysOfferable
    BY DEF IInv
  <1> QED
    BY <1>1, InductiveInvariant, PTL

\* A push is counted as missed once, if it was delivered and nobody reacted.
THEOREM MissDeserved == Spec => MissIsDeserved
  <1> DEFINE A == \A c \in Cards : missed'[c] # missed[c] =>
                    /\ <<c, pushed[c]>> \in delivered
                    /\ ~Engaged(c)
                    /\ counted[c] < pushed[c] /\ resolved[c] < pushed[c]
  <1>1. ASSUME IInv, [Next]_vars PROVE [A]_vars
    <2>0. missed \in [Cards -> Nat]
      BY <1>1 DEF IInv, TypeOK
    <2>1. ASSUME NEW s \in Sweeps, NEW d \in Cards, SweepCard(s, d) PROVE A
      <3> SUFFICES ASSUME NEW c \in Cards, missed'[c] # missed[c]
                   PROVE  /\ <<c, pushed[c]>> \in delivered
                          /\ ~Engaged(c)
                          /\ counted[c] < pushed[c] /\ resolved[c] < pushed[c]
        OBVIOUS
      <3>1. c = d /\ StillUnresolved(s, d) /\ ~Engaged(d)
        BY <2>0, <2>1 DEF SweepCard
      <3>2. pushed[c] # Never
        BY <3>1 DEF StillUnresolved, Unresolved
      <3> QED
        BY <1>1, <3>1, <3>2 DEF IInv, StampsWereDelivered, StillUnresolved, Unresolved
    <2>2. CASE missed' = missed
      BY <2>2
    <2>3. missed' = missed \/ \E s \in Sweeps, d \in Cards : SweepCard(s, d)
      BY <1>1 DEF Next, PollCall, PollStep, PollGuards, PollSelect, PollCandidate,
         PollCheckLive, SendPush, PollStamp, SweepStep, SweepDiscover, Environment,
         StartSession, EndSession, OpenLearning, ChangeLifecycle, WriteSettings,
         UpsertDeviceToken, Tick, Crash, cardVars, vars
    <2> QED
      BY <2>1, <2>2, <2>3
  <1> QED
    BY <1>1, InductiveInvariant, PTL DEF Spec, MissIsDeserved
=============================================================================
