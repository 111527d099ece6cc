--------------------------- MODULE StudyPlanProofs ---------------------------
(***************************************************************************)
(* Proofs about StudyPlan: an account has one active plan at most and no   *)
(* more plans than its quota, and the ledger of a plan tells what happened *)
(* to it.                                                                  *)
(*                                                                         *)
(* Most actions change one plan, whose row they hold; WritesOnce says what *)
(* such an action may do to it, and the invariant is carried over it once. *)
(* A switch, a duplication and an upgrade of the curriculum are apart.     *)
(*                                                                         *)
(* And about PlanDraft, which a plan comes from: its rows are the abstract *)
(* lease, step by step.                                                    *)
(***************************************************************************)
EXTENDS StudyPlan, PlanDraft, SequenceTheorems, FiniteSetTheorems, TLAPS

Ids == DOMAIN Guide.items

PlanFields == {"status", "rev", "default", "weeks", "items", "ledger"}

ItemFields == {"phase", "week", "order", "est", "core", "source", "hard",
               "status", "content", "seen"}

ItemStatuses == {"pending", "complete", "deferred", "removed"}

\* Rows that claim no revision, and those that do.
QuietKinds == {"created", "paused", "completed", "archived"}

ClaimKinds == {"replan", "capacity", "reopen", "edit", "resume", "activate", "curriculum"}

LedgerRow ==
    [kind : QuietKinds \cup ClaimKinds, base : Nat, version : 0..Len(Releases),
     fresh : SUBSET Ids, skipped : SUBSET Ids, resolved : SUBSET Ids]

(***************************************************************************)
(* The inductive invariant of a plan that exists                           *)
(***************************************************************************)
Earned(i, item) == \A v \in item.seen + 1 .. item.content : i \notin Releases[v].fresh

ItemIsSound(i, item) ==
    /\ DOMAIN item = ItemFields
    /\ item.week \in DOMAIN Guide.weeks
    /\ item.status \in ItemStatuses
    /\ item.content \in 0..Len(Releases)
    /\ item.status = "complete" => item.seen \in Nat /\ Earned(i, item)

ItemsAreSound(items) ==
    /\ DOMAIN items \subseteq Ids
    /\ \A i \in DOMAIN items : ItemIsSound(i, items[i])

ClaimsOf(ledger) == {n \in DOMAIN ledger : ledger[n].kind \notin QuietKinds}

Gapless(plan) ==
    /\ {plan.ledger[n].base : n \in ClaimsOf(plan.ledger)} = 1 .. plan.rev - 1
    /\ \A m, n \in ClaimsOf(plan.ledger) :
           m < n => plan.ledger[m].base < plan.ledger[n].base

LedgerIsSound(p, plan) ==
    /\ plan.ledger \in Seq(LedgerRow)
    /\ Len(plan.ledger) <= MaxLedger[p]
    /\ plan.rev \in 1 .. Len(plan.ledger) + 1
    /\ Gapless(plan)

PlanIsSound(p, plan) ==
    /\ DOMAIN plan = PlanFields
    /\ plan.status \in Statuses
    /\ DOMAIN plan.weeks = DOMAIN Guide.weeks
    /\ ItemsAreSound(plan.items)
    /\ LedgerIsSound(p, plan)

(***************************************************************************)
(* The plan of the curriculum                                              *)
(***************************************************************************)
Versions(ledger) == {ledger[n].version : n \in DOMAIN ledger}

VersionOf(ledger) == Max(Versions(ledger))

Owed(items, version) ==
    {i \in DOMAIN items :
        \E v \in items[i].content + 1 .. version : i \in Releases[v].fresh}

\* Its rows are those of the releases up to the one it shows.
ReleasesAreRecorded(ledger) ==
    /\ VersionOf(ledger) \in Versions(ledger)
    /\ \A n \in DOMAIN ledger : ledger[n].version <= VersionOf(ledger)
    /\ VersionOf(ledger) \in 1..Len(Releases)
    /\ \A v \in 1..VersionOf(ledger) :
           \E n \in DOMAIN ledger : ledger[n].fresh = Releases[v].fresh

SeedIsSound(plan) ==
    /\ ReleasesAreRecorded(plan.ledger)
    /\ \A i \in DOMAIN plan.items : plan.items[i].content \in 1..VersionOf(plan.ledger)
    /\ Debt(plan.ledger) = Owed(plan.items, VersionOf(plan.ledger))

(***************************************************************************)
(* What the plans P are, and what a client, a switch and an upgrade know   *)
(* of them                                                                 *)
(***************************************************************************)
ExistingIn(P) == {p \in Plans : P[p].status # "none"}

ActiveIn(P) == {p \in Plans : P[p].status = "active"}

PlansAreSound(P) ==
    /\ DOMAIN P = Plans
    /\ \A p \in Plans \ ExistingIn(P) : P[p] = NoPlan
    /\ \A p \in ExistingIn(P) : PlanIsSound(p, P[p])
    /\ SeedPlan \in ExistingIn(P) /\ SeedIsSound(P[SeedPlan])
    /\ \A p, q \in ActiveIn(P) : p = q
    /\ Cardinality(ExistingIn(P)) <= MaxPlans

ViewIsSound(P, v) ==
    /\ v.plan \in ExistingIn(P)
    /\ v.rev \in Nat /\ v.rev <= P[v.plan].rev
    /\ v.kind = "preview" => v.in \in Inputs
    /\ v.kind = "item" =>
           /\ v.item \in DOMAIN P[v.plan].items
           /\ v.content \in Nat
           /\ v.rev = P[v.plan].rev \/ v.plan # SeedPlan
                  => v.content = P[v.plan].items[v.item].content

ViewsAreSound(P, views) ==
    /\ DOMAIN views = Clients
    /\ \A c \in Clients : views[c] # None => ViewIsSound(P, views[c])

SwitchIsSound(P, s) ==
    /\ s.plan \in Plans
    /\ s.kind \in {"resume", "activate", "create"}
    /\ s.current = None \/ s.current \in ExistingIn(P)
    /\ s.kind = "create" =>
           /\ s.plan \notin ExistingIn(P) /\ s.plan # SeedPlan
           /\ Cardinality(ExistingIn(P)) < MaxPlans
    /\ s.kind # "create" =>
           s.plan \in ExistingIn(P) /\ Len(P[s.plan].ledger) < MaxLedger[s.plan]

\* Two switches are of different plans, and one of them creates a plan at most.
Apart(s, t) ==
    /\ s.kind = "create" => t.kind # "create"
    /\ s.plan # t.plan

SwitchesAreSound(P, switches) ==
    /\ DOMAIN switches = Requests
    /\ \A r \in Requests : switches[r] # None => SwitchIsSound(P, switches[r])
    /\ \A r1, r2 \in Requests :
           r1 # r2 /\ switches[r1] # None /\ switches[r2] # None
               => Apart(switches[r1], switches[r2])

UpgradeIsSound(P, u) ==
    u # None =>
        /\ u.version = VersionOf(P[SeedPlan].ledger) + 1
        /\ u.version <= Len(Releases)
        /\ u.debt = Debt(P[SeedPlan].ledger)

IInv ==
    /\ PlansAreSound(plans)
    /\ ViewsAreSound(plans, view)
    /\ SwitchesAreSound(plans, switch)
    /\ UpgradeIsSound(plans, upgrade)

-----------------------------------------------------------------------------
(***************************************************************************)
(* Ledgers                                                                 *)
(***************************************************************************)
LEMMA MaxIs ==
  ASSUME NEW S, NEW m \in S, S \subseteq Int, \A x \in S : x <= m
  PROVE  Max(S) = m
  <1>1. m \in S /\ \A y \in S : m >= y
    OBVIOUS
  <1>2. Max(S) \in S /\ \A y \in S : Max(S) >= y
    BY <1>1 DEF Max
  <1>3. m \in Int /\ Max(S) \in Int /\ m >= Max(S) /\ Max(S) >= m
    BY <1>1, <1>2
  <1> QED
    BY <1>3

\* A row that only records, or claims, marks and owes nothing.
LEMMA RowIsLedgerRow ==
  ASSUME NEW kind \in QuietKinds \cup ClaimKinds, NEW base \in Nat
  PROVE  /\ Row(kind, base) \in LedgerRow
         /\ Row(kind, base).kind = kind /\ Row(kind, base).base = base
         /\ Row(kind, base).version = 0
         /\ Row(kind, base).skipped = {} /\ Row(kind, base).resolved = {}
  <1>1. Len(Releases) \in Nat
    BY GuideAssumption
  <1> QED
    BY <1>1 DEF Row, LedgerRow

\* What a sequence is after one more row.
LEMMA OneMoreRow ==
  ASSUME NEW ledger \in Seq(LedgerRow), NEW row \in LedgerRow
  PROVE  /\ Append(ledger, row) \in Seq(LedgerRow)
         /\ Len(Append(ledger, row)) = Len(ledger) + 1
         /\ DOMAIN Append(ledger, row) = DOMAIN ledger \cup {Len(ledger) + 1}
         /\ DOMAIN ledger = 1..Len(ledger) /\ Len(ledger) \in Nat
         /\ \A n \in DOMAIN ledger : Append(ledger, row)[n] = ledger[n]
         /\ \A n \in DOMAIN ledger : ledger[n] \in LedgerRow
         /\ Append(ledger, row)[Len(ledger) + 1] = row
  OBVIOUS

\* One more row of debt: what it skips is owed, what it resolves is not.
LEMMA DebtAfterRow ==
  ASSUME NEW ledger \in Seq(LedgerRow), NEW row \in LedgerRow
  PROVE  Debt(Append(ledger, row)) = (Debt(ledger) \cup row.skipped) \ row.resolved
  <1> DEFINE L == Append(ledger, row)
             N == Len(ledger)
             Standing(seq, i, n) ==
                 i \in seq[n].skipped /\ \A m \in n..Len(seq) : i \notin seq[m].resolved
  <1>1. /\ Len(L) = N + 1 /\ DOMAIN L = DOMAIN ledger \cup {N + 1} /\ L[N + 1] = row
        /\ DOMAIN ledger = 1..N /\ N \in Nat
        /\ \A n \in DOMAIN ledger : L[n] = ledger[n]
    BY OneMoreRow
  <1>2. \A seq, i : i \in Debt(seq) <=> \E n \in DOMAIN seq : Standing(seq, i, n)
    BY DEF Debt
  <1> HIDE DEF L, N
  <1>3. ASSUME NEW i, NEW n \in 1..N
        PROVE  Standing(L, i, n) <=> Standing(ledger, i, n) /\ i \notin row.resolved
    <2>1. L[n] = ledger[n] /\ n..Len(L) = (n..N) \cup {N + 1} /\ Len(ledger) = N
      BY <1>1 DEF N
    <2>2. \A m \in n..N : L[m] = ledger[m]
      BY <1>1
    <2>3. (\A m \in n..Len(L) : i \notin L[m].resolved)
          <=> (\A m \in n..N : i \notin ledger[m].resolved) /\ i \notin row.resolved
      <3>1. (\A m \in n..Len(L) : i \notin L[m].resolved)
            <=> (\A m \in n..N : i \notin L[m].resolved) /\ i \notin L[N + 1].resolved
        BY <2>1, Zenon
      <3> QED
        BY <1>1, <2>2, <3>1
    <2> QED
      BY <2>1, <2>2, <2>3
  <1>4. ASSUME NEW i
        PROVE  Standing(L, i, N + 1) <=> i \in row.skipped \ row.resolved
    BY <1>1
  <1>5. ASSUME NEW i
        PROVE  i \in Debt(L) <=> i \in (Debt(ledger) \cup row.skipped) \ row.resolved
    <2>1. i \in Debt(L) <=> (\E n \in 1..N : Standing(L, i, n)) \/ Standing(L, i, N + 1)
      BY <1>1, <1>2
    <2> QED
      BY <2>1, <1>1, <1>2, <1>3, <1>4
  <1> QED
    BY <1>5 DEF L

\* A row of no release leaves the version where it is.
LEMMA VersionAfterRow ==
  ASSUME NEW ledger \in Seq(LedgerRow), NEW row \in LedgerRow,
         VersionOf(ledger) \in Versions(ledger),
         \A n \in DOMAIN ledger : ledger[n].version <= VersionOf(ledger)
  PROVE  /\ row.version <= VersionOf(ledger)
                => VersionOf(Append(ledger, row)) = VersionOf(ledger)
         /\ row.version >= VersionOf(ledger)
                => VersionOf(Append(ledger, row)) = row.version
         /\ Versions(Append(ledger, row)) = Versions(ledger) \cup {row.version}
  <1> DEFINE L == Append(ledger, row)
             V == VersionOf(ledger)
  <1>1. /\ DOMAIN L = DOMAIN ledger \cup {Len(ledger) + 1} /\ L[Len(ledger) + 1] = row
        /\ \A n \in DOMAIN ledger : L[n] = ledger[n] /\ ledger[n] \in LedgerRow
    BY OneMoreRow
  <1>2. Versions(L) = Versions(ledger) \cup {row.version}
    BY <1>1 DEF Versions
  <1>3. Versions(L) \subseteq Nat /\ row.version \in Nat /\ V \in Nat
    <2>1. Len(Releases) \in Nat
      BY GuideAssumption
    <2>2. row.version \in Nat /\ \A n \in DOMAIN ledger : ledger[n].version \in Nat
      BY <1>1, <2>1 DEF LedgerRow
    <2> QED
      BY <1>2, <2>2 DEF Versions
  <1>4. \A x \in Versions(ledger) : x <= V
    BY DEF Versions
  <1> HIDE DEF V, L
  <1>5. row.version <= V => Max(Versions(L)) = V
    <2> SUFFICES ASSUME row.version <= V PROVE Max(Versions(L)) = V
      OBVIOUS
    <2>1. V \in Versions(L) /\ (\A x \in Versions(L) : x <= V) /\ Versions(L) \subseteq Int
      BY <1>2, <1>3, <1>4 DEF V
    <2> QED
      BY <2>1, MaxIs, Zenon
  <1>6. row.version >= V => Max(Versions(L)) = row.version
    <2> SUFFICES ASSUME row.version >= V PROVE Max(Versions(L)) = row.version
      OBVIOUS
    <2>1. \A x \in Versions(ledger) : x \in Int /\ x <= row.version
      BY <1>2, <1>3, <1>4
    <2>2. /\ row.version \in Versions(L) /\ Versions(L) \subseteq Int
          /\ \A x \in Versions(L) : x <= row.version
      BY <1>2, <1>3, <2>1
    <2> QED
      BY <2>2, MaxIs, Zenon
  <1> QED
    BY <1>2, <1>5, <1>6 DEF VersionOf, V, L

\* A claim with the revision it was made on keeps the ledger gapless; a row that
\* claims nothing does too.
LEMMA LedgerAfterRow ==
  ASSUME NEW p \in Plans, NEW plan, LedgerIsSound(p, plan),
         NEW row \in LedgerRow, row.base = plan.rev,
         Len(plan.ledger) < MaxLedger[p],
         NEW new, new.ledger = Append(plan.ledger, row),
         new.rev = IF row.kind \in QuietKinds THEN plan.rev ELSE plan.rev + 1
  PROVE  LedgerIsSound(p, new)
  <1> DEFINE L == plan.ledger
             N == Len(L)
  <1>1. /\ new.ledger \in Seq(LedgerRow)
        /\ Len(new.ledger) = N + 1 /\ DOMAIN new.ledger = DOMAIN L \cup {N + 1}
        /\ new.ledger[N + 1] = row
        /\ DOMAIN L = 1..N /\ N \in Nat
        /\ \A n \in DOMAIN L : new.ledger[n] = L[n] /\ L[n] \in LedgerRow
    BY OneMoreRow DEF LedgerIsSound
  <1>2. MaxLedger[p] \in Nat /\ plan.rev \in 1..N + 1
    BY PlanAssumption DEF LedgerIsSound
  <1>3. new.rev \in 1 .. Len(new.ledger) + 1 /\ Len(new.ledger) <= MaxLedger[p]
    BY <1>1, <1>2
  <1>4. Gapless(new)
    <2>1. /\ {L[n].base : n \in ClaimsOf(L)} = 1 .. plan.rev - 1
          /\ \A m, n \in ClaimsOf(L) : m < n => L[m].base < L[n].base
      BY DEF LedgerIsSound, Gapless
    <2>2. CASE row.kind \in QuietKinds
      <3>1. ClaimsOf(new.ledger) = ClaimsOf(L)
        BY <1>1, <2>2 DEF ClaimsOf
      <3>2. \A n \in ClaimsOf(L) : new.ledger[n] = L[n]
        BY <1>1 DEF ClaimsOf
      <3>3. {new.ledger[n].base : n \in ClaimsOf(new.ledger)} = 1 .. new.rev - 1
        BY <2>1, <2>2, <3>1, <3>2
      <3> QED
        BY <2>1, <3>1, <3>2, <3>3 DEF Gapless
    <2>3. CASE row.kind \notin QuietKinds
      <3>1. ClaimsOf(new.ledger) = ClaimsOf(L) \cup {N + 1}
        BY <1>1, <2>3 DEF ClaimsOf
      <3>2. \A n \in ClaimsOf(L) : new.ledger[n] = L[n] /\ n \in 1..N /\ L[n].base \in Nat
        BY <1>1 DEF ClaimsOf, LedgerRow
      <3>3. {new.ledger[n].base : n \in ClaimsOf(new.ledger)}
                = {L[n].base : n \in ClaimsOf(L)} \cup {plan.rev}
        BY <1>1, <3>1, <3>2
      <3>4. 1 .. new.rev - 1 = 1 .. plan.rev - 1 \cup {plan.rev}
        BY <1>2, <2>3
      <3>5. ASSUME NEW n \in ClaimsOf(L)
            PROVE  L[n].base < plan.rev
        <4>1. L[n].base \in 1 .. plan.rev - 1
          BY <2>1
        <4> QED
          BY <4>1, <1>2
      <3>6. ASSUME NEW m \in ClaimsOf(new.ledger), NEW n \in ClaimsOf(new.ledger), m < n
            PROVE  new.ledger[m].base < new.ledger[n].base
        <4>1. CASE n = N + 1
          <5>1. m \in ClaimsOf(L)
            BY <3>1, <3>6, <4>1
          <5> QED
            BY <1>1, <3>2, <3>5, <4>1, <5>1
        <4>2. CASE n # N + 1
          <5>1. n \in ClaimsOf(L) /\ m \in ClaimsOf(L)
            BY <1>1, <3>1, <3>2, <3>6, <4>2
          <5> QED
            BY <2>1, <3>2, <3>6, <5>1
        <4> QED
          BY <4>1, <4>2
      <3>7. {new.ledger[n].base : n \in ClaimsOf(new.ledger)} = 1 .. new.rev - 1
        BY <2>1, <3>3, <3>4
      <3> QED
        BY <3>6, <3>7 DEF Gapless
    <2> QED
      BY <2>2, <2>3
  <1> QED
    BY <1>1, <1>3, <1>4 DEF LedgerIsSound

-----------------------------------------------------------------------------
(***************************************************************************)
(* An action that holds the row of one plan                                *)
(***************************************************************************)
\* What it may write: the contents stay, work is complete only when it is
\* earned, and the ledger has one more row at most.
Rewritten(items, after) ==
    /\ DOMAIN after = DOMAIN items
    /\ \A i \in DOMAIN items :
           ItemIsSound(i, after[i]) /\ after[i].content = items[i].content

WritesRow(p, plan, new) ==
    /\ DOMAIN new = PlanFields
    /\ new.status \in Statuses \ {"none"}
    /\ DOMAIN new.weeks = DOMAIN Guide.weeks
    /\ Rewritten(plan.items, new.items)
    /\ \/ new.ledger = plan.ledger /\ new.rev = plan.rev
       \/ /\ Len(plan.ledger) < MaxLedger[p]
          /\ \E kind \in QuietKinds \cup ClaimKinds :
                 /\ new.ledger = Append(plan.ledger, Row(kind, plan.rev))
                 /\ new.rev = IF kind \in QuietKinds THEN plan.rev ELSE plan.rev + 1

\* Only a switch makes a plan active.
WritesOnce(p, plan, new) ==
    /\ WritesRow(p, plan, new)
    /\ new.status = "active" => plan.status = "active"

\* It leaves a sound plan, and what the curriculum owes.
LEMMA OnceIsSound ==
  ASSUME NEW p \in Plans, NEW plan, NEW new, PlanIsSound(p, plan), WritesRow(p, plan, new)
  PROVE  /\ PlanIsSound(p, new)
         /\ new.rev = plan.rev \/ new.rev = plan.rev + 1
         /\ SeedIsSound(plan) => /\ SeedIsSound(new)
                                 /\ VersionOf(new.ledger) = VersionOf(plan.ledger)
                                 /\ Debt(new.ledger) = Debt(plan.ledger)
  <1>1. ItemsAreSound(new.items)
    BY DEF WritesRow, Rewritten, PlanIsSound, ItemsAreSound
  <1>2. plan.ledger \in Seq(LedgerRow) /\ plan.rev \in Nat /\ LedgerIsSound(p, plan)
    <2>1. LedgerIsSound(p, plan)
      BY DEF PlanIsSound
    <2> QED
      BY <2>1 DEF LedgerIsSound
  <1>3. \A version : Owed(new.items, version) = Owed(plan.items, version)
    BY DEF WritesRow, Rewritten, Owed
  <1>4. CASE new.ledger = plan.ledger /\ new.rev = plan.rev
    <2>1. LedgerIsSound(p, new)
      BY <1>2, <1>4 DEF LedgerIsSound, Gapless
    <2>2. SeedIsSound(plan) => SeedIsSound(new)
      BY <1>3, <1>4 DEF SeedIsSound, WritesRow, Rewritten
    <2> QED
      BY <1>1, <1>4, <2>1, <2>2 DEF PlanIsSound, WritesRow
  <1>5. ASSUME NEW kind \in QuietKinds \cup ClaimKinds,
               Len(plan.ledger) < MaxLedger[p],
               new.ledger = Append(plan.ledger, Row(kind, plan.rev)),
               new.rev = IF kind \in QuietKinds THEN plan.rev ELSE plan.rev + 1
        PROVE  /\ PlanIsSound(p, new)
               /\ new.rev = plan.rev \/ new.rev = plan.rev + 1
               /\ SeedIsSound(plan) => /\ SeedIsSound(new)
                                       /\ VersionOf(new.ledger) = VersionOf(plan.ledger)
                                       /\ Debt(new.ledger) = Debt(plan.ledger)
    <2> DEFINE row == Row(kind, plan.rev)
    <2>1. /\ row \in LedgerRow /\ row.kind = kind /\ row.base = plan.rev
          /\ row.version = 0 /\ row.skipped = {} /\ row.resolved = {}
      BY <1>2, RowIsLedgerRow
    <2> HIDE DEF row
    <2>2. LedgerIsSound(p, new)
      BY <1>2, <1>5, <2>1, LedgerAfterRow DEF row
    <2>3. PlanIsSound(p, new)
      BY <1>1, <2>2 DEF PlanIsSound, WritesRow
    <2>4. ASSUME SeedIsSound(plan)
          PROVE  /\ SeedIsSound(new)
                 /\ VersionOf(new.ledger) = VersionOf(plan.ledger)
                 /\ Debt(new.ledger) = Debt(plan.ledger)
      <3>1. Debt(new.ledger) = Debt(plan.ledger)
        <4>1. Debt(Append(plan.ledger, row)) = (Debt(plan.ledger) \cup row.skipped) \ row.resolved
          BY <1>2, <2>1, DebtAfterRow
        <4>2. new.ledger = Append(plan.ledger, row)
          BY <1>5 DEF row
        <4> QED
          BY <2>1, <4>1, <4>2
      <3>2. /\ VersionOf(plan.ledger) \in Versions(plan.ledger)
            /\ \A n \in DOMAIN plan.ledger : plan.ledger[n].version <= VersionOf(plan.ledger)
            /\ VersionOf(plan.ledger) \in 1..Len(Releases)
            /\ \A v \in 1..VersionOf(plan.ledger) :
                   \E n \in DOMAIN plan.ledger : plan.ledger[n].fresh = Releases[v].fresh
        BY <2>4 DEF SeedIsSound, ReleasesAreRecorded
      <3>3. /\ VersionOf(new.ledger) = VersionOf(plan.ledger)
            /\ Versions(new.ledger) = Versions(plan.ledger) \cup {0}
        <4>1. row.version <= VersionOf(plan.ledger)
          BY <2>1, <3>2, GuideAssumption
        <4>2. /\ VersionOf(Append(plan.ledger, row)) = VersionOf(plan.ledger)
              /\ Versions(Append(plan.ledger, row)) = Versions(plan.ledger) \cup {row.version}
          BY <1>2, <2>1, <3>2, <4>1, VersionAfterRow
        <4> QED
          BY <1>5, <2>1, <4>2 DEF row
      <3>4. /\ DOMAIN new.ledger = DOMAIN plan.ledger \cup {Len(plan.ledger) + 1}
            /\ \A n \in DOMAIN plan.ledger : new.ledger[n] = plan.ledger[n]
            /\ new.ledger[Len(plan.ledger) + 1] = row
        BY <1>2, <1>5, <2>1, OneMoreRow DEF row
      <3>5. ReleasesAreRecorded(new.ledger)
        BY <2>1, <3>2, <3>3, <3>4, GuideAssumption DEF ReleasesAreRecorded
      <3>6. SeedIsSound(new)
        BY <1>3, <2>4, <3>1, <3>3, <3>5 DEF SeedIsSound, WritesRow, Rewritten
      <3> QED
        BY <3>1, <3>3, <3>6
    <2> QED
      BY <1>2, <1>5, <2>3, <2>4
  <1> QED
    BY <1>4, <1>5 DEF WritesRow

\* No other plan is active beside one that is made active.
ActivatesAlone(P, p, new) == new.status = "active" => ActiveIn(P) \subseteq {p}

\* The plans are as sound as they were, and the same ones exist.
LEMMA PlansAfterOnce ==
  ASSUME NEW P, PlansAreSound(P), NEW p \in ExistingIn(P),
         NEW new, WritesRow(p, P[p], new), ActivatesAlone(P, p, new)
  PROVE  LET Q == [P EXCEPT ![p] = new]
         IN  /\ PlansAreSound(Q)
             /\ ExistingIn(Q) = ExistingIn(P)
             /\ \A q \in Plans : Q[q] = IF q = p THEN new ELSE P[q]
             /\ \A u : UpgradeIsSound(P, u) => UpgradeIsSound(Q, u)
  <1> DEFINE Q == [P EXCEPT ![p] = new]
  <1>1. /\ p \in Plans /\ DOMAIN P = Plans /\ DOMAIN Q = Plans
        /\ \A q \in Plans : Q[q] = IF q = p THEN new ELSE P[q]
    BY DEF PlansAreSound, ExistingIn
  <1> HIDE DEF Q
  <1>2. new.status \in Statuses \ {"none"}
    BY DEF WritesRow
  <1>3. ExistingIn(Q) = ExistingIn(P) /\ \A q1, q2 \in ActiveIn(Q) : q1 = q2
    <2>1. ExistingIn(Q) = ExistingIn(P)
      BY <1>1, <1>2 DEF ExistingIn
    <2>2. \A q1, q2 \in ActiveIn(P) : q1 = q2
      BY DEF PlansAreSound
    <2>3. CASE new.status = "active"
      <3>1. ActiveIn(P) \subseteq {p}
        BY <2>3 DEF ActivatesAlone
      <3>2. ActiveIn(Q) \subseteq ActiveIn(P) \cup {p}
        BY <1>1 DEF ActiveIn
      <3> QED
        BY <2>1, <3>1, <3>2
    <2>4. CASE new.status # "active"
      <3>1. ActiveIn(Q) \subseteq ActiveIn(P)
        BY <1>1, <2>4 DEF ActiveIn
      <3> QED
        BY <2>1, <2>2, <3>1
    <2> QED
      BY <2>1, <2>3, <2>4
  <1>4. /\ PlanIsSound(p, new)
        /\ SeedIsSound(P[p]) => /\ SeedIsSound(new)
                                /\ VersionOf(new.ledger) = VersionOf(P[p].ledger)
                                /\ Debt(new.ledger) = Debt(P[p].ledger)
    <2>1. PlanIsSound(p, P[p])
      BY DEF PlansAreSound
    <2> QED
      BY <1>1, <2>1, OnceIsSound
  <1>5. /\ SeedIsSound(Q[SeedPlan])
        /\ VersionOf(Q[SeedPlan].ledger) = VersionOf(P[SeedPlan].ledger)
        /\ Debt(Q[SeedPlan].ledger) = Debt(P[SeedPlan].ledger)
    <2>1. SeedIsSound(P[SeedPlan]) /\ SeedPlan \in Plans
      BY PlanAssumption DEF PlansAreSound
    <2>2. CASE SeedPlan = p
      BY <1>1, <1>4, <2>1, <2>2
    <2>3. CASE SeedPlan # p
      BY <1>1, <2>1, <2>3
    <2> QED
      BY <2>2, <2>3
  <1>6. \A q \in ExistingIn(Q) : PlanIsSound(q, Q[q])
    <2>1. \A q \in ExistingIn(P) : q \in Plans /\ PlanIsSound(q, P[q])
      BY DEF PlansAreSound, ExistingIn
    <2> QED
      BY <1>1, <1>3, <1>4, <2>1
  <1>7. \A q \in Plans \ ExistingIn(Q) : Q[q] = NoPlan
    BY <1>1, <1>3 DEF PlansAreSound
  <1>8. PlansAreSound(Q)
    BY <1>1, <1>3, <1>5, <1>6, <1>7 DEF PlansAreSound
  <1>9. \A u : UpgradeIsSound(P, u) => UpgradeIsSound(Q, u)
    BY <1>5 DEF UpgradeIsSound
  <1> QED
    BY <1>1, <1>3, <1>8, <1>9 DEF Q

\* A view goes on to show what is there, or an older revision.
LEMMA ViewAfterOnce ==
  ASSUME NEW P, PlansAreSound(P), NEW p \in ExistingIn(P),
         NEW new, WritesRow(p, P[p], new), NEW v, ViewIsSound(P, v)
  PROVE  ViewIsSound([P EXCEPT ![p] = new], v)
  <1> DEFINE Q == [P EXCEPT ![p] = new]
  <1>1. ExistingIn(Q) = ExistingIn(P) /\ \A q \in Plans : Q[q] = IF q = p THEN new ELSE P[q]
    BY DEF PlansAreSound, ExistingIn, WritesRow
  <1> HIDE DEF Q
  <1>2. p \in Plans /\ v.plan \in ExistingIn(P) /\ v.plan \in Plans /\ PlanIsSound(p, P[p])
    BY DEF ExistingIn, ViewIsSound, PlansAreSound
  <1>3. new.rev = P[p].rev \/ new.rev = P[p].rev + 1
    BY <1>2, OnceIsSound
  <1>4. P[p].rev \in Nat
    <2>1. P[p].rev \in 1 .. Len(P[p].ledger) + 1 /\ P[p].ledger \in Seq(LedgerRow)
      BY <1>2 DEF PlanIsSound, LedgerIsSound
    <2> QED
      BY <2>1
  <1>5. CASE v.plan = p
    <2>1. Q[v.plan] = new
      BY <1>1, <1>2, <1>5
    <2>2. /\ DOMAIN new.items = DOMAIN P[p].items
          /\ \A i \in DOMAIN new.items : new.items[i].content = P[p].items[i].content
      BY DEF WritesRow, Rewritten
    <2>3. v.rev <= new.rev /\ (v.rev = new.rev => v.rev = P[p].rev)
      BY <1>3, <1>4, <1>5 DEF ViewIsSound
    <2>4. ViewIsSound(Q, v)
      BY <1>1, <1>5, <2>1, <2>2, <2>3 DEF ViewIsSound
    <2> QED
      BY <2>4 DEF Q
  <1>6. CASE v.plan # p
    <2>1. Q[v.plan] = P[v.plan]
      BY <1>1, <1>2, <1>6
    <2>2. ViewIsSound(Q, v)
      BY <1>1, <2>1 DEF ViewIsSound
    <2> QED
      BY <2>2 DEF Q
  <1> QED
    BY <1>5, <1>6

\* Nobody else holds the row of the plan.
FreeIn(switches, p) ==
    \A r \in Requests :
        switches[r] # None /\ switches[r].kind # "create" => switches[r].plan # p

LEMMA SwitchesAfterOnce ==
  ASSUME NEW P, PlansAreSound(P), NEW p \in ExistingIn(P),
         NEW new, WritesRow(p, P[p], new),
         NEW switches, SwitchesAreSound(P, switches), FreeIn(switches, p)
  PROVE  SwitchesAreSound([P EXCEPT ![p] = new], switches)
  <1> DEFINE Q == [P EXCEPT ![p] = new]
  <1>1. ExistingIn(Q) = ExistingIn(P) /\ \A q \in Plans : Q[q] = IF q = p THEN new ELSE P[q]
    BY DEF PlansAreSound, ExistingIn, WritesRow
  <1> HIDE DEF Q
  <1>2. ASSUME NEW r \in Requests, switches[r] # None
        PROVE  SwitchIsSound(Q, switches[r])
    <2> DEFINE s == switches[r]
    <2>1. SwitchIsSound(P, s) /\ (s.kind # "create" => s.plan # p)
      BY <1>2 DEF SwitchesAreSound, FreeIn
    <2> HIDE DEF s
    <2>2. s.kind # "create" => Q[s.plan] = P[s.plan]
      BY <1>1, <2>1 DEF SwitchIsSound
    <2>3. SwitchIsSound(Q, s)
      BY <1>1, <2>1, <2>2 DEF SwitchIsSound
    <2> QED
      BY <2>3 DEF s
  <1>3. SwitchesAreSound(Q, switches)
    BY <1>2 DEF SwitchesAreSound
  <1> QED
    BY <1>3 DEF Q

LEMMA RowFreeIsFreeIn ==
  ASSUME NEW p, RowFree(p)
  PROVE  FreeIn(switch, p)
  BY DEF RowFree, LockedBy, FreeIn

\* A client whose request is over looks at nothing.
LEMMA ViewsWithout ==
  ASSUME NEW P, NEW views, ViewsAreSound(P, views), NEW c \in Clients
  PROVE  ViewsAreSound(P, [views EXCEPT ![c] = None])
  BY DEF ViewsAreSound

LEMMA ViewsAfterOnce ==
  ASSUME NEW P, PlansAreSound(P), NEW p \in ExistingIn(P),
         NEW new, WritesRow(p, P[p], new), NEW views, ViewsAreSound(P, views)
  PROVE  ViewsAreSound([P EXCEPT ![p] = new], views)
  BY ViewAfterOnce DEF ViewsAreSound

\* An action that holds the row of a plan it rewrites keeps the invariant.
LEMMA OnceKeepsIInv ==
  ASSUME IInv, NEW p \in ExistingIn(plans), RowFree(p),
         NEW new, WritesOnce(p, plans[p], new), plans' = [plans EXCEPT ![p] = new],
         ViewsAreSound(plans, view'), UNCHANGED <<switch, upgrade>>
  PROVE  IInv'
  <1>1. PlansAreSound(plans) /\ SwitchesAreSound(plans, switch) /\ UpgradeIsSound(plans, upgrade)
    BY DEF IInv
  <1>2. WritesRow(p, plans[p], new)
    BY DEF WritesOnce
  <1>3. ActivatesAlone(plans, p, new)
    BY <1>1 DEF WritesOnce, ActivatesAlone, PlansAreSound, ActiveIn, ExistingIn
  <1>4. PlansAreSound(plans') /\ UpgradeIsSound(plans', upgrade')
    BY <1>1, <1>2, <1>3, PlansAfterOnce
  <1>5. SwitchesAreSound(plans', switch')
    BY <1>1, <1>2, SwitchesAfterOnce, RowFreeIsFreeIn
  <1>6. ViewsAreSound(plans', view')
    BY <1>1, <1>2, ViewsAfterOnce
  <1> QED
    BY <1>4, <1>5, <1>6 DEF IInv

-----------------------------------------------------------------------------
(***************************************************************************)
(* The actions that hold one row                                           *)
(***************************************************************************)
\* What there is to know of a plan that exists.
LEMMA ExistingPlan ==
  ASSUME IInv, NEW p \in Plans, Exists(p)
  PROVE  /\ p \in ExistingIn(plans) /\ PlanIsSound(p, plans[p])
         /\ DOMAIN plans = Plans
         /\ DOMAIN plans[p] = PlanFields
         /\ plans[p].status \in Statuses \ {"none"}
         /\ DOMAIN plans[p].weeks = DOMAIN Guide.weeks
         /\ ItemsAreSound(plans[p].items)
         /\ plans[p].rev \in Nat
  <1>1. p \in ExistingIn(plans) /\ PlanIsSound(p, plans[p]) /\ DOMAIN plans = Plans
    BY DEF Exists, ExistingIn, IInv, PlansAreSound
  <1>2. plans[p].rev \in Nat
    <2>1. plans[p].rev \in 1 .. Len(plans[p].ledger) + 1 /\ plans[p].ledger \in Seq(LedgerRow)
      BY <1>1 DEF PlanIsSound, LedgerIsSound
    <2> QED
      BY <2>1
  <1> QED
    BY <1>1, <1>2 DEF PlanIsSound, Exists

\* A plan whose status and items change, with one more row.
LEMMA ClaimWritesOnce ==
  ASSUME IInv, NEW p \in Plans, Locks(p), NEW kind \in ClaimKinds,
         NEW plan, DOMAIN plan = PlanFields, plan.status = plans[p].status,
         plan.rev = plans[p].rev, plan.ledger = plans[p].ledger,
         DOMAIN plan.weeks = DOMAIN Guide.weeks, Rewritten(plans[p].items, plan.items)
  PROVE  WritesOnce(p, plans[p], Claimed(plan, Row(kind, plans[p].rev)))
  <1> DEFINE new == Claimed(plan, Row(kind, plans[p].rev))
  <1>1. Exists(p) /\ Len(plans[p].ledger) < MaxLedger[p]
    BY DEF Locks, CanRecord
  <1>2. /\ DOMAIN new = PlanFields
        /\ new.status = plan.status /\ new.weeks = plan.weeks /\ new.items = plan.items
        /\ new.rev = plan.rev + 1
        /\ new.ledger = Append(plan.ledger, Row(kind, plans[p].rev))
    BY DEF Claimed, PlanFields
  <1>3. kind \notin QuietKinds
    BY DEF ClaimKinds, QuietKinds
  <1>4. plans[p].status \in Statuses \ {"none"}
    BY <1>1, ExistingPlan
  <1> HIDE DEF new
  <1> QED
    BY <1>1, <1>2, <1>3, <1>4 DEF WritesOnce, WritesRow, new

\* Placements, capacities and estimates leave the items what they were.
LEMMA ProposalRewrites ==
  ASSUME NEW plan, DOMAIN plan = PlanFields, NEW items, ItemsAreSound(items),
         DOMAIN plan.weeks = DOMAIN Guide.weeks,
         Rewritten(items, plan.items), NEW in, NEW proposal
  PROVE  LET new == WithProposal(plan, in, proposal)
         IN  /\ DOMAIN new = PlanFields
             /\ new.status = plan.status /\ new.rev = plan.rev /\ new.ledger = plan.ledger
             /\ DOMAIN new.weeks = DOMAIN Guide.weeks
             /\ Rewritten(items, new.items)
  <1> DEFINE new == WithProposal(plan, in, proposal)
             weeks == plan.weeks
             Moved(i) == i \in DOMAIN proposal.placed /\ proposal.placed[i] \in DOMAIN weeks
             ItemAfter(i) ==
                 IF Moved(i) /\ plan.items[i].week # proposal.placed[i]
                 THEN [plan.items[i] EXCEPT !.week = proposal.placed[i],
                                            !.phase = weeks[proposal.placed[i]].phase]
                 ELSE plan.items[i]
  <1>1. /\ DOMAIN new = PlanFields
        /\ new.status = plan.status /\ new.rev = plan.rev /\ new.ledger = plan.ledger
        /\ DOMAIN new.weeks = DOMAIN plan.weeks
        /\ new.items = [i \in DOMAIN plan.items |-> ItemAfter(i)]
    BY DEF WithProposal, PlanFields
  <1> HIDE DEF new
  <1>2. ASSUME NEW i \in DOMAIN items
        PROVE  ItemIsSound(i, ItemAfter(i)) /\ ItemAfter(i).content = items[i].content
    <2> DEFINE item == plan.items[i]
    <2>1. ItemIsSound(i, item) /\ item.content = items[i].content
      BY DEF Rewritten
    <2>2. CASE Moved(i) /\ item.week # proposal.placed[i]
      <3> DEFINE after == [item EXCEPT !.week = proposal.placed[i],
                                       !.phase = weeks[proposal.placed[i]].phase]
      <3>1. DOMAIN item = ItemFields
        BY <2>1 DEF ItemIsSound
      <3>2. /\ DOMAIN after = ItemFields /\ after.week = proposal.placed[i]
            /\ after.status = item.status /\ after.content = item.content
            /\ after.seen = item.seen
        BY <3>1 DEF ItemFields
      <3>3. proposal.placed[i] \in DOMAIN Guide.weeks
        BY <2>2
      <3> HIDE DEF after, item
      <3>4. ItemIsSound(i, after) /\ after.content = items[i].content
        BY <2>1, <3>2, <3>3 DEF ItemIsSound, Earned
      <3> QED
        BY <2>2, <3>4 DEF after, item
    <2> QED
      BY <2>1, <2>2
  <1> HIDE DEF ItemAfter
  <1>3. Rewritten(items, new.items)
    BY <1>1, <1>2 DEF Rewritten
  <1> QED
    BY <1>1, <1>3 DEF new

\* The items of a plan are rewritten by nothing.
LEMMA SameIsRewritten ==
  ASSUME NEW items, ItemsAreSound(items)
  PROVE  Rewritten(items, items)
  BY DEF ItemsAreSound, Rewritten

LEMMA DeferredRewrites ==
  ASSUME NEW plan, DOMAIN plan = PlanFields, ItemsAreSound(plan.items), NEW S
  PROVE  LET new == Deferred(plan, S)
         IN  /\ DOMAIN new = PlanFields
             /\ new.status = plan.status /\ new.rev = plan.rev /\ new.ledger = plan.ledger
             /\ new.weeks = plan.weeks
             /\ Rewritten(plan.items, new.items)
  <1> DEFINE new == Deferred(plan, S)
             ItemAfter(i) == IF i \in S THEN [plan.items[i] EXCEPT !.status = "deferred"]
                             ELSE plan.items[i]
  <1>1. /\ DOMAIN new = PlanFields
        /\ new.status = plan.status /\ new.rev = plan.rev /\ new.ledger = plan.ledger
        /\ new.weeks = plan.weeks
        /\ new.items = [i \in DOMAIN plan.items |-> ItemAfter(i)]
    BY DEF Deferred, PlanFields
  <1> HIDE DEF new
  <1>2. ASSUME NEW i \in DOMAIN plan.items
        PROVE  ItemIsSound(i, ItemAfter(i)) /\ ItemAfter(i).content = plan.items[i].content
    <2>1. ItemIsSound(i, plan.items[i])
      BY DEF ItemsAreSound
    <2>2. CASE i \in S
      <3>1. /\ DOMAIN ItemAfter(i) = ItemFields /\ ItemAfter(i).status = "deferred"
            /\ ItemAfter(i).week = plan.items[i].week
            /\ ItemAfter(i).content = plan.items[i].content
        BY <2>1, <2>2 DEF ItemIsSound, ItemFields
      <3> HIDE DEF ItemAfter
      <3> QED
        BY <2>1, <3>1 DEF ItemIsSound, ItemStatuses
    <2> QED
      BY <2>1, <2>2
  <1> HIDE DEF ItemAfter
  <1>3. Rewritten(plan.items, new.items)
    BY <1>1, <1>2 DEF Rewritten
  <1> QED
    BY <1>1, <1>3 DEF new

LEMMA ApplyReplanKeeps ==
  ASSUME IInv, NEW c \in Clients, ApplyReplan(c)
  PROVE  IInv'
  <1> DEFINE p == view[c].plan
             in == view[c].in
             proposal == ProposalFor(p, in)
             deferred == Deferred(plans[p], in.deferred)
             plan == WithProposal(deferred, in, proposal)
             new == Claimed(plan, Row("replan", plans[p].rev))
  <1>1. /\ view[c] # None /\ Locks(p)
        /\ plans' = [plans EXCEPT ![p] = new]
        /\ view' = [view EXCEPT ![c] = None] /\ UNCHANGED <<switch, upgrade>>
    BY DEF ApplyReplan, Shows
  <1>2. p \in Plans /\ Exists(p) /\ RowFree(p) /\ ViewsAreSound(plans, view)
    <2>1. ViewsAreSound(plans, view) /\ ViewIsSound(plans, view[c])
      BY <1>1 DEF IInv, ViewsAreSound
    <2> QED
      BY <1>1, <2>1 DEF ViewIsSound, ExistingIn, Locks
  <1> HIDE DEF p, in, proposal
  <1>3. /\ p \in ExistingIn(plans) /\ DOMAIN plans[p] = PlanFields
        /\ ItemsAreSound(plans[p].items) /\ DOMAIN plans[p].weeks = DOMAIN Guide.weeks
    BY <1>2, ExistingPlan
  <1>4. /\ DOMAIN deferred = PlanFields
        /\ deferred.status = plans[p].status /\ deferred.rev = plans[p].rev
        /\ deferred.ledger = plans[p].ledger /\ deferred.weeks = plans[p].weeks
        /\ Rewritten(plans[p].items, deferred.items)
    BY <1>3, DeferredRewrites
  <1> HIDE DEF deferred
  <1>5. /\ DOMAIN plan = PlanFields
        /\ plan.status = plans[p].status /\ plan.rev = plans[p].rev
        /\ plan.ledger = plans[p].ledger /\ DOMAIN plan.weeks = DOMAIN Guide.weeks
        /\ Rewritten(plans[p].items, plan.items)
    BY <1>3, <1>4, ProposalRewrites
  <1> HIDE DEF plan
  <1>6. WritesOnce(p, plans[p], new)
    <2>1. "replan" \in ClaimKinds
      BY DEF ClaimKinds
    <2> QED
      BY <1>1, <1>2, <1>5, <2>1, ClaimWritesOnce
  <1>7. ViewsAreSound(plans, view')
    BY <1>1, <1>2, ViewsWithout
  <1> HIDE DEF new
  <1> QED
    BY <1>1, <1>2, <1>3, <1>6, <1>7, OnceKeepsIInv

LEMMA SetCapacityKeeps ==
  ASSUME IInv, NEW p \in Plans, NEW w, NEW minutes, SetCapacity(p, w, minutes)
  PROVE  IInv'
  <1> DEFINE in == [Plain EXCEPT !.over = (w :> minutes)]
             proposal == ProposalFor(p, in)
             plan == WithProposal(plans[p], in, proposal)
             new == Claimed(plan, Row("capacity", plans[p].rev))
  <1>1. /\ Locks(p)
        /\ plans' = [plans EXCEPT ![p] = new] /\ UNCHANGED <<view, switch, upgrade>>
    BY DEF SetCapacity
  <1> HIDE DEF in, proposal
  <1>2. Exists(p) /\ RowFree(p) /\ ViewsAreSound(plans, view)
    BY <1>1 DEF Locks, IInv
  <1>3. /\ p \in ExistingIn(plans) /\ DOMAIN plans[p] = PlanFields
        /\ ItemsAreSound(plans[p].items) /\ DOMAIN plans[p].weeks = DOMAIN Guide.weeks
    BY <1>2, ExistingPlan
  <1>4. /\ DOMAIN plan = PlanFields
        /\ plan.status = plans[p].status /\ plan.rev = plans[p].rev
        /\ plan.ledger = plans[p].ledger /\ DOMAIN plan.weeks = DOMAIN Guide.weeks
        /\ Rewritten(plans[p].items, plan.items)
    BY <1>3, SameIsRewritten, ProposalRewrites
  <1> HIDE DEF plan
  <1>5. WritesOnce(p, plans[p], new)
    <2>1. "capacity" \in ClaimKinds
      BY DEF ClaimKinds
    <2> QED
      BY <1>1, <1>4, <2>1, ClaimWritesOnce
  <1> HIDE DEF new
  <1> QED
    BY <1>1, <1>2, <1>3, <1>5, OnceKeepsIInv

\* Work is complete only after the client had open what the last release asks
\* for: the revision it sends is current, or no release marked the item.
LEMMA CompleteItemKeeps ==
  ASSUME IInv, NEW c \in Clients, NEW sends \in BOOLEAN, CompleteItem(c, sends)
  PROVE  IInv'
  <1> DEFINE v == view[c]
             p == v.plan
             i == v.item
             item == plans[p].items[i]
             after == [item EXCEPT !.status = "complete", !.seen = v.content]
             new == [plans[p] EXCEPT !.items = [@ EXCEPT ![i] = after]]
  <1>1. /\ v # None /\ v.kind = "item" /\ RowFree(p) /\ Available(p, i) /\ MayComplete(c, sends)
        /\ view' = [view EXCEPT ![c] = None] /\ UNCHANGED <<switch, upgrade>>
    BY DEF CompleteItem, Shows
  <1>2. ViewsAreSound(plans, view) /\ ViewIsSound(plans, v)
    BY <1>1 DEF IInv, ViewsAreSound
  <1>3. /\ p \in Plans /\ Exists(p) /\ v.content \in Nat
        /\ i \in DOMAIN plans[p].items
        /\ v.rev = plans[p].rev \/ p # SeedPlan => v.content = item.content
    BY <1>1, <1>2 DEF ViewIsSound, ExistingIn, Exists
  <1>4. /\ p \in ExistingIn(plans) /\ DOMAIN plans[p] = PlanFields /\ DOMAIN plans = Plans
        /\ ItemsAreSound(plans[p].items) /\ DOMAIN plans[p].weeks = DOMAIN Guide.weeks
        /\ plans[p].status \in Statuses \ {"none"}
    BY <1>3, ExistingPlan
  <1>5. plans' = [plans EXCEPT ![p] = new]
    <2>1. plans' = [plans EXCEPT ![p].items[i].status = "complete",
                                 ![p].items[i].seen = v.content]
      BY DEF CompleteItem
    <2> QED
      BY <1>3, <1>4, <2>1 DEF PlanFields
  <1>6. ItemIsSound(i, item)
    BY <1>3, <1>4 DEF ItemsAreSound
  <1>7. Earned(i, after) /\ after.content = item.content
    <2>1. /\ DOMAIN after = ItemFields /\ after.seen = v.content /\ after.content = item.content
      BY <1>6 DEF ItemIsSound, ItemFields
    <2>2. CASE v.content = item.content
      <3>1. v.content + 1 .. item.content = {}
        <4>1. v.content \in Nat /\ item.content = v.content
          BY <1>3, <2>2
        <4> HIDE DEF item, v
        <4> QED
          BY <4>1
      <3> QED
        BY <2>1, <3>1 DEF Earned
    <2>3. CASE v.content # item.content
      <3>1. p = SeedPlan /\ i \notin FreshKeys(p)
        <4>1. v.rev # plans[p].rev /\ p = SeedPlan
          BY <1>3, <2>3
        <4> QED
          BY <1>1, <4>1 DEF MayComplete, Current
      <3>2. SeedIsSound(plans[SeedPlan])
        BY DEF IInv, PlansAreSound
      <3>3. item.content \in 1..VersionOf(plans[p].ledger) /\ VersionOf(plans[p].ledger) \in Int
        <4>1. VersionOf(plans[p].ledger) \in 1..Len(Releases)
          BY <3>1, <3>2 DEF SeedIsSound, ReleasesAreRecorded
        <4> QED
          BY <1>3, <3>1, <3>2, <4>1 DEF SeedIsSound
      <3>4. ASSUME NEW n \in v.content + 1 .. item.content
            PROVE  i \notin Releases[n].fresh
        <4>1. n \in 1..VersionOf(plans[p].ledger)
          BY <1>3, <3>3
        <4>2. PICK k \in DOMAIN plans[p].ledger : plans[p].ledger[k].fresh = Releases[n].fresh
          BY <3>1, <3>2, <4>1 DEF SeedIsSound, ReleasesAreRecorded
        <4> QED
          BY <3>1, <4>2 DEF FreshKeys
      <3> QED
        BY <2>1, <3>4 DEF Earned
    <2> QED
      BY <2>2, <2>3
  <1>8. Rewritten(plans[p].items, new.items)
    <2>1. new.items = [plans[p].items EXCEPT ![i] = after]
      BY <1>4 DEF PlanFields
    <2>2. ItemIsSound(i, after)
      <3>1. /\ DOMAIN after = ItemFields /\ after.seen = v.content
            /\ after.status = "complete" /\ after.week = item.week
        BY <1>6 DEF ItemIsSound, ItemFields
      <3> HIDE DEF after
      <3> QED
        BY <1>3, <1>6, <1>7, <3>1 DEF ItemIsSound, ItemStatuses
    <2> HIDE DEF after, new
    <2> QED
      BY <1>3, <1>4, <1>7, <2>1, <2>2 DEF Rewritten, ItemsAreSound
  <1>9. WritesOnce(p, plans[p], new)
    <2>1. /\ DOMAIN new = PlanFields /\ new.status = plans[p].status
          /\ new.weeks = plans[p].weeks /\ new.ledger = plans[p].ledger
          /\ new.rev = plans[p].rev
      BY <1>4 DEF PlanFields
    <2> HIDE DEF new
    <2> QED
      BY <1>4, <1>8, <2>1 DEF WritesOnce, WritesRow
  <1>10. ViewsAreSound(plans, view')
    BY <1>1, <1>2, ViewsWithout
  <1> HIDE DEF new
  <1> QED
    BY <1>1, <1>4, <1>5, <1>9, <1>10, OnceKeepsIInv

\* One item is written, and not completed.
LEMMA OneItemRewritten ==
  ASSUME NEW items, ItemsAreSound(items), NEW i \in DOMAIN items,
         NEW after, DOMAIN after = ItemFields, after.content = items[i].content,
         after.week = items[i].week, after.status \in ItemStatuses,
         after.status = "complete" =>
             items[i].status = "complete" /\ after.seen = items[i].seen
  PROVE  Rewritten(items, [items EXCEPT ![i] = after])
  <1>1. ItemIsSound(i, items[i])
    BY DEF ItemsAreSound
  <1>2. ItemIsSound(i, after)
    BY <1>1 DEF ItemIsSound, Earned
  <1> QED
    BY <1>2 DEF Rewritten, ItemsAreSound

LEMMA ReopenItemKeeps ==
  ASSUME IInv, NEW p \in Plans, NEW i \in DOMAIN plans[p].items, ReopenItem(p, i)
  PROVE  IInv'
  <1> DEFINE item == plans[p].items[i]
             after == [item EXCEPT !.status = "pending", !.seen = None]
             reopened == [plans[p].items EXCEPT ![i] = after]
             plan == [plans[p] EXCEPT !.items = reopened]
             new == Claimed(plan, Row("reopen", plans[p].rev))
  <1>1. Locks(p) /\ UNCHANGED <<view, switch, upgrade>>
    BY DEF ReopenItem
  <1>2. Exists(p) /\ RowFree(p) /\ ViewsAreSound(plans, view)
    BY <1>1 DEF Locks, IInv
  <1>3. /\ p \in ExistingIn(plans) /\ DOMAIN plans[p] = PlanFields
        /\ ItemsAreSound(plans[p].items) /\ DOMAIN plans[p].weeks = DOMAIN Guide.weeks
    BY <1>2, ExistingPlan
  <1>4. ItemIsSound(i, item)
    BY <1>3 DEF ItemsAreSound
  <1>5. reopened = [plans[p].items EXCEPT ![i].status = "pending", ![i].seen = None]
    BY <1>3
  <1>6. plans' = [plans EXCEPT ![p] = new]
    BY <1>5 DEF ReopenItem
  <1>7. Rewritten(plans[p].items, reopened)
    <2>1. /\ DOMAIN after = ItemFields /\ after.content = item.content
          /\ after.week = item.week /\ after.status = "pending"
      BY <1>4 DEF ItemIsSound, ItemFields
    <2>2. "pending" \in ItemStatuses
      BY DEF ItemStatuses
    <2> HIDE DEF after
    <2> QED
      BY <1>3, <2>1, <2>2, OneItemRewritten
  <1> HIDE DEF reopened
  <1>8. /\ DOMAIN plan = PlanFields /\ plan.status = plans[p].status
        /\ plan.rev = plans[p].rev /\ plan.ledger = plans[p].ledger
        /\ plan.weeks = plans[p].weeks /\ plan.items = reopened
    BY <1>3 DEF PlanFields
  <1> HIDE DEF plan
  <1>9. WritesOnce(p, plans[p], new)
    <2>1. "reopen" \in ClaimKinds
      BY DEF ClaimKinds
    <2> QED
      BY <1>1, <1>3, <1>7, <1>8, <2>1, ClaimWritesOnce
  <1> HIDE DEF new
  <1> QED
    BY <1>1, <1>2, <1>3, <1>6, <1>9, OnceKeepsIInv

LEMMA EditEstimateKeeps ==
  ASSUME IInv, NEW p \in Plans, NEW i \in DOMAIN plans[p].items, NEW minutes,
         EditEstimate(p, i, minutes)
  PROVE  IInv'
  <1> DEFINE item == plans[p].items[i]
             after == [item EXCEPT !.est = minutes]
             items == [plans[p].items EXCEPT ![i] = after]
             plan == [plans[p] EXCEPT !.items = items]
             new == Claimed(plan, Row("edit", plans[p].rev))
  <1>1. Locks(p) /\ UNCHANGED <<view, switch, upgrade>>
    BY DEF EditEstimate
  <1>2. Exists(p) /\ RowFree(p) /\ ViewsAreSound(plans, view)
    BY <1>1 DEF Locks, IInv
  <1>3. /\ p \in ExistingIn(plans) /\ DOMAIN plans[p] = PlanFields
        /\ ItemsAreSound(plans[p].items) /\ DOMAIN plans[p].weeks = DOMAIN Guide.weeks
    BY <1>2, ExistingPlan
  <1>4. ItemIsSound(i, item)
    BY <1>3 DEF ItemsAreSound
  <1>5. plan = [plans[p] EXCEPT !.items[i].est = minutes]
    BY <1>3
  <1>6. plans' = [plans EXCEPT ![p] = new]
    BY <1>5 DEF EditEstimate
  <1>7. Rewritten(plans[p].items, items)
    <2>1. /\ DOMAIN after = ItemFields /\ after.content = item.content
          /\ after.week = item.week /\ after.status = item.status /\ after.seen = item.seen
      BY <1>4 DEF ItemIsSound, ItemFields
    <2>2. item.status \in ItemStatuses
      BY <1>4 DEF ItemIsSound
    <2> HIDE DEF after
    <2> QED
      BY <1>3, <2>1, <2>2, OneItemRewritten
  <1> HIDE DEF items
  <1>8. /\ DOMAIN plan = PlanFields /\ plan.status = plans[p].status
        /\ plan.rev = plans[p].rev /\ plan.ledger = plans[p].ledger
        /\ plan.weeks = plans[p].weeks /\ plan.items = items
    BY <1>3 DEF PlanFields
  <1> HIDE DEF plan
  <1>9. WritesOnce(p, plans[p], new)
    <2>1. "edit" \in ClaimKinds
      BY DEF ClaimKinds
    <2> QED
      BY <1>1, <1>3, <1>7, <1>8, <2>1, ClaimWritesOnce
  <1> HIDE DEF new
  <1> QED
    BY <1>1, <1>2, <1>3, <1>6, <1>9, OnceKeepsIInv

LEMMA SetStatusKeeps ==
  ASSUME IInv, NEW p \in Plans, NEW status \in {"paused", "completed", "archived"},
         SetStatus(p, status)
  PROVE  IInv'
  <1> DEFINE plan == [plans[p] EXCEPT !.status = status]
             new == Recorded(plan, Row(status, plans[p].rev))
  <1>1. /\ Locks(p) /\ plans' = [plans EXCEPT ![p] = new] /\ UNCHANGED <<view, switch, upgrade>>
    BY DEF SetStatus
  <1>2. Exists(p) /\ RowFree(p) /\ Len(plans[p].ledger) < MaxLedger[p]
    BY <1>1 DEF Locks, CanRecord
  <1>3. /\ p \in ExistingIn(plans) /\ DOMAIN plans[p] = PlanFields
        /\ ItemsAreSound(plans[p].items) /\ DOMAIN plans[p].weeks = DOMAIN Guide.weeks
    BY <1>2, ExistingPlan
  <1>4. /\ DOMAIN new = PlanFields /\ new.status = status
        /\ new.weeks = plans[p].weeks /\ new.items = plans[p].items
        /\ new.rev = plans[p].rev
        /\ new.ledger = Append(plans[p].ledger, Row(status, plans[p].rev))
    BY <1>3 DEF PlanFields, Recorded
  <1>5. status \in QuietKinds /\ status \in Statuses \ {"none", "active"}
    BY DEF QuietKinds, Statuses
  <1>6. Rewritten(plans[p].items, new.items)
    BY <1>3, <1>4, SameIsRewritten
  <1> HIDE DEF new
  <1>7. WritesOnce(p, plans[p], new)
    BY <1>2, <1>3, <1>4, <1>5, <1>6 DEF WritesOnce, WritesRow
  <1>8. ViewsAreSound(plans, view')
    BY <1>1 DEF IInv
  <1> QED
    BY <1>1, <1>2, <1>3, <1>7, <1>8, OnceKeepsIInv

-----------------------------------------------------------------------------
(***************************************************************************)
(* Reading, and the beginnings of switches                                 *)
(***************************************************************************)
LEMMA PreviewKeeps ==
  ASSUME IInv, NEW c \in Clients, NEW p \in Plans, NEW in \in Inputs, Preview(c, p, in)
  PROVE  IInv'
  <1>1. Exists(p) /\ UNCHANGED <<plans, switch, upgrade>>
    BY DEF Preview
  <1>2. p \in ExistingIn(plans) /\ plans[p].rev \in Nat
    BY <1>1, ExistingPlan
  <1> DEFINE v == [kind |-> "preview", plan |-> p, rev |-> plans[p].rev, in |-> in,
                   placed |-> ProposalFor(p, in).placed,
                   done |-> Pinned(plans[p].items, DOMAIN plans[p].items)]
  <1>3. /\ view' = [view EXCEPT ![c] = v]
        /\ v.kind = "preview" /\ v.plan = p /\ v.rev = plans[p].rev /\ v.in = in
    BY DEF Preview
  <1> HIDE DEF v
  <1>4. ViewIsSound(plans, v)
    BY <1>2, <1>3 DEF ViewIsSound
  <1>5. ViewsAreSound(plans, view')
    BY <1>3, <1>4 DEF IInv, ViewsAreSound
  <1> QED
    BY <1>1, <1>5 DEF IInv

LEMMA OpenItemKeeps ==
  ASSUME IInv, NEW c \in Clients, NEW p \in Plans, NEW i \in DOMAIN plans[p].items,
         OpenItem(c, p, i)
  PROVE  IInv'
  <1>1. UNCHANGED <<plans, switch, upgrade>>
    BY DEF OpenItem
  <1>2. Exists(p)
    <2>1. ~Exists(p) => plans[p] = NoPlan
      BY DEF IInv, PlansAreSound, Exists, ExistingIn
    <2> QED
      BY <2>1 DEF NoPlan
  <1>3. /\ p \in ExistingIn(plans) /\ plans[p].rev \in Nat
        /\ ItemIsSound(i, plans[p].items[i])
    BY <1>2, ExistingPlan DEF ItemsAreSound
  <1> DEFINE v == [kind |-> "item", plan |-> p, rev |-> plans[p].rev, item |-> i,
                   content |-> plans[p].items[i].content]
  <1>4. /\ view' = [view EXCEPT ![c] = v]
        /\ v.kind = "item" /\ v.plan = p /\ v.rev = plans[p].rev /\ v.item = i
        /\ v.content = plans[p].items[i].content
    BY DEF OpenItem
  <1> HIDE DEF v
  <1>5. ViewIsSound(plans, v)
    <2>1. v.content \in Nat
      BY <1>3, <1>4, GuideAssumption DEF ItemIsSound
    <2> QED
      BY <1>3, <1>4, <2>1 DEF ViewIsSound
  <1>6. ViewsAreSound(plans, view')
    BY <1>4, <1>5 DEF IInv, ViewsAreSound
  <1> QED
    BY <1>1, <1>6 DEF IInv

LEMMA ExistingAndActive ==
  /\ Existing = ExistingIn(plans)
  /\ ActivePlans = ActiveIn(plans)
  /\ \A p \in Plans : Exists(p) <=> p \in ExistingIn(plans)
  BY DEF Existing, Exists, ActivePlans, ExistingIn, ActiveIn

\* What is read as active exists.
LEMMA ActivePlanExists ==
  ActivePlan = None \/ ActivePlan \in ExistingIn(plans)
  <1>1. ActivePlans # {} => ActivePlan \in ActivePlans
    BY DEF ActivePlan
  <1> QED
    BY <1>1 DEF ActivePlan, ActivePlans, ExistingIn

\* A request begins a switch of its own.
LEMMA SwitchesWith ==
  ASSUME NEW P, NEW switches, SwitchesAreSound(P, switches), NEW r \in Requests,
         NEW s, SwitchIsSound(P, s),
         \A t \in Requests : switches[t] # None => Apart(s, switches[t]) /\ Apart(switches[t], s)
  PROVE  SwitchesAreSound(P, [switches EXCEPT ![r] = s])
  <1> DEFINE after == [switches EXCEPT ![r] = s]
  <1>1. /\ DOMAIN after = Requests
        /\ \A t \in Requests : after[t] = IF t = r THEN s ELSE switches[t]
    BY DEF SwitchesAreSound
  <1> HIDE DEF after
  <1>2. SwitchesAreSound(P, after)
    BY <1>1 DEF SwitchesAreSound
  <1> QED
    BY <1>2 DEF after

LEMMA SwitchesWithout ==
  ASSUME NEW P, NEW switches, SwitchesAreSound(P, switches), NEW r \in Requests
  PROVE  SwitchesAreSound(P, [switches EXCEPT ![r] = None])
  BY DEF SwitchesAreSound

LEMMA BeginSwitchKeeps ==
  ASSUME IInv, NEW r \in Requests, NEW p \in Plans, NEW kind \in {"resume", "activate"},
         BeginSwitch(r, p, kind)
  PROVE  IInv'
  <1> DEFINE s == [plan |-> p, kind |-> kind, current |-> ActivePlan]
  <1>1. /\ Locks(p) /\ switch' = [switch EXCEPT ![r] = s] /\ UNCHANGED <<plans, view, upgrade>>
    BY DEF BeginSwitch
  <1>2. Exists(p) /\ Len(plans[p].ledger) < MaxLedger[p] /\ FreeIn(switch, p)
    BY <1>1, RowFreeIsFreeIn DEF Locks, CanRecord
  <1>3. SwitchIsSound(plans, s)
    BY <1>2, ActivePlanExists, ExistingAndActive DEF SwitchIsSound
  <1>4. ASSUME NEW t \in Requests, switch[t] # None
        PROVE  Apart(s, switch[t]) /\ Apart(switch[t], s)
    <2>1. SwitchIsSound(plans, switch[t])
      BY <1>4 DEF IInv, SwitchesAreSound
    <2>2. switch[t].plan # p
      BY <1>2, <1>4, <2>1, ExistingAndActive DEF FreeIn, SwitchIsSound
    <2> QED
      BY <2>2 DEF Apart
  <1> HIDE DEF s
  <1>5. SwitchesAreSound(plans, switch')
    BY <1>1, <1>3, <1>4, SwitchesWith DEF IInv
  <1> QED
    BY <1>1, <1>5 DEF IInv

LEMMA BeginCreateKeeps ==
  ASSUME IInv, NEW r \in Requests, NEW p \in Plans, BeginCreate(r, p)
  PROVE  IInv'
  <1> DEFINE s == [plan |-> p, kind |-> "create", current |-> ActivePlan]
  <1>1. /\ ~Exists(p) /\ p # SeedPlan /\ AccountFree /\ Cardinality(Existing) < MaxPlans
        /\ switch' = [switch EXCEPT ![r] = s] /\ UNCHANGED <<plans, view, upgrade>>
    BY DEF BeginCreate
  <1>2. SwitchIsSound(plans, s)
    BY <1>1, ActivePlanExists, ExistingAndActive DEF SwitchIsSound
  <1>3. ASSUME NEW t \in Requests, switch[t] # None
        PROVE  Apart(s, switch[t]) /\ Apart(switch[t], s)
    <2>1. SwitchIsSound(plans, switch[t]) /\ switch[t].kind # "create"
      BY <1>1, <1>3 DEF IInv, SwitchesAreSound, AccountFree
    <2> QED
      BY <1>1, <2>1, ExistingAndActive DEF Apart, SwitchIsSound
  <1> HIDE DEF s
  <1>4. SwitchesAreSound(plans, switch')
    BY <1>1, <1>2, <1>3, SwitchesWith DEF IInv
  <1> QED
    BY <1>1, <1>4 DEF IInv

LEMMA RefuseSwitchKeeps ==
  ASSUME IInv, NEW r \in Requests, RefuseSwitch(r)
  PROVE  IInv'
  BY SwitchesWithout DEF RefuseSwitch, IInv

LEMMA BeginUpgradeKeeps ==
  ASSUME IInv, BeginUpgrade
  PROVE  IInv'
  <1>1. /\ UNCHANGED <<plans, view, switch>> /\ SeedVersion < Len(Releases)
        /\ upgrade' = [version |-> SeedVersion + 1, debt |-> Debt(plans[SeedPlan].ledger)]
    BY DEF BeginUpgrade
  <1>2. SeedVersion = VersionOf(plans[SeedPlan].ledger)
    BY DEF SeedVersion, VersionOf, Versions
  <1>3. VersionOf(plans[SeedPlan].ledger) \in 1..Len(Releases)
    BY DEF IInv, PlansAreSound, SeedIsSound, ReleasesAreRecorded
  <1>4. UpgradeIsSound(plans, upgrade')
    BY <1>1, <1>2, <1>3, GuideAssumption DEF UpgradeIsSound
  <1> QED
    BY <1>1, <1>4 DEF IInv

-----------------------------------------------------------------------------
(***************************************************************************)
(* A new plan                                                              *)
(***************************************************************************)
\* It is sound, is not the curriculum's and fits in the quota; whoever looks at
\* another plan goes on doing so.
LEMMA PlansAfterNew ==
  ASSUME NEW P, PlansAreSound(P), NEW p \in Plans \ ExistingIn(P), p # SeedPlan,
         Cardinality(ExistingIn(P)) < MaxPlans,
         NEW new, PlanIsSound(p, new), new.status # "none", ActivatesAlone(P, p, new)
  PROVE  LET Q == [P EXCEPT ![p] = new]
         IN  /\ PlansAreSound(Q)
             /\ ExistingIn(Q) = ExistingIn(P) \cup {p}
             /\ \A q \in Plans : Q[q] = IF q = p THEN new ELSE P[q]
             /\ \A u : UpgradeIsSound(P, u) => UpgradeIsSound(Q, u)
             /\ \A v : ViewIsSound(P, v) => ViewIsSound(Q, v)
  <1> DEFINE Q == [P EXCEPT ![p] = new]
  <1>1. /\ DOMAIN P = Plans /\ DOMAIN Q = Plans
        /\ \A q \in Plans : Q[q] = IF q = p THEN new ELSE P[q]
    BY DEF PlansAreSound
  <1> HIDE DEF Q
  <1>2. ExistingIn(Q) = ExistingIn(P) \cup {p}
    BY <1>1 DEF ExistingIn
  <1>3. \A q1, q2 \in ActiveIn(Q) : q1 = q2
    <2>1. CASE new.status = "active"
      <3>1. ActiveIn(P) \subseteq {p}
        BY <2>1 DEF ActivatesAlone
      <3>2. ActiveIn(Q) \subseteq ActiveIn(P) \cup {p}
        BY <1>1 DEF ActiveIn
      <3> QED
        BY <3>1, <3>2
    <2>2. CASE new.status # "active"
      <3>1. ActiveIn(Q) \subseteq ActiveIn(P)
        BY <1>1, <2>2 DEF ActiveIn
      <3> QED
        BY <3>1 DEF PlansAreSound
    <2> QED
      BY <2>1, <2>2
  <1>4. Cardinality(ExistingIn(Q)) <= MaxPlans
    <2>1. IsFiniteSet(ExistingIn(P))
      <3>1. ExistingIn(P) \subseteq Plans
        BY DEF ExistingIn
      <3> QED
        BY <3>1, PlanAssumption, FS_Subset
    <2>2. Cardinality(ExistingIn(P)) \in Nat
      BY <2>1, FS_CardinalityType
    <2>3. Cardinality(ExistingIn(P) \cup {p}) = Cardinality(ExistingIn(P)) + 1
      BY <2>1, FS_AddElement
    <2> QED
      BY <1>2, <2>2, <2>3, PlanAssumption
  <1>5. Q[SeedPlan] = P[SeedPlan]
    BY <1>1, PlanAssumption
  <1>6. \A q \in ExistingIn(Q) : PlanIsSound(q, Q[q])
    <2>1. \A q \in ExistingIn(P) : q \in Plans /\ q # p /\ PlanIsSound(q, P[q])
      BY DEF PlansAreSound, ExistingIn
    <2> QED
      BY <1>1, <1>2, <2>1
  <1>7. \A q \in Plans \ ExistingIn(Q) : Q[q] = NoPlan
    BY <1>1, <1>2 DEF PlansAreSound
  <1>8. PlansAreSound(Q)
    BY <1>1, <1>2, <1>3, <1>4, <1>5, <1>6, <1>7 DEF PlansAreSound
  <1>9. \A u : UpgradeIsSound(P, u) => UpgradeIsSound(Q, u)
    BY <1>5 DEF UpgradeIsSound
  <1>10. ASSUME NEW v, ViewIsSound(P, v)
         PROVE  ViewIsSound(Q, v)
    <2>1. Q[v.plan] = P[v.plan]
      BY <1>1, <1>10 DEF ViewIsSound, ExistingIn
    <2> QED
      BY <1>2, <1>10, <2>1 DEF ViewIsSound
  <1> QED
    BY <1>1, <1>2, <1>8, <1>9, <1>10 DEF Q

\* No request creates a plan at the same time: the account row is held.
LEMMA SwitchesAfterNew ==
  ASSUME NEW P, PlansAreSound(P), NEW p \in Plans \ ExistingIn(P), NEW new,
         new.status # "none",
         NEW switches, SwitchesAreSound(P, switches),
         \A r \in Requests : switches[r] # None => switches[r].kind # "create"
  PROVE  SwitchesAreSound([P EXCEPT ![p] = new], switches)
  <1> DEFINE Q == [P EXCEPT ![p] = new]
  <1>1. \A q \in Plans : Q[q] = IF q = p THEN new ELSE P[q]
    BY DEF PlansAreSound
  <1> HIDE DEF Q
  <1>2. ExistingIn(P) \subseteq ExistingIn(Q)
    BY <1>1 DEF ExistingIn
  <1>3. ASSUME NEW r \in Requests, switches[r] # None
        PROVE  SwitchIsSound(Q, switches[r])
    <2> DEFINE s == switches[r]
    <2>1. SwitchIsSound(P, s) /\ s.kind # "create"
      BY <1>3 DEF SwitchesAreSound
    <2> HIDE DEF s
    <2>2. Q[s.plan] = P[s.plan]
      BY <1>1, <2>1 DEF SwitchIsSound
    <2>3. SwitchIsSound(Q, s)
      BY <1>2, <2>1, <2>2 DEF SwitchIsSound
    <2> QED
      BY <2>3 DEF s
  <1>4. SwitchesAreSound(Q, switches)
    BY <1>3 DEF SwitchesAreSound
  <1> QED
    BY <1>4 DEF Q

\* A new item shows the content it was created with and is not complete.
LEMMA NewItemIsSound ==
  ASSUME NEW i \in Ids, NEW version \in 0..Len(Releases)
  PROVE  /\ ItemIsSound(i, NewItem(Guide.items[i], version))
         /\ NewItem(Guide.items[i], version).content = version
         /\ NewItem(Guide.items[i], version).status = "pending"
  <1>1. Guide.items[i].week \in DOMAIN Guide.weeks
    BY GuideAssumption DEF Ids
  <1> QED
    BY <1>1 DEF NewItem, ItemIsSound, ItemFields, ItemStatuses

LEMMA CreatedIsSound ==
  ASSUME NEW p \in Plans, NEW status \in Statuses, NEW version \in 0..Len(Releases),
         NEW items \in SUBSET Ids, NEW row \in LedgerRow, row.kind = "created",
         NEW new, new = Created(status, version, items, row)
  PROVE  PlanIsSound(p, new)
  <1>1. /\ DOMAIN new = PlanFields /\ new.status = status /\ new.rev = 1
        /\ new.weeks = Guide.weeks /\ new.ledger = <<row>>
        /\ new.items = [i \in items |-> NewItem(Guide.items[i], version)]
    BY DEF Created, PlanFields
  <1>2. ItemsAreSound(new.items)
    BY <1>1, NewItemIsSound DEF ItemsAreSound
  <1>3. LedgerIsSound(p, new)
    <2>1. new.ledger \in Seq(LedgerRow) /\ Len(new.ledger) = 1 /\ DOMAIN new.ledger = {1}
          /\ new.ledger[1] = row
      BY <1>1
    <2>2. MaxLedger[p] \in Nat \ {0}
      BY PlanAssumption
    <2>3. ClaimsOf(new.ledger) = {}
      BY <2>1 DEF ClaimsOf, QuietKinds
    <2>4. Gapless(new)
      <3>1. {new.ledger[n].base : n \in ClaimsOf(new.ledger)} = {}
        BY <2>3
      <3>2. 1 .. new.rev - 1 = {}
        BY <1>1
      <3> QED
        BY <2>3, <3>1, <3>2 DEF Gapless
    <2> QED
      BY <1>1, <2>1, <2>2, <2>4 DEF LedgerIsSound
  <1> QED
    BY <1>1, <1>2, <1>3 DEF PlanIsSound

\* A duplicate is all pending and has a ledger of its own.
LEMMA DuplicateKeeps ==
  ASSUME IInv, NEW p \in Plans, NEW q \in Plans, Duplicate(p, q)
  PROVE  IInv'
  <1> DEFINE kept == {i \in DOMAIN plans[p].items : plans[p].items[i].status # "removed"}
             copy(i) == [plans[p].items[i] EXCEPT !.status = "pending", !.seen = None]
             new == [plans[p] EXCEPT !.status = "paused", !.rev = 1, !.ledger = << >>,
                                     !.items = [i \in kept |-> copy(i)]]
  <1>1. /\ Exists(p) /\ ~Exists(q) /\ q # SeedPlan /\ AccountFree
        /\ Cardinality(Existing) < MaxPlans
        /\ plans' = [plans EXCEPT ![q] = new] /\ UNCHANGED <<view, switch, upgrade>>
    BY DEF Duplicate
  <1>2. /\ DOMAIN plans[p] = PlanFields /\ DOMAIN plans[p].weeks = DOMAIN Guide.weeks
        /\ ItemsAreSound(plans[p].items)
    BY <1>1, ExistingPlan
  <1>3. /\ DOMAIN new = PlanFields /\ new.status = "paused" /\ new.rev = 1
        /\ new.weeks = plans[p].weeks /\ new.ledger = << >>
        /\ new.items = [i \in kept |-> copy(i)]
    BY <1>2 DEF PlanFields
  <1>4. ASSUME NEW i \in kept
        PROVE  i \in Ids /\ ItemIsSound(i, copy(i))
    <2>1. i \in Ids /\ ItemIsSound(i, plans[p].items[i])
      BY <1>2 DEF ItemsAreSound
    <2>2. /\ DOMAIN copy(i) = ItemFields /\ copy(i).status = "pending"
          /\ copy(i).week = plans[p].items[i].week
          /\ copy(i).content = plans[p].items[i].content
      BY <2>1 DEF ItemIsSound, ItemFields
    <2> HIDE DEF copy
    <2> QED
      BY <2>1, <2>2 DEF ItemIsSound, ItemStatuses
  <1> HIDE DEF copy, kept, new
  <1>5. ItemsAreSound(new.items)
    BY <1>3, <1>4 DEF ItemsAreSound
  <1>6. LedgerIsSound(q, new)
    <2>1. new.ledger \in Seq(LedgerRow) /\ Len(new.ledger) = 0 /\ DOMAIN new.ledger = {}
      BY <1>3
    <2>2. MaxLedger[q] \in Nat \ {0}
      BY PlanAssumption
    <2>3. ClaimsOf(new.ledger) = {}
      BY <2>1 DEF ClaimsOf
    <2>4. Gapless(new)
      <3>1. {new.ledger[n].base : n \in ClaimsOf(new.ledger)} = {}
        BY <2>3
      <3>2. 1 .. new.rev - 1 = {}
        BY <1>3
      <3> QED
        BY <2>3, <3>1, <3>2 DEF Gapless
    <2> QED
      BY <1>3, <2>1, <2>2, <2>4 DEF LedgerIsSound
  <1>7. PlanIsSound(q, new)
    BY <1>2, <1>3, <1>5, <1>6 DEF PlanIsSound, Statuses
  <1>8. /\ q \in Plans \ ExistingIn(plans) /\ Cardinality(ExistingIn(plans)) < MaxPlans
        /\ ActivatesAlone(plans, q, new) /\ new.status # "none"
    BY <1>1, <1>3, ExistingAndActive DEF ActivatesAlone
  <1>9. /\ PlansAreSound(plans) /\ ViewsAreSound(plans, view)
        /\ SwitchesAreSound(plans, switch) /\ UpgradeIsSound(plans, upgrade)
    BY DEF IInv
  <1>10. /\ PlansAreSound(plans')
         /\ \A u : UpgradeIsSound(plans, u) => UpgradeIsSound(plans', u)
         /\ \A v : ViewIsSound(plans, v) => ViewIsSound(plans', v)
    BY <1>1, <1>7, <1>8, <1>9, PlansAfterNew
  <1>11. SwitchesAreSound(plans', switch')
    BY <1>1, <1>8, <1>9, SwitchesAfterNew DEF AccountFree
  <1>12. ViewsAreSound(plans', view')
    BY <1>1, <1>9, <1>10 DEF ViewsAreSound
  <1> QED
    BY <1>1, <1>9, <1>10, <1>11, <1>12 DEF IInv

-----------------------------------------------------------------------------
(***************************************************************************)
(* Switches of the active plan                                             *)
(***************************************************************************)
\* The plans once the incumbent is paused, before another is made active.
IncumbentIsPaused(P, r) ==
    /\ PlansAreSound(P) /\ ViewsAreSound(P, view) /\ UpgradeIsSound(P, upgrade)
    /\ SwitchesAreSound(P, [switch EXCEPT ![r] = None])
    /\ ExistingIn(P) = ExistingIn(plans)
    /\ ActiveIn(P) \subseteq {switch[r].plan}
    /\ \A q \in Plans : P[q] = IF q \in Incumbent(r) THEN [plans[q] EXCEPT !.status = "paused"]
                               ELSE plans[q]

LEMMA PausingTheIncumbent ==
  ASSUME IInv, NEW r \in Requests, CommitSwitch(r)
  PROVE  \E P : IncumbentIsPaused(P, r)
  <1> DEFINE S == [switch EXCEPT ![r] = None]
  <1>1. /\ switch[r] # None /\ \A q \in Incumbent(r) : RowFree(q)
        /\ ActivePlans \ (Incumbent(r) \cup {switch[r].plan}) = {}
    BY DEF CommitSwitch, MayFinishSwitch, OnlyActive
  <1>2. SwitchIsSound(plans, switch[r]) /\ SwitchesAreSound(plans, S) /\ DOMAIN switch = Requests
    BY <1>1, SwitchesWithout DEF IInv, SwitchesAreSound
  <1>3. /\ PlansAreSound(plans) /\ ViewsAreSound(plans, view) /\ UpgradeIsSound(plans, upgrade)
    BY DEF IInv
  <1>4. CASE Incumbent(r) = {}
    <2>1. ActiveIn(plans) \subseteq {switch[r].plan}
      BY <1>1, <1>4, ExistingAndActive
    <2>2. IncumbentIsPaused(plans, r)
      BY <1>2, <1>3, <1>4, <2>1 DEF IncumbentIsPaused
    <2> QED
      BY <2>2
  <1>5. CASE Incumbent(r) # {}
    <2> DEFINE q == switch[r].current
               new == [plans[q] EXCEPT !.status = "paused"]
               P == [plans EXCEPT ![q] = new]
    <2>1. Incumbent(r) = {q} /\ q # None
      BY <1>5 DEF Incumbent
    <2>2. q \in ExistingIn(plans) /\ q \in Plans /\ Exists(q)
      BY <1>2, <2>1, ExistingAndActive DEF SwitchIsSound, ExistingIn
    <2>3. /\ DOMAIN plans[q] = PlanFields /\ ItemsAreSound(plans[q].items)
          /\ DOMAIN plans[q].weeks = DOMAIN Guide.weeks
      BY <2>2, ExistingPlan
    <2>4. /\ DOMAIN new = PlanFields /\ new.status = "paused"
          /\ new.weeks = plans[q].weeks /\ new.items = plans[q].items
          /\ new.rev = plans[q].rev /\ new.ledger = plans[q].ledger
      BY <2>3 DEF PlanFields
    <2>5. WritesRow(q, plans[q], new)
      <3>1. Rewritten(plans[q].items, new.items)
        BY <2>3, <2>4, SameIsRewritten
      <3> HIDE DEF new
      <3> QED
        BY <2>3, <2>4, <3>1 DEF WritesRow, Statuses
    <2>6. ActivatesAlone(plans, q, new)
      BY <2>4 DEF ActivatesAlone
    <2>7. FreeIn(S, q)
      <3>1. FreeIn(switch, q)
        BY <1>1, <2>1, RowFreeIsFreeIn
      <3> QED
        BY <1>2, <3>1 DEF FreeIn
    <2> HIDE DEF new, S
    <2>8. /\ PlansAreSound(P) /\ ExistingIn(P) = ExistingIn(plans) /\ UpgradeIsSound(P, upgrade)
          /\ \A p \in Plans : P[p] = IF p = q THEN new ELSE plans[p]
      BY <1>3, <2>2, <2>5, <2>6, PlansAfterOnce
    <2>9. ViewsAreSound(P, view) /\ SwitchesAreSound(P, S)
      BY <1>2, <1>3, <2>2, <2>5, <2>7, ViewsAfterOnce, SwitchesAfterOnce
    <2>10. ActiveIn(P) \subseteq {switch[r].plan}
      <3>1. ActiveIn(P) \subseteq ActivePlans \ {q}
        BY <2>4, <2>8 DEF ActiveIn, ActivePlans
      <3> QED
        BY <1>1, <2>1, <3>1
    <2> HIDE DEF q, P
    <2>11. IncumbentIsPaused(P, r)
      BY <2>1, <2>8, <2>9, <2>10 DEF IncumbentIsPaused, S, new
    <2> QED
      BY <2>11
  <1> QED
    BY <1>4, <1>5

LEMMA CommitSwitchKeeps ==
  ASSUME IInv, NEW r \in Requests, CommitSwitch(r)
  PROVE  IInv'
  <1> DEFINE s == switch[r]
             p == s.plan
             new == Switched(r)
             S == [switch EXCEPT ![r] = None]
  <1>1. /\ s # None /\ UNCHANGED <<view, upgrade>> /\ switch' = S
        /\ plans' = [q \in Plans |->
               IF q = p THEN new
               ELSE IF q \in Incumbent(r) THEN [plans[q] EXCEPT !.status = "paused"]
               ELSE plans[q]]
    BY DEF CommitSwitch, MayFinishSwitch
  <1>2. PICK P : IncumbentIsPaused(P, r)
    BY PausingTheIncumbent
  <1>3. /\ PlansAreSound(P) /\ ViewsAreSound(P, view) /\ UpgradeIsSound(P, upgrade)
        /\ SwitchesAreSound(P, S) /\ ExistingIn(P) = ExistingIn(plans)
        /\ ActivatesAlone(P, p, new) /\ DOMAIN P = Plans
    BY <1>2 DEF IncumbentIsPaused, ActivatesAlone, PlansAreSound
  <1>4. SwitchIsSound(plans, s) /\ p \in Plans /\ DOMAIN switch = Requests
    BY <1>1 DEF IInv, SwitchesAreSound, SwitchIsSound
  <1>5. P[p] = plans[p]
    BY <1>2, <1>4 DEF IncumbentIsPaused, Incumbent
  <1>6. plans' = [P EXCEPT ![p] = new]
    <2> HIDE DEF new
    <2> QED
      BY <1>1, <1>2, <1>3 DEF IncumbentIsPaused
  <1>7. \A t \in Requests : S[t] # None => t # r /\ S[t] = switch[t]
    BY <1>4
  <1>8. \A t \in Requests : S[t] # None => Apart(s, S[t]) /\ Apart(S[t], s)
    BY <1>1, <1>7 DEF IInv, SwitchesAreSound
  <1> HIDE DEF S
  <1>9. CASE s.kind = "create"
    <2>1. /\ p \in Plans \ ExistingIn(P) /\ p # SeedPlan
          /\ Cardinality(ExistingIn(P)) < MaxPlans
      BY <1>3, <1>4, <1>9 DEF SwitchIsSound
    <2>2. PlanIsSound(p, new) /\ new.status = "active"
      <3>1. new = Created("active", 0, Ids, Row("created", 1))
        BY <1>9 DEF Switched, Ids
      <3>2. /\ Row("created", 1) \in LedgerRow /\ Row("created", 1).kind = "created"
        BY RowIsLedgerRow DEF QuietKinds
      <3>3. 0 \in 0..Len(Releases) /\ "active" \in Statuses
        BY GuideAssumption DEF Statuses
      <3> DEFINE row == Row("created", 1)
      <3>4. Ids \in SUBSET Ids
        OBVIOUS
      <3> HIDE DEF new, p, row
      <3>5. PlanIsSound(p, Created("active", 0, Ids, row))
        BY <1>4, <3>2, <3>3, <3>4, CreatedIsSound DEF row
      <3>6. Created("active", 0, Ids, row).status = "active"
        BY DEF Created
      <3> QED
        BY <3>1, <3>5, <3>6 DEF row
    <2> HIDE DEF new, p
    <2>3. /\ PlansAreSound(plans')
          /\ \A u : UpgradeIsSound(P, u) => UpgradeIsSound(plans', u)
          /\ \A v : ViewIsSound(P, v) => ViewIsSound(plans', v)
      BY <1>3, <1>6, <2>1, <2>2, PlansAfterNew
    <2>4. \A t \in Requests : S[t] # None => S[t].kind # "create"
      BY <1>8, <1>9 DEF Apart
    <2>5. SwitchesAreSound(plans', S)
      <3>1. new.status # "none"
        BY <2>2
      <3>2. PlansAreSound(P) /\ p \in Plans \ ExistingIn(P) /\ SwitchesAreSound(P, S)
        BY <1>3, <2>1
      <3>3. \A t \in Requests : S[t] # None => S[t].kind # "create"
        BY <2>4
      <3> HIDE DEF s
      <3>4. SwitchesAreSound([P EXCEPT ![p] = new], S)
        BY <3>1, <3>2, <3>3, SwitchesAfterNew, Zenon
      <3> QED
        BY <1>6, <3>4
    <2>6. ViewsAreSound(plans', view')
      BY <1>1, <1>3, <2>3 DEF ViewsAreSound
    <2> QED
      BY <1>1, <1>3, <2>3, <2>5, <2>6 DEF IInv
  <1>10. CASE s.kind # "create"
    <2>1. /\ p \in ExistingIn(plans) /\ Len(plans[p].ledger) < MaxLedger[p]
          /\ s.kind \in {"resume", "activate"} /\ Exists(p)
      BY <1>4, <1>10, ExistingAndActive DEF SwitchIsSound
    <2>2. new = Claimed([plans[p] EXCEPT !.status = "active"], Row(s.kind, plans[p].rev))
      BY <1>10 DEF Switched
    <2>3. /\ DOMAIN plans[p] = PlanFields /\ ItemsAreSound(plans[p].items)
          /\ DOMAIN plans[p].weeks = DOMAIN Guide.weeks
      BY <1>4, <2>1, ExistingPlan
    <2>4. /\ DOMAIN new = PlanFields /\ new.status = "active"
          /\ new.weeks = plans[p].weeks /\ new.items = plans[p].items
          /\ new.rev = plans[p].rev + 1
          /\ new.ledger = Append(plans[p].ledger, Row(s.kind, plans[p].rev))
      BY <2>2, <2>3 DEF PlanFields, Claimed
    <2>5. s.kind \in ClaimKinds /\ s.kind \notin QuietKinds
      BY <2>1 DEF ClaimKinds, QuietKinds
    <2>6. Rewritten(plans[p].items, new.items)
      BY <2>3, <2>4, SameIsRewritten
    <2> HIDE DEF new
    <2>7. WritesRow(p, plans[p], new)
      BY <2>1, <2>3, <2>4, <2>5, <2>6 DEF WritesRow, Statuses
    <2>8. FreeIn(S, p)
      BY <1>8 DEF FreeIn, Apart
    <2> HIDE DEF p
    <2>9. PlansAreSound(plans') /\ UpgradeIsSound(plans', upgrade)
      BY <1>3, <1>5, <1>6, <2>1, <2>7, PlansAfterOnce
    <2>10. ViewsAreSound(plans', view) /\ SwitchesAreSound(plans', S)
      BY <1>3, <1>5, <1>6, <2>1, <2>7, <2>8, ViewsAfterOnce, SwitchesAfterOnce
    <2> QED
      BY <1>1, <2>9, <2>10 DEF IInv
  <1> QED
    BY <1>9, <1>10

-----------------------------------------------------------------------------
(***************************************************************************)
(* Upgrades of the curriculum                                              *)
(***************************************************************************)
\* What a release makes of an item: completed work and items the release does not
\* have keep their content, all others show the release.
ItemAfterRelease(items, u, i) ==
    IF i \notin DOMAIN items THEN NewItem(Guide.items[i], u.version)
    ELSE IF i \in Releases[u.version].items THEN Upgraded(items[i], i, u.version)
    ELSE IF items[i].status = "complete" THEN items[i]
    ELSE [items[i] EXCEPT !.status = "removed"]

LEMMA ItemAfterReleaseIsSound ==
  ASSUME NEW items, ItemsAreSound(items), NEW u, u.version \in 1..Len(Releases),
         NEW i \in DOMAIN items \cup Releases[u.version].items, i \in Ids
  PROVE  LET item == ItemAfterRelease(items, u, i)
         IN  /\ ItemIsSound(i, item)
             /\ i \notin DOMAIN items => item.content = u.version
             /\ i \in DOMAIN items /\ items[i].status # "complete"
                    /\ i \in Releases[u.version].items => item.content = u.version
             /\ i \in DOMAIN items /\ (items[i].status = "complete"
                    \/ i \notin Releases[u.version].items) => item.content = items[i].content
  <1> DEFINE item == ItemAfterRelease(items, u, i)
             def == NewItem(Guide.items[i], u.version)
  <1>1. ItemIsSound(i, def) /\ def.content = u.version /\ def.status = "pending"
    <2>1. u.version \in 0..Len(Releases)
      BY GuideAssumption
    <2> QED
      BY <2>1, NewItemIsSound
  <1>2. CASE i \notin DOMAIN items
    BY <1>1, <1>2 DEF ItemAfterRelease
  <1>3. CASE i \in DOMAIN items /\ items[i].status = "complete"
    <2>1. item = items[i] /\ ItemIsSound(i, items[i])
      BY <1>3 DEF ItemAfterRelease, Upgraded, ItemsAreSound
    <2> QED
      BY <1>3, <2>1
  <1>4. CASE i \in DOMAIN items /\ items[i].status # "complete" /\ i \in Releases[u.version].items
    <2>1. item = [def EXCEPT !.status = items[i].status, !.seen = items[i].seen]
      BY <1>4 DEF ItemAfterRelease, Upgraded
    <2>2. ItemIsSound(i, items[i])
      BY <1>4 DEF ItemsAreSound
    <2>3. /\ DOMAIN item = ItemFields /\ item.status = items[i].status
          /\ item.week = def.week /\ item.content = u.version
      BY <1>1, <2>1 DEF ItemIsSound, ItemFields
    <2> HIDE DEF item, def
    <2>4. ItemIsSound(i, item)
      BY <1>1, <1>4, <2>2, <2>3 DEF ItemIsSound
    <2> QED
      BY <1>4, <2>3, <2>4 DEF item
  <1>5. CASE i \in DOMAIN items /\ items[i].status # "complete" /\ i \notin Releases[u.version].items
    <2>1. item = [items[i] EXCEPT !.status = "removed"] /\ ItemIsSound(i, items[i])
      BY <1>5 DEF ItemAfterRelease, ItemsAreSound
    <2>2. /\ DOMAIN item = ItemFields /\ item.status = "removed"
          /\ item.week = items[i].week /\ item.content = items[i].content
      BY <2>1 DEF ItemIsSound, ItemFields
    <2> HIDE DEF item
    <2>3. ItemIsSound(i, item)
      BY <2>1, <2>2 DEF ItemIsSound, ItemStatuses
    <2> QED
      BY <1>5, <2>2, <2>3 DEF item
  <1> QED
    BY <1>2, <1>3, <1>4, <1>5

LEMMA ReleaseFacts ==
  ASSUME NEW v \in 1..Len(Releases)
  PROVE  /\ Releases[v].fresh \subseteq Releases[v].items
         /\ Releases[v].items \subseteq Ids /\ Releases[v].fresh \subseteq Ids
  <1>1. v \in DOMAIN Releases
    BY GuideAssumption
  <1>2. Releases[v] \in [items : SUBSET Ids, fresh : SUBSET Ids]
    <2>1. Releases \in Seq([items : SUBSET Ids, fresh : SUBSET Ids])
      BY GuideAssumption DEF Ids
    <2> QED
      BY <2>1, ElementOfSeq
  <1>3. Releases[v].fresh \subseteq Releases[v].items
    BY <1>1, GuideAssumption
  <1> QED
    BY <1>2, <1>3

\* The row of the release adds to the debt what it skips and takes from it what
\* it brings up to date: what is owed is what the items do not show.
LEMMA ReleaseOwesWhatItSkips ==
  ASSUME NEW plan, ItemsAreSound(plan.items), NEW version \in Nat, NEW u,
         u.version = version + 1 /\ u.version \in 1..Len(Releases)
             /\ u.debt = Owed(plan.items, version),
         \A i \in DOMAIN plan.items : plan.items[i].content \in 1..version,
         NEW after, DOMAIN after = DOMAIN plan.items \cup Releases[u.version].items,
         \A i \in DOMAIN after : after[i] = ItemAfterRelease(plan.items, u, i)
  PROVE  (u.debt \cup SkippedBy(plan, u)) \ ResolvedBy(plan, u) = Owed(after, u.version)
  <1> DEFINE items == plan.items
             release == Releases[u.version]
             owed(i) == \E v \in items[i].content + 1 .. version : i \in Releases[v].fresh
             owes(i) == \E v \in after[i].content + 1 .. u.version : i \in Releases[v].fresh
  <1>1. release.fresh \subseteq release.items /\ release.items \subseteq Ids
    BY ReleaseFacts
  <1>2. /\ SkippedBy(plan, u) =
               {i \in release.items \cap DOMAIN items :
                    items[i].status = "complete" /\ i \in release.fresh \cup u.debt}
        /\ ResolvedBy(plan, u) =
               {i \in release.items \cap u.debt : items[i].status # "complete"}
    BY DEF SkippedBy, ResolvedBy, Pinned
  <1>3. u.debt = {i \in DOMAIN items : owed(i)}
    BY DEF Owed
  <1>4. DOMAIN items \subseteq Ids
    BY DEF ItemsAreSound
  <1>5. ASSUME NEW i \in DOMAIN after
        PROVE  owes(i) <=> i \in (u.debt \cup SkippedBy(plan, u)) \ ResolvedBy(plan, u)
    <2>1. /\ i \notin DOMAIN items => after[i].content = u.version
          /\ i \in DOMAIN items /\ items[i].status # "complete" /\ i \in release.items
                 => after[i].content = u.version
          /\ i \in DOMAIN items /\ (items[i].status = "complete" \/ i \notin release.items)
                 => after[i].content = items[i].content
      BY <1>1, <1>4, ItemAfterReleaseIsSound
    <2>2. after[i].content = u.version => ~owes(i)
      BY <1>1
    <2>3. i \in DOMAIN items /\ after[i].content = items[i].content =>
              (owes(i) <=> owed(i) \/ i \in release.fresh)
      <3> SUFFICES ASSUME i \in DOMAIN items, after[i].content = items[i].content
                   PROVE  owes(i) <=> owed(i) \/ i \in release.fresh
        OBVIOUS
      <3>1. items[i].content \in 1..version
        OBVIOUS
      <3>2. items[i].content + 1 .. u.version
                = (items[i].content + 1 .. version) \cup {u.version}
        BY <3>1
      <3> QED
        BY <3>2
    <2> HIDE DEF owed, owes, release
    <2>4. CASE i \notin DOMAIN items
      BY <1>2, <1>3, <2>1, <2>2, <2>4
    <2>5. CASE i \in DOMAIN items /\ items[i].status # "complete" /\ i \in release.items
      BY <1>2, <1>3, <2>1, <2>2, <2>5
    <2>6. CASE i \in DOMAIN items /\ items[i].status = "complete" /\ i \in release.items
      BY <1>2, <1>3, <2>1, <2>3, <2>6
    <2>7. CASE i \in DOMAIN items /\ i \notin release.items
      BY <1>1, <1>2, <1>3, <2>1, <2>3, <2>7
    <2> QED
      BY <2>4, <2>5, <2>6, <2>7
  <1>6. (u.debt \cup SkippedBy(plan, u)) \subseteq DOMAIN after
    BY <1>2, <1>3
  <1>7. Owed(after, u.version) = {i \in DOMAIN after : owes(i)}
    BY DEF Owed
  <1> HIDE DEF owes
  <1> QED
    BY <1>5, <1>6, <1>7

\* The plan of the curriculum after an upgrade.
LEMMA ReleaseIsSound ==
  ASSUME NEW plan, PlanIsSound(SeedPlan, plan), SeedIsSound(plan),
         Len(plan.ledger) < MaxLedger[SeedPlan],
         NEW u, u.version = VersionOf(plan.ledger) + 1, u.version <= Len(Releases),
         u.debt = Debt(plan.ledger)
  PROVE  LET new == WithRelease(plan, u)
         IN  /\ PlanIsSound(SeedPlan, new) /\ SeedIsSound(new)
             /\ new.status = plan.status /\ new.rev = plan.rev + 1
             /\ DOMAIN plan.items \subseteq DOMAIN new.items
  <1> DEFINE new == WithRelease(plan, u)
             items == plan.items
             version == VersionOf(plan.ledger)
             release == Releases[u.version]
             row == [kind |-> "curriculum", base |-> plan.rev, version |-> u.version,
                     fresh |-> release.fresh,
                     skipped |-> SkippedBy(plan, u), resolved |-> ResolvedBy(plan, u)]
  <1>1. /\ DOMAIN plan = PlanFields /\ plan.status \in Statuses
        /\ DOMAIN plan.weeks = DOMAIN Guide.weeks
        /\ ItemsAreSound(items) /\ LedgerIsSound(SeedPlan, plan)
    BY DEF PlanIsSound
  <1>2. /\ new.items = [i \in DOMAIN items \cup release.items |-> ItemAfterRelease(items, u, i)]
        /\ DOMAIN new = PlanFields /\ new.status = plan.status /\ new.weeks = plan.weeks
        /\ new.rev = plan.rev + 1 /\ new.ledger = Append(plan.ledger, row)
    BY <1>1 DEF WithRelease, Claimed, PlanFields, ItemAfterRelease
  <1>3. /\ version \in 1..Len(Releases) /\ version \in Nat /\ u.version \in 1..Len(Releases)
        /\ u.version = version + 1
    <2>1. version \in 1..Len(Releases) /\ Len(Releases) \in Nat
      BY GuideAssumption DEF SeedIsSound, ReleasesAreRecorded
    <2> HIDE DEF version
    <2>2. u.version = version + 1
      BY DEF version
    <2> QED
      BY <2>1, <2>2
  <1>4. release.fresh \subseteq release.items /\ release.items \subseteq Ids
    BY <1>3, ReleaseFacts
  <1>5. DOMAIN items \subseteq Ids
    BY <1>1 DEF ItemsAreSound
  <1>6. plan.ledger \in Seq(LedgerRow) /\ plan.rev \in Nat
    BY <1>1 DEF LedgerIsSound
  <1>7. /\ row \in LedgerRow /\ row.kind = "curriculum" /\ row.base = plan.rev
        /\ row.version = u.version /\ row.fresh = release.fresh
        /\ row.skipped = SkippedBy(plan, u) /\ row.resolved = ResolvedBy(plan, u)
    <2>1. SkippedBy(plan, u) \subseteq Ids /\ ResolvedBy(plan, u) \subseteq Ids
      BY <1>4 DEF SkippedBy, ResolvedBy
    <2>2. u.version \in 0..Len(Releases)
      BY <1>3, GuideAssumption
    <2> HIDE DEF release
    <2> QED
      BY <1>4, <1>6, <2>1, <2>2 DEF LedgerRow, ClaimKinds
  <1> HIDE DEF row, new
  <1>8. LedgerIsSound(SeedPlan, new)
    <2>1. row.kind \notin QuietKinds
      BY <1>7 DEF QuietKinds
    <2> QED
      BY <1>1, <1>2, <1>7, <2>1, LedgerAfterRow, PlanAssumption
  <1>9. ItemsAreSound(new.items)
    <2>1. ASSUME NEW i \in DOMAIN new.items PROVE ItemIsSound(i, new.items[i])
      <3>1. i \in DOMAIN items \cup release.items /\ i \in Ids
        BY <1>2, <1>4, <1>5
      <3>2. ItemIsSound(i, ItemAfterRelease(items, u, i))
        BY <1>1, <1>3, <3>1, ItemAfterReleaseIsSound
      <3> QED
        BY <1>2, <3>1, <3>2
    <2> QED
      BY <1>2, <1>4, <1>5, <2>1 DEF ItemsAreSound
  <1>10. PlanIsSound(SeedPlan, new)
    BY <1>1, <1>2, <1>8, <1>9 DEF PlanIsSound
  <1>11. /\ VersionOf(plan.ledger) \in Versions(plan.ledger)
         /\ \A n \in DOMAIN plan.ledger : plan.ledger[n].version <= VersionOf(plan.ledger)
         /\ \A v \in 1..VersionOf(plan.ledger) :
                \E n \in DOMAIN plan.ledger : plan.ledger[n].fresh = Releases[v].fresh
    BY DEF SeedIsSound, ReleasesAreRecorded
  <1>12. VersionOf(new.ledger) = u.version /\ u.version \in Versions(new.ledger)
    <2>1. row.version >= VersionOf(plan.ledger)
      BY <1>3, <1>7
    <2>2. /\ VersionOf(Append(plan.ledger, row)) = row.version
          /\ Versions(Append(plan.ledger, row)) = Versions(plan.ledger) \cup {row.version}
      BY <1>6, <1>7, <1>11, <2>1, VersionAfterRow
    <2> QED
      BY <1>2, <1>7, <2>2
  <1>13. ReleasesAreRecorded(new.ledger)
    <2>1. /\ DOMAIN new.ledger = DOMAIN plan.ledger \cup {Len(plan.ledger) + 1}
          /\ \A n \in DOMAIN plan.ledger : new.ledger[n] = plan.ledger[n]
          /\ new.ledger[Len(plan.ledger) + 1] = row
      BY <1>2, <1>6, <1>7, OneMoreRow
    <2>2. \A n \in DOMAIN new.ledger : new.ledger[n].version <= u.version
      <3>1. \A n \in DOMAIN plan.ledger : plan.ledger[n].version \in Nat
        <4>1. \A n \in DOMAIN plan.ledger : plan.ledger[n] \in LedgerRow
          BY <1>6, <1>7, OneMoreRow
        <4> QED
          BY <4>1, GuideAssumption DEF LedgerRow
      <3> QED
        BY <1>3, <1>7, <1>11, <2>1, <3>1
    <2>3. ASSUME NEW v \in 1..u.version
          PROVE  \E n \in DOMAIN new.ledger : new.ledger[n].fresh = Releases[v].fresh
      <3>1. CASE v = u.version
        BY <1>7, <2>1, <3>1
      <3>2. CASE v # u.version
        <4>1. v \in 1..VersionOf(plan.ledger)
          BY <1>3, <3>2
        <4> QED
          BY <1>11, <2>1, <4>1
      <3> QED
        BY <3>1, <3>2
    <2> QED
      BY <1>3, <1>12, <2>2, <2>3 DEF ReleasesAreRecorded
  <1>14. \A i \in DOMAIN items : items[i].content \in 1..version
    BY DEF SeedIsSound
  <1>15. \A i \in DOMAIN new.items : new.items[i].content \in 1..u.version
    <2> TAKE i \in DOMAIN new.items
    <2>1. i \in DOMAIN items \cup release.items /\ i \in Ids
      BY <1>2, <1>4, <1>5
    <2>2. \/ new.items[i].content = u.version
          \/ i \in DOMAIN items /\ new.items[i].content = items[i].content
      <3> DEFINE item == ItemAfterRelease(items, u, i)
      <3>1. /\ i \notin DOMAIN items => item.content = u.version
            /\ i \in DOMAIN items /\ items[i].status # "complete"
                   /\ i \in Releases[u.version].items => item.content = u.version
            /\ i \in DOMAIN items /\ (items[i].status = "complete"
                   \/ i \notin Releases[u.version].items) => item.content = items[i].content
        BY <1>1, <1>3, <2>1, ItemAfterReleaseIsSound
      <3>2. new.items[i] = item
        BY <1>2, <2>1
      <3> HIDE DEF item, items, release
      <3>3. CASE i \notin DOMAIN items
        BY <3>1, <3>2, <3>3
      <3>4. CASE i \in DOMAIN items /\ items[i].status # "complete"
                 /\ i \in Releases[u.version].items
        BY <3>1, <3>2, <3>4
      <3>5. CASE i \in DOMAIN items /\ (items[i].status = "complete"
                   \/ i \notin Releases[u.version].items)
        BY <3>1, <3>2, <3>5
      <3> QED
        BY <3>3, <3>4, <3>5
    <2> QED
      BY <1>3, <1>14, <2>2
  <1>16. Debt(new.ledger) = Owed(new.items, u.version)
    <2>1. u.debt = Owed(items, version)
      BY DEF SeedIsSound
    <2>2. (u.debt \cup SkippedBy(plan, u)) \ ResolvedBy(plan, u) = Owed(new.items, u.version)
      <3> DEFINE after == new.items
      <3>1. /\ DOMAIN after = DOMAIN items \cup Releases[u.version].items
            /\ \A i \in DOMAIN after : after[i] = ItemAfterRelease(items, u, i)
        BY <1>2
      <3>2. ItemsAreSound(plan.items)
        BY <1>1
      <3>3. \A i \in DOMAIN plan.items : plan.items[i].content \in 1..version
        BY <1>14
      <3> HIDE DEF after, version
      <3> QED
        BY <1>3, <2>1, <3>1, <3>2, <3>3, ReleaseOwesWhatItSkips DEF after
    <2>3. Debt(new.ledger) = (Debt(plan.ledger) \cup row.skipped) \ row.resolved
      BY <1>2, <1>6, <1>7, DebtAfterRow
    <2> QED
      BY <1>7, <2>2, <2>3
  <1>17. SeedIsSound(new)
    BY <1>12, <1>13, <1>15, <1>16 DEF SeedIsSound
  <1>18. DOMAIN items \subseteq DOMAIN new.items
    BY <1>2
  <1> QED
    BY <1>2, <1>10, <1>17, <1>18 DEF new

LEMMA ApplyUpgradeKeeps ==
  ASSUME IInv, ApplyUpgrade
  PROVE  IInv'
  <1> DEFINE p == SeedPlan
             plan == plans[p]
             new == WithRelease(plan, upgrade)
  <1>1. /\ upgrade # None /\ RowFree(p) /\ Len(plan.ledger) < MaxLedger[p]
        /\ plans' = [plans EXCEPT ![p] = new] /\ upgrade' = None /\ UNCHANGED <<view, switch>>
    BY DEF ApplyUpgrade, CanRecord
  <1>2. /\ PlansAreSound(plans) /\ ViewsAreSound(plans, view) /\ SwitchesAreSound(plans, switch)
        /\ UpgradeIsSound(plans, upgrade)
    BY DEF IInv
  <1>3. /\ p \in ExistingIn(plans) /\ p \in Plans /\ PlanIsSound(p, plan) /\ SeedIsSound(plan)
        /\ DOMAIN plans = Plans
    BY <1>2 DEF PlansAreSound, ExistingIn
  <1>4. /\ PlanIsSound(p, new) /\ SeedIsSound(new)
        /\ new.status = plan.status /\ new.rev = plan.rev + 1
        /\ DOMAIN plan.items \subseteq DOMAIN new.items
    BY <1>1, <1>2, <1>3, ReleaseIsSound DEF UpgradeIsSound
  <1> HIDE DEF new
  <1>5. \A q \in Plans : plans'[q] = IF q = p THEN new ELSE plans[q]
    BY <1>1, <1>3
  <1>6. ExistingIn(plans') = ExistingIn(plans) /\ ActiveIn(plans') = ActiveIn(plans)
    BY <1>3, <1>4, <1>5 DEF ExistingIn, ActiveIn
  <1>7. PlansAreSound(plans')
    <2>1. DOMAIN plans' = Plans
      BY <1>1, <1>3
    <2>2. \A q \in ExistingIn(plans') : PlanIsSound(q, plans'[q])
      <3>1. \A q \in ExistingIn(plans) : q \in Plans /\ PlanIsSound(q, plans[q])
        BY <1>2 DEF PlansAreSound, ExistingIn
      <3> QED
        BY <1>4, <1>5, <1>6, <3>1
    <2>3. SeedPlan \in ExistingIn(plans') /\ SeedIsSound(plans'[SeedPlan])
      BY <1>3, <1>4, <1>5, <1>6
    <2>4. \A q \in Plans \ ExistingIn(plans') : plans'[q] = NoPlan
      BY <1>2, <1>3, <1>5, <1>6 DEF PlansAreSound
    <2>5. /\ \A q1, q2 \in ActiveIn(plans') : q1 = q2
          /\ Cardinality(ExistingIn(plans')) <= MaxPlans
      BY <1>2, <1>6 DEF PlansAreSound
    <2> QED
      BY <2>1, <2>2, <2>3, <2>4, <2>5 DEF PlansAreSound
  <1>8. ViewsAreSound(plans', view')
    <2>1. ASSUME NEW v, ViewIsSound(plans, v)
          PROVE  ViewIsSound(plans', v)
      <3>1. v.plan \in Plans /\ v.plan \in ExistingIn(plans)
        BY <2>1 DEF ViewIsSound, ExistingIn
      <3>2. CASE v.plan # p
        <4>1. plans'[v.plan] = plans[v.plan]
          BY <1>5, <3>1, <3>2
        <4> QED
          BY <1>6, <2>1, <4>1 DEF ViewIsSound
      <3>3. CASE v.plan = p
        <4>1. plans'[v.plan] = new /\ plans[v.plan] = plan
          BY <1>5, <3>1, <3>3
        <4>2. plan.rev \in Nat
          BY <1>3 DEF PlanIsSound, LedgerIsSound
        <4>3. v.rev <= new.rev /\ v.rev # new.rev /\ v.rev \in Nat
          BY <1>4, <2>1, <4>1, <4>2 DEF ViewIsSound
        <4> QED
          BY <1>4, <1>6, <2>1, <3>3, <4>1, <4>3 DEF ViewIsSound
      <3> QED
        BY <3>2, <3>3
    <2> QED
      BY <1>1, <1>2, <2>1 DEF ViewsAreSound
  <1>9. SwitchesAreSound(plans', switch')
    <2>1. FreeIn(switch, p)
      BY <1>1, RowFreeIsFreeIn
    <2>2. ASSUME NEW r \in Requests, switch[r] # None
          PROVE  SwitchIsSound(plans', switch[r])
      <3> DEFINE s == switch[r]
      <3>1. SwitchIsSound(plans, s) /\ (s.kind # "create" => s.plan # p)
        BY <1>2, <2>1, <2>2 DEF SwitchesAreSound, FreeIn
      <3> HIDE DEF s
      <3>2. s.kind # "create" => plans'[s.plan] = plans[s.plan]
        BY <1>5, <3>1 DEF SwitchIsSound
      <3>3. SwitchIsSound(plans', s)
        BY <1>6, <3>1, <3>2 DEF SwitchIsSound
      <3> QED
        BY <3>3 DEF s
    <2> QED
      BY <1>1, <1>2, <2>2 DEF SwitchesAreSound
  <1>10. UpgradeIsSound(plans', upgrade')
    BY <1>1 DEF UpgradeIsSound
  <1> QED
    BY <1>7, <1>8, <1>9, <1>10 DEF IInv

-----------------------------------------------------------------------------
(***************************************************************************)
(* The invariant and what follows from it                                  *)
(***************************************************************************)
LEMMA SeedPlanIsSound ==
  LET new == Created("paused", 1, Releases[1].items,
                     [Row("created", 1) EXCEPT !.version = 1, !.fresh = Releases[1].fresh])
  IN  PlanIsSound(SeedPlan, new) /\ SeedIsSound(new) /\ new.status = "paused"
  <1> DEFINE row == [Row("created", 1) EXCEPT !.version = 1, !.fresh = Releases[1].fresh]
             new == Created("paused", 1, Releases[1].items, row)
  <1>1. 1 \in 1..Len(Releases) /\ 1 \in 0..Len(Releases)
    BY GuideAssumption
  <1>2. Releases[1].items \in SUBSET Ids /\ Releases[1].fresh \in SUBSET Ids
    BY <1>1, ReleaseFacts
  <1>3. /\ row \in LedgerRow /\ row.kind = "created" /\ row.version = 1
        /\ row.fresh = Releases[1].fresh /\ row.skipped = {}
    <2> DEFINE first == Row("created", 1)
    <2>1. "created" \in QuietKinds \cup ClaimKinds /\ 1 \in Nat
      BY DEF QuietKinds
    <2>2. first \in LedgerRow /\ first.kind = "created" /\ first.skipped = {}
      BY <2>1, RowIsLedgerRow
    <2>3. row = [first EXCEPT !.version = 1, !.fresh = Releases[1].fresh]
      OBVIOUS
    <2> HIDE DEF first, row
    <2> QED
      BY <1>1, <1>2, <2>2, <2>3 DEF LedgerRow
  <1>4. "paused" \in Statuses
    BY DEF Statuses
  <1> HIDE DEF row
  <1>5. /\ PlanIsSound(SeedPlan, new)
        /\ new.status = "paused" /\ new.ledger = <<row>> /\ DOMAIN new.items = Releases[1].items
        /\ \A i \in Releases[1].items : new.items[i].content = 1
    <2>1. SeedPlan \in Plans
      BY PlanAssumption
    <2> HIDE DEF new
    <2>2. new = Created("paused", 1, Releases[1].items, row)
      BY DEF new
    <2>3. PlanIsSound(SeedPlan, new)
      <3> DEFINE items == Releases[1].items
      <3>1. items \in SUBSET Ids /\ new = Created("paused", 1, items, row)
        BY <1>2, <2>2
      <3>2. 1 \in 0..Len(Releases) /\ row \in LedgerRow /\ row.kind = "created"
        BY <1>1, <1>3
      <3> HIDE DEF items
      <3> QED
        BY <1>4, <2>1, <3>1, <3>2, CreatedIsSound
    <2>4. /\ new.status = "paused" /\ new.ledger = <<row>> /\ DOMAIN new.items = Releases[1].items
          /\ \A i \in Releases[1].items : new.items[i].content = 1
      BY <2>2 DEF Created, NewItem
    <2> QED
      BY <2>3, <2>4
  <1> HIDE DEF new
  <1>6. DOMAIN new.ledger = {1} /\ new.ledger[1] = row
    BY <1>5
  <1>7. Versions(new.ledger) = {1}
    BY <1>3, <1>6 DEF Versions
  <1>8. VersionOf(new.ledger) = 1
    BY <1>7, MaxIs DEF VersionOf
  <1>9. ReleasesAreRecorded(new.ledger)
    BY <1>1, <1>3, <1>6, <1>7, <1>8 DEF ReleasesAreRecorded
  <1>10. Debt(new.ledger) = {}
    BY <1>3, <1>6 DEF Debt
  <1>11. Owed(new.items, 1) = {}
    BY <1>5 DEF Owed
  <1>12. SeedIsSound(new)
    BY <1>5, <1>8, <1>9, <1>10, <1>11 DEF SeedIsSound
  <1> QED
    BY <1>5, <1>12 DEF new, row

LEMMA InitHolds ==
  ASSUME Init
  PROVE  IInv
  <1> DEFINE new == Created("paused", 1, Releases[1].items,
                            [Row("created", 1) EXCEPT !.version = 1, !.fresh = Releases[1].fresh])
  <1>1. /\ plans = [p \in Plans |-> IF p = SeedPlan THEN new ELSE NoPlan]
        /\ view = [c \in Clients |-> None] /\ switch = [r \in Requests |-> None]
        /\ upgrade = None
    BY DEF Init
  <1>2. PlanIsSound(SeedPlan, new) /\ SeedIsSound(new) /\ new.status = "paused"
    BY SeedPlanIsSound
  <1> HIDE DEF new
  <1>3. SeedPlan \in Plans /\ NoPlan.status = "none"
    BY PlanAssumption DEF NoPlan
  <1>4. ExistingIn(plans) = {SeedPlan} /\ ActiveIn(plans) = {}
    BY <1>1, <1>2, <1>3 DEF ExistingIn, ActiveIn
  <1>5. Cardinality(ExistingIn(plans)) <= MaxPlans
    <2>1. Cardinality({SeedPlan}) = 1
      BY FS_Singleton
    <2> QED
      BY <1>4, <2>1, PlanAssumption
  <1>6. PlansAreSound(plans)
    BY <1>1, <1>2, <1>3, <1>4, <1>5 DEF PlansAreSound
  <1> QED
    BY <1>1, <1>6 DEF IInv, ViewsAreSound, SwitchesAreSound, UpgradeIsSound

LEMMA NextKeeps ==
  ASSUME IInv, [Next]_vars
  PROVE  IInv'
  <1>1. CASE UNCHANGED vars
    BY <1>1 DEF IInv, vars
  <1>2. ASSUME NEW c \in Clients, NEW p \in Plans, NEW in \in Inputs, Preview(c, p, in)
        PROVE  IInv'
    BY <1>2, PreviewKeeps
  <1>3. ASSUME NEW c \in Clients, NEW p \in Plans, NEW i \in DOMAIN plans[p].items,
               OpenItem(c, p, i)
        PROVE  IInv'
    BY <1>3, OpenItemKeeps
  <1>4. ASSUME NEW c \in Clients, ApplyReplan(c) PROVE IInv'
    BY <1>4, ApplyReplanKeeps
  <1>5. ASSUME NEW c \in Clients, NEW sends \in BOOLEAN, CompleteItem(c, sends) PROVE IInv'
    BY <1>5, CompleteItemKeeps
  <1>6. ASSUME NEW p \in Plans, NEW minutes \in Capacities \cup {None},
               NEW w \in DOMAIN plans[p].weeks, SetCapacity(p, w, minutes)
        PROVE  IInv'
    BY <1>6, SetCapacityKeeps
  <1>7. ASSUME NEW p \in Plans, NEW i \in DOMAIN plans[p].items, ReopenItem(p, i) PROVE IInv'
    BY <1>7, ReopenItemKeeps
  <1>8. ASSUME NEW p \in Plans, NEW minutes \in Estimates, NEW i \in DOMAIN plans[p].items,
               EditEstimate(p, i, minutes)
        PROVE  IInv'
    BY <1>8, EditEstimateKeeps
  <1>9. ASSUME NEW p \in Plans, PausePlan(p) \/ CompletePlan(p) \/ ArchivePlan(p) PROVE IInv'
    BY <1>9, SetStatusKeeps DEF PausePlan, CompletePlan, ArchivePlan
  <1>10. ASSUME NEW r \in Requests, NEW p \in Plans, NEW kind \in {"resume", "activate"},
                BeginSwitch(r, p, kind)
         PROVE  IInv'
    BY <1>10, BeginSwitchKeeps
  <1>11. ASSUME NEW r \in Requests, NEW p \in Plans, BeginCreate(r, p) PROVE IInv'
    BY <1>11, BeginCreateKeeps
  <1>12. ASSUME NEW r \in Requests, CommitSwitch(r) PROVE IInv'
    BY <1>12, CommitSwitchKeeps
  <1>13. ASSUME NEW r \in Requests, RefuseSwitch(r) PROVE IInv'
    BY <1>13, RefuseSwitchKeeps
  <1>14. ASSUME NEW p \in Plans, NEW q \in Plans, Duplicate(p, q) PROVE IInv'
    BY <1>14, DuplicateKeeps
  <1> QED
    BY <1>1, <1>2, <1>3, <1>4, <1>5, <1>6, <1>7, <1>8, <1>9, <1>10, <1>11, <1>12, <1>13,
       <1>14, BeginUpgradeKeeps, ApplyUpgradeKeeps DEF Next

\* The plans of an account and what its clients, requests and the operator hold
\* stay sound, for every number of each and every curriculum.
THEOREM PlansStaySound == Spec => []IInv
  BY InitHolds, NextKeeps, PTL DEF Spec

\* The revision of a plan is bounded by the rows of its ledger, and every item is in
\* a week of its plan.
THEOREM PlansAreTyped == Spec => []TypeOK
  <1>1. IInv => TypeOK
    <2> SUFFICES ASSUME IInv PROVE TypeOK
      OBVIOUS
    <2>1. ASSUME NEW p \in Plans
          PROVE  /\ plans[p].status \in Statuses
                 /\ plans[p].rev \in 0..MaxLedger[p] + 1
                 /\ \A i \in DOMAIN plans[p].items :
                        /\ plans[p].items[i].week \in DOMAIN plans[p].weeks
                        /\ plans[p].items[i].status
                               \in {"pending", "complete", "deferred", "removed"}
      <3>1. MaxLedger[p] \in Nat
        BY PlanAssumption
      <3>2. CASE ~Exists(p)
        <4>1. plans[p] = NoPlan
          BY <3>2 DEF IInv, PlansAreSound, Exists, ExistingIn
        <4> QED
          BY <3>1, <4>1 DEF NoPlan, Statuses
      <3>3. CASE Exists(p)
        <4>1. /\ PlanIsSound(p, plans[p]) /\ plans[p].status \in Statuses
              /\ DOMAIN plans[p].weeks = DOMAIN Guide.weeks /\ ItemsAreSound(plans[p].items)
          BY <3>3, ExistingPlan
        <4>2. plans[p].rev \in 0..MaxLedger[p] + 1
          <5>1. /\ plans[p].ledger \in Seq(LedgerRow) /\ Len(plans[p].ledger) <= MaxLedger[p]
                /\ plans[p].rev \in 1 .. Len(plans[p].ledger) + 1
            BY <4>1 DEF PlanIsSound, LedgerIsSound
          <5> QED
            BY <3>1, <5>1
        <4> QED
          BY <4>1, <4>2 DEF ItemsAreSound, ItemIsSound, ItemStatuses
      <3> QED
        BY <3>2, <3>3
    <2>2. \A r \in Requests : switch[r] # None =>
              switch[r].kind \in {"resume", "activate", "create"}
      BY DEF IInv, SwitchesAreSound, SwitchIsSound
    <2> QED
      BY <2>1, <2>2 DEF TypeOK
  <1> QED
    BY <1>1, PlansStaySound, PTL

\* However many switches, resumptions and creations overlap between their read of
\* the active plan and their commit, one plan is active at most and the quota holds.
THEOREM LimitsHold == Spec => []PlansWithinLimits
  <1>1. IInv => PlansWithinLimits
    <2> SUFFICES ASSUME IInv PROVE PlansWithinLimits
      OBVIOUS
    <2>1. Cardinality(ActivePlans) <= 1
      <3>1. \A p, q \in ActivePlans : p = q
        BY ExistingAndActive DEF IInv, PlansAreSound
      <3>2. CASE ActivePlans = {}
        BY <3>2, FS_EmptySet
      <3>3. CASE ActivePlans # {}
        <4>1. PICK p \in ActivePlans : TRUE
          BY <3>3
        <4>2. ActivePlans = {p}
          BY <3>1, <4>1
        <4> QED
          BY <4>2, FS_Singleton
      <3> QED
        BY <3>2, <3>3
    <2>2. Cardinality(Existing) <= MaxPlans
      BY ExistingAndActive DEF IInv, PlansAreSound
    <2> QED
      BY <2>1, <2>2 DEF PlansWithinLimits, OneActivePlan, PlanQuota
  <1> QED
    BY <1>1, PlansStaySound, PTL

\* The ledger has every revision once, work is credited only to those who saw it,
\* and the debt rebuilt from the ledger is the work the items do not show: for every
\* sequence of releases and every order of completions, reopenings and upgrades.
THEOREM LedgersAreTrue == Spec => []LedgerIsTrue
  <1>1. IInv => LedgerIsTrue
    <2> SUFFICES ASSUME IInv PROVE LedgerIsTrue
      OBVIOUS
    <2>1. \A p \in Existing : PlanIsSound(p, plans[p])
      BY ExistingAndActive DEF IInv, PlansAreSound
    <2>2. LedgerIsGapless
      <3>1. \A p : Claims(p) = ClaimsOf(plans[p].ledger)
        BY DEF Claims, ClaimsOf, QuietKinds
      <3>2. \A p \in Existing : Gapless(plans[p])
        BY <2>1 DEF PlanIsSound, LedgerIsSound
      <3> QED
        BY <3>1, <3>2 DEF LedgerIsGapless, Gapless
    <2>3. CreditIsEarned
      BY <2>1 DEF CreditIsEarned, PlanIsSound, ItemsAreSound, ItemIsSound, Earned
    <2>4. DebtIsOwed
      <3>1. SeedIsSound(plans[SeedPlan])
        BY DEF IInv, PlansAreSound
      <3>2. SeedVersion = VersionOf(plans[SeedPlan].ledger)
        BY DEF SeedVersion, VersionOf, Versions
      <3> QED
        BY <3>1, <3>2 DEF DebtIsOwed, SeedIsSound, Owed
    <2> QED
      BY <2>2, <2>3, <2>4 DEF LedgerIsTrue
  <1> QED
    BY <1>1, PlansStaySound, PTL

-----------------------------------------------------------------------------
(***************************************************************************)
(* PlanDraft implements LeasedImport, for every number of drafts, requests *)
(* and editors.                                                            *)
(***************************************************************************)
DraftFields == {"status", "holder", "fresh", "answer", "preview", "checks"}


\* A draft that has an answer is ready: no claim, lapse or failure is open to it
\* any more.  A holder is the latest claim.
RowSound(row, latest) ==
    /\ DOMAIN row = DraftFields
    /\ row.status \in {"none", "pending", "ready", "failed"}
    /\ row.holder \in {None, latest}
    /\ row.status # "pending" => row.holder = None
    /\ row.answer # None =>
           row.status = "ready" /\ IsAnswer(row.answer) /\ Readable(row.answer)

ImportFields == {"draft", "at", "expects", "got", "decided"}

ImportSound(rows, step) ==
    /\ DOMAIN step = ImportFields
    /\ step.got \in Answers \cup {None}
    /\ step.at # "none" =>
           /\ step.draft \in Drafts /\ rows[step.draft].status # "none"
           /\ step.expects \in {"pending", "failed"}

\* An edit keeps status and holder: what it writes are columns of a ready draft.
EditSound(rows, e) ==
    /\ e.draft \in Drafts /\ rows[e.draft].status = "ready"
    /\ DOMAIN e.write = DraftFields
    /\ e.write.status = e.read.status /\ e.write.holder = e.read.holder
    /\ e.write.answer # None => IsAnswer(e.write.answer) /\ Readable(e.write.answer)

LineageSound ==
    /\ DOMAIN lineage = Drafts
    /\ \A d \in Drafts : DOMAIN lineage[d] = {"latest", "ordered"}

RowsSound == DOMAIN draft = Drafts /\ \A d \in Drafts : RowSound(draft[d], lineage[d].latest)

ImportsSound == DOMAIN import = Workers /\ \A r \in Workers : ImportSound(draft, import[r])

EditsSound ==
    /\ DOMAIN editing = Editors
    /\ \A c \in Editors : editing[c] # None => EditSound(draft, editing[c])

DInv == LineageSound /\ RowsSound /\ ImportsSound /\ EditsSound

USE DEF DraftFields, ImportFields

(***************************************************************************)
(* What the rows do                                                        *)
(***************************************************************************)

\* An import that is at work has its draft.
LEMMA ImportHasDraft ==
  ASSUME DInv, NEW r \in Workers, ~At(r, "none")
  PROVE  /\ import[r].draft \in Stored
         /\ RowSound(draft[import[r].draft], lineage[import[r].draft].latest)
         /\ import[r].expects \in {"pending", "failed"}
  BY DEF DInv, ImportsSound, ImportSound, RowsSound, Stored, At

\* Rows, imports and edits stay sound if the row that is written is, and if a row
\* is not lost and a ready one stays ready.
LEMMA OneRowRewritten ==
  ASSUME DInv, NEW d \in Drafts, NEW row, draft' = [draft EXCEPT ![d] = row],
         RowSound(row, lineage'[d].latest),
         draft[d].status # "none" => row.status # "none",
         draft[d].status = "ready" => row.status = "ready",
         LineageSound', \A e \in Drafts \ {d} : lineage'[e].latest = lineage[e].latest
  PROVE  /\ RowsSound'
         /\ \A step : ImportSound(draft, step) => ImportSound(draft', step)
         /\ \A e : EditSound(draft, e) => EditSound(draft', e)
  <1>1. /\ DOMAIN draft' = Drafts /\ draft'[d] = row
        /\ \A e \in Drafts \ {d} : draft'[e] = draft[e]
    BY DEF DInv, RowsSound
  <1>2. RowsSound'
    <2>1. ASSUME NEW e \in Drafts
          PROVE  RowSound(draft'[e], lineage'[e].latest)
      <3>1. CASE e = d
        BY <1>1, <3>1
      <3>2. CASE e # d
        BY <1>1, <2>1, <3>2 DEF DInv, RowsSound
      <3> QED
        BY <3>1, <3>2
    <2> QED
      BY <1>1, <2>1 DEF RowsSound
  <1>3. ASSUME NEW step, ImportSound(draft, step) PROVE ImportSound(draft', step)
    BY <1>1, <1>3 DEF ImportSound
  <1>4. ASSUME NEW e, EditSound(draft, e) PROVE EditSound(draft', e)
    BY <1>1, <1>4 DEF EditSound
  <1> QED
    BY <1>2, <1>3, <1>4

\* Where the columns of the lease stand, the row does: a heartbeat, and time.
LEMMA RenewedRowSound ==
  ASSUME NEW row, NEW latest, RowSound(row, latest), NEW fresh
  PROVE  RowSound([row EXCEPT !.fresh = fresh], latest)
  <1> DEFINE new == [row EXCEPT !.fresh = fresh]
  <1>1. /\ DOMAIN new = DraftFields
        /\ new.status = row.status /\ new.holder = row.holder /\ new.answer = row.answer
    BY DEF RowSound
  <1> HIDE DEF new
  <1> QED
    BY <1>1 DEF RowSound

LEMMA FailedRowSound ==
  ASSUME NEW row, NEW latest, RowSound(row, latest), row.status # "ready"
  PROVE  RowSound([row EXCEPT !.status = "failed", !.holder = None], latest)
  <1> DEFINE new == [row EXCEPT !.status = "failed", !.holder = None]
  <1>1. /\ DOMAIN new = DraftFields
        /\ new.status = "failed" /\ new.holder = None /\ new.answer = row.answer
    BY DEF RowSound
  <1> HIDE DEF new
  <1> QED
    BY <1>1 DEF RowSound

LEMMA ReadRowSound ==
  ASSUME NEW row, NEW latest, RowSound(row, latest)
  PROVE  RowSound(Read(row), latest) /\ (row.status = "ready" => Read(row) = row)
  BY FailedRowSound DEF Read, RowSound

LEMMA ClaimedRowSound ==
  ASSUME NEW row, NEW latest, RowSound(row, latest), NEW r, row.status \in {"pending", "failed"}
  PROVE  RowSound([row EXCEPT !.status = "pending", !.holder = r, !.fresh = TRUE], r)
  <1> DEFINE new == [row EXCEPT !.status = "pending", !.holder = r, !.fresh = TRUE]
  <1>1. /\ DOMAIN new = DraftFields
        /\ new.status = "pending" /\ new.holder = r /\ new.answer = row.answer
    BY DEF RowSound
  <1> HIDE DEF new
  <1> QED
    BY <1>1 DEF RowSound

\* A result is a draft with an answer that can be read, or a failure.
LEMMA ResultRowSound ==
  ASSUME NEW row, NEW latest, RowSound(row, latest), row.status = "pending",
         NEW answer \in Answers, NEW decided
  PROVE  /\ RowSound([Validated(row, answer, decided) EXCEPT !.holder = None], latest)
         /\ Validated(row, answer, decided).status \in {"ready", "failed"}
  <1> DEFINE copied == Validated(row, answer, decided)
             new == [copied EXCEPT !.holder = None]
  <1>1. IsAnswer(answer)
    BY DraftAssumption
  <1>2. /\ DOMAIN copied = DraftFields
        /\ IF Readable(answer) THEN copied.status = "ready" /\ copied.answer = answer
                               ELSE copied.status = "failed" /\ copied.answer = row.answer
    BY DEF Validated, RowSound
  <1> HIDE DEF copied
  <1>3. /\ DOMAIN new = DraftFields /\ new.holder = None
        /\ new.status = copied.status /\ new.answer = copied.answer
    BY <1>2
  <1> HIDE DEF new
  <1>4. RowSound(new, latest) /\ copied.status \in {"ready", "failed"}
    BY <1>1, <1>2, <1>3 DEF RowSound
  <1> QED
    BY <1>4 DEF new, copied

\* What an edit writes is sound, and leaves the columns of the lease.
LEMMA EditedIsAnswer ==
  ASSUME NEW answer, IsAnswer(answer), Readable(answer), NEW edit
  PROVE  IsAnswer(Edited(answer, edit)) /\ Readable(Edited(answer, edit))
  <1> DEFINE new == Edited(answer, edit)
  <1>1. /\ DOMAIN new = AnswerFields
        /\ new.phases = answer.phases /\ new.weeks = answer.weeks
        /\ DOMAIN new.items = DOMAIN answer.items
    BY DEF Edited, IsAnswer, AnswerFields
  <1>2. ASSUME NEW i \in DOMAIN answer.items
        PROVE  DOMAIN new.items[i] = WorkFields /\ new.items[i].week = answer.items[i].week
    <2>1. DOMAIN answer.items[i] = WorkFields
      BY DEF IsAnswer
    <2>2. new.items[i] = IF i \in DOMAIN edit.estimates
                         THEN [answer.items[i] EXCEPT !.minutes = edit.estimates[i], !.sure = TRUE]
                         ELSE answer.items[i]
      BY DEF Edited, IsAnswer, AnswerFields
    <2> HIDE DEF new
    <2> QED
      BY <2>1, <2>2 DEF WorkFields
  <1> HIDE DEF new
  <1>3. IsAnswer(new)
    BY <1>1, <1>2 DEF IsAnswer
  <1>4. Readable(new)
    BY <1>1, <1>2 DEF Readable, Keys
  <1> QED
    BY <1>3, <1>4 DEF new

LEMMA FlushedRowSound ==
  ASSUME NEW row, NEW latest, RowSound(row, latest), row.status = "ready", NEW e,
         DOMAIN e.write = DraftFields,
         e.write.status = e.read.status, e.write.holder = e.read.holder,
         e.write.answer # None => IsAnswer(e.write.answer) /\ Readable(e.write.answer)
  PROVE  /\ RowSound(Flushed(row, e.read, e.write), latest)
         /\ Flushed(row, e.read, e.write).status = "ready"
         /\ Flushed(row, e.read, e.write).holder = row.holder
  <1> DEFINE new == Flushed(row, e.read, e.write)
  <1>1. /\ DOMAIN new = DraftFields
        /\ new.status = row.status /\ new.holder = row.holder
        /\ new.answer \in {row.answer, e.write.answer}
    BY DEF Flushed, RowSound
  <1> HIDE DEF new
  <1>2. RowSound(new, latest) /\ new.status = "ready" /\ new.holder = row.holder
    BY <1>1 DEF RowSound
  <1> QED
    BY <1>2 DEF new

(***************************************************************************)
(* What the lease sees of a row and of a request                           *)
(***************************************************************************)
LEMMA LeaseOfRow ==
  ASSUME DInv, NEW d \in Drafts, NEW row, draft' = [draft EXCEPT ![d] = row],
         \A e \in Drafts \ {d} : lineage'[e].latest = lineage[e].latest
  PROVE  /\ LeasePhase' = [LeasePhase EXCEPT ![d] = PhaseOf(row)]
         /\ LeaseHolder' = [LeaseHolder EXCEPT ![d] =
                IF PhaseOf(row) = "held" THEN lineage'[d].latest ELSE None]
  <1>1. /\ draft'[d] = row /\ \A e \in Drafts \ {d} : draft'[e] = draft[e]
    BY DEF DInv, RowsSound
  <1>2. LeasePhase' = [LeasePhase EXCEPT ![d] = PhaseOf(row)]
    <2>1. LeasePhase' = [e \in Drafts |-> PhaseOf(draft'[e])]
      BY DEF LeasePhase, PhaseOf
    <2>2. LeasePhase = [e \in Drafts |-> PhaseOf(draft[e])]
      BY DEF LeasePhase
    <2> QED
      BY <1>1, <2>1, <2>2
  <1>3. \A e \in Drafts \ {d} : LeaseHolder'[e] = LeaseHolder[e]
    BY <1>1 DEF LeaseHolder
  <1>4. LeaseHolder'[d] = IF PhaseOf(row) = "held" THEN lineage'[d].latest ELSE None
    BY <1>1 DEF LeaseHolder
  <1>5. LeaseHolder' = [e \in Drafts |-> LeaseHolder'[e]] /\ DOMAIN LeaseHolder = Drafts
    BY DEF LeaseHolder
  <1>6. LeaseHolder' = [LeaseHolder EXCEPT ![d] =
            IF PhaseOf(row) = "held" THEN lineage'[d].latest ELSE None]
    BY <1>3, <1>4, <1>5
  <1> QED
    BY <1>2, <1>6

LEMMA LeaseRowRests ==
  ASSUME DInv, NEW d \in Drafts, NEW row, draft' = [draft EXCEPT ![d] = row],
         PhaseOf(row) = PhaseOf(draft[d]),
         \A e \in Drafts : lineage'[e].latest = lineage[e].latest
  PROVE  LeasePhase' = LeasePhase /\ LeaseHolder' = LeaseHolder
  <1>1. \A e \in Drafts : PhaseOf(draft'[e]) = PhaseOf(draft[e])
    BY DEF DInv, RowsSound
  <1> QED
    BY <1>1 DEF LeasePhase, LeaseHolder

LEMMA LeaseDone ==
  ASSUME DInv, NEW r \in Workers, Done(r)
  PROVE  /\ LeaseAt' = [LeaseAt EXCEPT ![r] = None]
         /\ import'[r] = NoImport /\ \A q \in Workers \ {r} : import'[q] = import[q]
         /\ DOMAIN import' = Workers
  BY DEF DInv, ImportsSound, Done, LeaseAt, At, NoImport

LEMMA LeaseGoTo ==
  ASSUME DInv, NEW r \in Workers, ~At(r, "none"), ~At(r, "claim"),
         NEW step, step.at \notin {"none", "claim"}, step.draft = import[r].draft,
         import' = [import EXCEPT ![r] = step]
  PROVE  LeaseAt' = LeaseAt
  <1>1. DOMAIN import' = Workers /\ \A q \in Workers : import'[q] = IF q = r THEN step ELSE import[q]
    BY DEF DInv, ImportsSound
  <1> QED
    BY <1>1 DEF LeaseAt, At

LEMMA NoImportSound == ImportSound(draft, NoImport)
  BY DEF ImportSound, NoImport

LEMMA ImportsWith ==
  ASSUME DInv, NEW r \in Workers, NEW step, ImportSound(draft', step),
         import' = [import EXCEPT ![r] = step],
         \A s : ImportSound(draft, s) => ImportSound(draft', s)
  PROVE  ImportsSound'
  BY DEF DInv, ImportsSound

(***************************************************************************)
(* The steps                                                               *)
(***************************************************************************)
Maps == DInv' /\ [Lease!Next]_Lease!leaseVars

LEMMA PreviewGuideMaps ==
  ASSUME DInv, NEW r \in Workers, NEW d \in Drafts, PreviewGuide(r, d)
  PROVE  Maps
  <1> DEFINE step == [draft |-> d, at |-> "claim", expects |-> "pending", got |-> None,
                      decided |-> Undecided]
  <1>1. /\ At(r, "none") /\ draft[d].status = "none"
        /\ draft' = [draft EXCEPT ![d] = Fresh] /\ import' = [import EXCEPT ![r] = step]
        /\ editing' = editing /\ lineage' = lineage
    BY DEF PreviewGuide, Stored
  <1>2. RowSound(Fresh, lineage'[d].latest) /\ Fresh.status = "pending" /\ PhaseOf(Fresh) = "open"
    BY DEF RowSound, Fresh, PhaseOf
  <1>3. LineageSound'
    BY <1>1 DEF DInv, LineageSound
  <1>4. /\ RowsSound'
        /\ \A s : ImportSound(draft, s) => ImportSound(draft', s)
        /\ \A e : EditSound(draft, e) => EditSound(draft', e)
    BY <1>1, <1>2, <1>3, OneRowRewritten
  <1>5. ImportSound(draft', step)
    BY <1>1, <1>2 DEF ImportSound, DInv, RowsSound
  <1>6. ImportsSound'
    BY <1>1, <1>4, <1>5, ImportsWith
  <1>7. EditsSound'
    BY <1>1, <1>4 DEF DInv, EditsSound
  <1>8. LeaseAt' = LeaseAt
    BY <1>1 DEF LeaseAt, At, DInv, ImportsSound
  <1>9. /\ LeasePhase' = [LeasePhase EXCEPT ![d] = "open"]
        /\ LeaseHolder' = [LeaseHolder EXCEPT ![d] = None]
    <2>1. /\ LeasePhase' = [LeasePhase EXCEPT ![d] = PhaseOf(Fresh)]
          /\ LeaseHolder' = [LeaseHolder EXCEPT ![d] =
                 IF PhaseOf(Fresh) = "held" THEN lineage'[d].latest ELSE None]
      BY <1>1, LeaseOfRow
    <2> QED
      BY <1>2, <2>1
  <1>10. LeasePhase[d] = "none" /\ LeaseHolder[d] = None
    BY <1>1 DEF LeasePhase, LeaseHolder, PhaseOf
  <1>11. LeaseHolder' = LeaseHolder
    BY <1>9, <1>10 DEF LeaseHolder
  <1>12. Lease!Submit(d)
    BY <1>8, <1>9, <1>10, <1>11 DEF Lease!Submit
  <1> QED
    BY <1>3, <1>4, <1>6, <1>7, <1>12 DEF Maps, DInv, Lease!Next

\* What is left to show of the invariant when one row and one request move.
LEMMA RowAndImportKeep ==
  ASSUME DInv, NEW d \in Drafts, NEW row, draft' = [draft EXCEPT ![d] = row],
         RowSound(row, lineage[d].latest),
         draft[d].status # "none" => row.status # "none",
         draft[d].status = "ready" => row.status = "ready",
         NEW r \in Workers, NEW step, import' = [import EXCEPT ![r] = step],
         ImportSound(draft, step), UNCHANGED <<editing, lineage>>
  PROVE  DInv'
  <1>1. LineageSound'
    BY DEF DInv, LineageSound
  <1>2. /\ RowsSound'
        /\ \A s : ImportSound(draft, s) => ImportSound(draft', s)
        /\ \A e : EditSound(draft, e) => EditSound(draft', e)
    BY <1>1, OneRowRewritten
  <1>3. ImportsSound'
    BY <1>2, ImportsWith
  <1>4. EditsSound'
    BY <1>2 DEF DInv, EditsSound
  <1> QED
    BY <1>1, <1>2, <1>3, <1>4 DEF DInv

LEMMA RowKeeps ==
  ASSUME DInv, NEW d \in Drafts, NEW row, draft' = [draft EXCEPT ![d] = row],
         RowSound(row, lineage[d].latest),
         draft[d].status # "none" => row.status # "none",
         draft[d].status = "ready" => row.status = "ready",
         UNCHANGED <<import, editing, lineage>>
  PROVE  DInv'
  <1>1. LineageSound'
    BY DEF DInv, LineageSound
  <1>2. /\ RowsSound'
        /\ \A s : ImportSound(draft, s) => ImportSound(draft', s)
        /\ \A e : EditSound(draft, e) => EditSound(draft', e)
    BY <1>1, OneRowRewritten
  <1>3. ImportsSound' /\ EditsSound'
    BY <1>2 DEF DInv, EditsSound, ImportsSound
  <1> QED
    BY <1>1, <1>2, <1>3 DEF DInv

LEMMA ImportKeeps ==
  ASSUME DInv, NEW r \in Workers, NEW step, import' = [import EXCEPT ![r] = step],
         ImportSound(draft, step), UNCHANGED <<draft, editing, lineage>>
  PROVE  DInv'
  BY DEF DInv, LineageSound, RowsSound, EditsSound, ImportsSound

\* Where no row changes, the lease of the rows does not.
LEMMA LeaseRests ==
  ASSUME draft' = draft, \A e \in Drafts : lineage'[e].latest = lineage[e].latest
  PROVE  LeasePhase' = LeasePhase /\ LeaseHolder' = LeaseHolder
  BY DEF LeasePhase, LeaseHolder

\* A row that somebody read: its lease has lapsed, or nothing changed.
LEMMA ReadLapses ==
  ASSUME DInv, NEW d \in Stored, draft' = [draft EXCEPT ![d] = Read(draft[d])],
         LeaseAt' = LeaseAt, lineage' = lineage
  PROVE  [Lease!Next]_Lease!leaseVars
  <1>1. /\ d \in Drafts /\ draft[d].status # "none"
        /\ RowSound(draft[d], lineage[d].latest)
    BY DEF Stored, DInv, RowsSound
  <1> DEFINE row == Read(draft[d])
  <1>2. draft' = [draft EXCEPT ![d] = row]
    OBVIOUS
  <1>3. row # draft[d] => PhaseOf(row) = "open" /\ PhaseOf(draft[d]) \in {"open", "held"}
    <2>1. CASE draft[d].status = "pending" /\ ~draft[d].fresh
      <3>1. row.status = "failed"
        BY <1>1, <2>1 DEF Read, RowSound
      <3> HIDE DEF row
      <3> QED
        BY <2>1, <3>1 DEF PhaseOf
    <2>2. CASE ~(draft[d].status = "pending" /\ ~draft[d].fresh)
      BY <2>2 DEF Read
    <2> QED
      BY <2>1, <2>2
  <1> HIDE DEF row
  <1>4. CASE PhaseOf(row) = PhaseOf(draft[d])
    <2>1. LeasePhase' = LeasePhase /\ LeaseHolder' = LeaseHolder
      BY <1>1, <1>2, <1>4, LeaseRowRests
    <2> QED
      BY <2>1 DEF Lease!leaseVars
  <1>5. CASE PhaseOf(row) = "open" /\ PhaseOf(draft[d]) = "held"
    <2>1. /\ LeasePhase' = [LeasePhase EXCEPT ![d] = "open"]
          /\ LeaseHolder' = [LeaseHolder EXCEPT ![d] = None]
      <3>1. /\ LeasePhase' = [LeasePhase EXCEPT ![d] = PhaseOf(row)]
            /\ LeaseHolder' = [LeaseHolder EXCEPT ![d] =
                   IF PhaseOf(row) = "held" THEN lineage'[d].latest ELSE None]
        BY <1>1, <1>2, LeaseOfRow
      <3> QED
        BY <1>5, <3>1
    <2>2. LeasePhase[d] = "held"
      BY <1>1, <1>5 DEF LeasePhase
    <2>3. Lease!Lapse(d)
      BY <2>1, <2>2 DEF Lease!Lapse
    <2> QED
      BY <1>1, <2>3 DEF Lease!Next
  <1> QED
    BY <1>3, <1>4, <1>5

LEMMA RetryPreviewMaps ==
  ASSUME DInv, NEW r \in Workers, NEW d \in Drafts, RetryPreview(r, d)
  PROVE  Maps
  <1> DEFINE step == [draft |-> d, at |-> "claim", expects |-> "failed", got |-> None,
                      decided |-> Undecided]
             row == Read(draft[d])
  <1>1. /\ At(r, "none") /\ d \in Stored /\ draft[d].status # "none"
        /\ draft' = [draft EXCEPT ![d] = row] /\ import' = [import EXCEPT ![r] = step]
        /\ editing' = editing /\ lineage' = lineage
    BY DEF RetryPreview, Stored
  <1>2. RowSound(row, lineage[d].latest) /\ row.status # "none"
        /\ (draft[d].status = "ready" => row.status = "ready")
    BY <1>1, ReadRowSound DEF RetryPreview, DInv, RowsSound
  <1>3. ImportSound(draft, step)
    BY <1>1 DEF ImportSound
  <1>4. DInv'
    <2> HIDE DEF row, step
    <2> QED
      BY <1>1, <1>2, <1>3, RowAndImportKeep
  <1>5. LeaseAt' = LeaseAt
    BY <1>1 DEF LeaseAt, At, DInv, ImportsSound
  <1> QED
    BY <1>1, <1>4, <1>5, ReadLapses DEF Maps

LEMMA GetPreviewMaps ==
  ASSUME DInv, NEW d \in Drafts, GetPreview(d)
  PROVE  Maps
  <1> DEFINE row == Read(draft[d])
  <1>1. /\ d \in Stored /\ draft[d].status # "none" /\ draft' = [draft EXCEPT ![d] = row]
        /\ UNCHANGED <<import, editing, lineage>>
    BY DEF GetPreview, Stored
  <1>2. RowSound(row, lineage[d].latest) /\ row.status # "none"
        /\ (draft[d].status = "ready" => row.status = "ready")
    <2>1. RowSound(draft[d], lineage[d].latest)
      BY DEF DInv, RowsSound
    <2>2. RowSound(row, lineage[d].latest) /\ (draft[d].status = "ready" => row = draft[d])
      BY <2>1, ReadRowSound
    <2>3. row.status # "none"
      <3>1. CASE row = draft[d]
        BY <1>1, <3>1
      <3>2. CASE row = [draft[d] EXCEPT !.status = "failed", !.holder = None]
        BY <2>1, <3>2 DEF RowSound
      <3> QED
        BY <3>1, <3>2 DEF Read
    <2> QED
      BY <2>2, <2>3
  <1>3. DInv'
    <2> HIDE DEF row
    <2> QED
      BY <1>1, <1>2, RowKeeps
  <1>4. LeaseAt' = LeaseAt
    BY <1>1 DEF LeaseAt, At
  <1> QED
    BY <1>1, <1>3, <1>4, ReadLapses DEF Maps

LEMMA ClaimMaps ==
  ASSUME DInv, NEW r \in Workers, Claim(r)
  PROVE  Maps
  <1> DEFINE d == import[r].draft
             row == [draft[d] EXCEPT !.status = "pending", !.holder = r, !.fresh = TRUE]
             step == [import[r] EXCEPT !.at = "call", !.decided = DecidedOn(draft[d])]
  <1>1. /\ d \in Drafts /\ draft[d].status # "none" /\ RowSound(draft[d], lineage[d].latest)
        /\ At(r, "claim") /\ import[r].expects \in {"pending", "failed"}
        /\ ImportSound(draft, import[r])
    BY ImportHasDraft DEF Claim, At, Stored, DInv, ImportsSound
  <1>2. CASE Claimable(draft[d], import[r].expects)
    <2>1. /\ draft' = [draft EXCEPT ![d] = row] /\ import' = [import EXCEPT ![r] = step]
          /\ lineage' = [lineage EXCEPT ![d].latest = r] /\ editing' = editing
      BY <1>2 DEF Claim
    <2>2. /\ LineageSound' /\ lineage'[d].latest = r
          /\ \A e \in Drafts \ {d} : lineage'[e].latest = lineage[e].latest
      BY <1>1, <2>1 DEF DInv, LineageSound
    <2>3. draft[d].status \in {"pending", "failed"}
          /\ (draft[d].status = "pending" => draft[d].holder = None)
      BY <1>1, <1>2 DEF Claimable
    <2>4. RowSound(row, r) /\ row.status = "pending" /\ row.holder = r
      BY <1>1, <2>3, ClaimedRowSound DEF RowSound
    <2>5. ImportSound(draft, step) /\ step.at = "call" /\ step.draft = d
      BY <1>1 DEF ImportSound, At
    <2> HIDE DEF row, step
    <2>6. /\ RowsSound'
          /\ \A s : ImportSound(draft, s) => ImportSound(draft', s)
          /\ \A e : EditSound(draft, e) => EditSound(draft', e)
      BY <1>1, <2>1, <2>2, <2>3, <2>4, OneRowRewritten
    <2>7. ImportsSound'
      BY <2>1, <2>5, <2>6, ImportsWith
    <2>8. EditsSound'
      BY <2>1, <2>6 DEF DInv, EditsSound
    <2>9. r # None /\ PhaseOf(row) = "held"
      BY <2>4, DraftAssumption DEF PhaseOf
    <2>10. /\ LeasePhase' = [LeasePhase EXCEPT ![d] = "held"]
           /\ LeaseHolder' = [LeaseHolder EXCEPT ![d] = r]
      <3>1. /\ LeasePhase' = [LeasePhase EXCEPT ![d] = PhaseOf(row)]
            /\ LeaseHolder' = [LeaseHolder EXCEPT ![d] =
                   IF PhaseOf(row) = "held" THEN lineage'[d].latest ELSE None]
        BY <1>1, <2>1, <2>2, LeaseOfRow
      <3> QED
        BY <2>2, <2>9, <3>1
    <2>11. LeasePhase[d] = "open"
      BY <1>1, <2>3 DEF LeasePhase, PhaseOf
    <2>12. LeaseAt[r] = None
      BY <1>1 DEF LeaseAt
    <2>13. LeaseAt' = [LeaseAt EXCEPT ![r] = d]
      <3>1. \A q \in Workers : import'[q] = IF q = r THEN step ELSE import[q]
        BY <2>1 DEF DInv, ImportsSound
      <3> QED
        BY <2>5, <3>1 DEF LeaseAt, At
    <2>14. Lease!Claim(r, d)
      BY <2>10, <2>11, <2>12, <2>13 DEF Lease!Claim
    <2> QED
      BY <1>1, <2>2, <2>6, <2>7, <2>8, <2>14 DEF Maps, DInv, Lease!Next
  <1>3. CASE ~Claimable(draft[d], import[r].expects)
    <2>1. Done(r) /\ UNCHANGED <<draft, editing, lineage>>
      BY <1>3 DEF Claim
    <2>2. DInv'
      BY <2>1, ImportKeeps, NoImportSound DEF Done
    <2>3. LeasePhase' = LeasePhase /\ LeaseHolder' = LeaseHolder
      BY <2>1, LeaseRests
    <2>4. LeaseAt' = LeaseAt
      <3>1. LeaseAt' = [LeaseAt EXCEPT ![r] = None] /\ LeaseAt[r] = None
        BY <1>1, <2>1, LeaseDone DEF LeaseAt
      <3> QED
        BY <3>1 DEF LeaseAt
    <2> QED
      BY <2>2, <2>3, <2>4 DEF Maps, Lease!leaseVars
  <1> QED
    BY <1>2, <1>3

\* A request goes on, with or without an answer, and the lease does not notice.
LEMMA GoesOn ==
  ASSUME DInv, NEW r \in Workers, At(r, "call") \/ At(r, "called") \/ At(r, "store"),
         NEW at \in {"called", "store", "fail"}, NEW got \in Answers \cup {None},
         import' = [import EXCEPT ![r] = [import[r] EXCEPT !.at = at, !.got = got]],
         UNCHANGED <<draft, editing, lineage>>
  PROVE  Maps
  <1> DEFINE step == [import[r] EXCEPT !.at = at, !.got = got]
  <1>1. ImportSound(draft, import[r])
    BY DEF DInv, ImportsSound
  <1>2. ImportSound(draft, step) /\ step.at = at /\ step.draft = import[r].draft
    BY <1>1 DEF ImportSound, At
  <1>3. import' = [import EXCEPT ![r] = step]
    OBVIOUS
  <1> HIDE DEF step
  <1>4. DInv'
    BY <1>2, <1>3, ImportKeeps
  <1>5. LeaseAt' = LeaseAt
    BY <1>2, <1>3, LeaseGoTo DEF At
  <1>6. LeasePhase' = LeasePhase /\ LeaseHolder' = LeaseHolder
    BY LeaseRests
  <1> QED
    BY <1>4, <1>5, <1>6 DEF Maps, Lease!leaseVars

\* GoTo, which keeps what the request has got.
LEMMA GoToGoesOn ==
  ASSUME DInv, NEW r \in Workers, NEW at, GoTo(r, at)
  PROVE  /\ import' = [import EXCEPT ![r] = [import[r] EXCEPT !.at = at, !.got = import[r].got]]
         /\ import[r].got \in Answers \cup {None}
  <1>1. DOMAIN import = Workers /\ ImportSound(draft, import[r])
    BY DEF DInv, ImportsSound
  <1>2. [import[r] EXCEPT !.at = at] = [import[r] EXCEPT !.at = at, !.got = import[r].got]
    BY <1>1 DEF ImportSound
  <1> QED
    BY <1>1, <1>2 DEF GoTo, ImportSound

LEMMA AuthorizeMaps ==
  ASSUME DInv, NEW r \in Workers, Authorize(r)
  PROVE  Maps
  <1>1. PICK at \in {"called", "fail"} : GoTo(r, at)
    BY DEF Authorize
  <1> QED
    BY <1>1, GoToGoesOn, GoesOn DEF Authorize

LEMMA AnswerMaps ==
  ASSUME DInv, NEW r \in Workers, NEW answer \in Answers \cup {None}, Answer(r, answer)
  PROVE  Maps
  <1>1. import' = [import EXCEPT ![r] = [import[r] EXCEPT !.at = "store", !.got = answer]]
    BY DEF Answer
  <1> QED
    BY <1>1, GoesOn DEF Answer

LEMMA CancelCallMaps ==
  ASSUME DInv, NEW r \in Workers, CancelCall(r)
  PROVE  Maps
  <1>1. GoTo(r, "fail") /\ (At(r, "call") \/ At(r, "called"))
        /\ UNCHANGED <<draft, editing, lineage>>
    BY DEF CancelCall, Working
  <1> QED
    BY <1>1, GoToGoesOn, GoesOn

LEMMA DieMaps ==
  ASSUME DInv, NEW r \in Workers, Die(r)
  PROVE  Maps
  <1>1. Done(r) /\ UNCHANGED <<draft, editing, lineage>>
    BY DEF Die
  <1>2. DInv'
    BY <1>1, ImportKeeps, NoImportSound DEF Done
  <1>3. LeasePhase' = LeasePhase /\ LeaseHolder' = LeaseHolder
    BY <1>1, LeaseRests
  <1>4. LeaseAt' = [LeaseAt EXCEPT ![r] = None]
    BY <1>1, LeaseDone
  <1>5. CASE LeaseAt[r] = None
    BY <1>2, <1>3, <1>4, <1>5 DEF Maps, Lease!leaseVars, LeaseAt
  <1>6. CASE LeaseAt[r] # None
    <2>1. Lease!GiveUp(r)
      BY <1>3, <1>4, <1>6 DEF Lease!GiveUp
    <2> QED
      BY <1>2, <2>1 DEF Maps, Lease!Next
  <1> QED
    BY <1>5, <1>6

\* A request that still holds the lease ends the import, with a result or a failure.
LEMMA FinishMaps ==
  ASSUME DInv, NEW r \in Workers, At(r, "store") \/ At(r, "fail"), Mine(r), Done(r),
         NEW row, draft' = [draft EXCEPT ![import[r].draft] = row],
         RowSound(row, lineage[import[r].draft].latest), row.status \in {"ready", "failed"},
         UNCHANGED <<editing, lineage>>
  PROVE  Maps
  <1> DEFINE d == import[r].draft
  <1>1. /\ d \in Drafts /\ draft[d].status = "pending" /\ draft[d].holder = r
        /\ RowSound(draft[d], lineage[d].latest)
    BY ImportHasDraft DEF Mine, At, Stored
  <1>2. lineage[d].latest = r /\ r # None /\ None \notin Drafts
    BY <1>1, DraftAssumption DEF RowSound
  <1>3. LeasePhase[d] = "held" /\ LeaseHolder[d] = r
    BY <1>1, <1>2 DEF LeasePhase, LeaseHolder, PhaseOf
  <1>4. LeaseAt[r] = d
    BY DEF LeaseAt, At
  <1>5. PhaseOf(row) \in {"done", "open"}
    BY DEF PhaseOf
  <1> HIDE DEF d
  <1>6. draft' = [draft EXCEPT ![d] = row] /\ RowSound(row, lineage[d].latest)
    BY DEF d
  <1>7. DInv'
    BY <1>1, <1>6, RowAndImportKeep, NoImportSound DEF Done
  <1>8. /\ LeasePhase' = [LeasePhase EXCEPT ![d] = PhaseOf(row)]
        /\ LeaseHolder' = [LeaseHolder EXCEPT ![d] =
               IF PhaseOf(row) = "held" THEN lineage'[d].latest ELSE None]
    BY <1>1, <1>6, LeaseOfRow
  <1>9. LeaseHolder' = [LeaseHolder EXCEPT ![d] = None]
    BY <1>5, <1>8
  <1>10. LeaseAt' = [LeaseAt EXCEPT ![r] = None]
    BY LeaseDone
  <1>11. Lease!Finish(r, d)
    BY <1>3, <1>4, <1>5, <1>8, <1>9, <1>10 DEF Lease!Finish
  <1> QED
    BY <1>1, <1>7, <1>11 DEF Maps, Lease!Next

LEMMA StoreResultMaps ==
  ASSUME DInv, NEW r \in Workers, StoreResult(r)
  PROVE  Maps
  <1> DEFINE d == import[r].draft
             row == ResultOn(draft[d], r)
  <1>1. /\ At(r, "store") /\ d \in Drafts /\ RowSound(draft[d], lineage[d].latest)
        /\ import[r].got \in Answers \cup {None}
    BY ImportHasDraft DEF StoreResult, At, Stored, DInv, ImportsSound, ImportSound
  <1>2. CASE Mine(r)
    <2>1. draft' = [draft EXCEPT ![d] = row] /\ Done(r) /\ UNCHANGED <<editing, lineage>>
      BY <1>2 DEF StoreResult
    <2>2. draft[d].status = "pending"
      BY <1>2 DEF Mine
    <2>3. RowSound(row, lineage[d].latest) /\ row.status \in {"ready", "failed"}
      <3>1. CASE import[r].got = None
        <4>1. row = [[draft[d] EXCEPT !.status = "failed"] EXCEPT !.holder = None]
          BY <3>1 DEF ResultOn
        <4>2. /\ DOMAIN row = DraftFields /\ row.status = "failed" /\ row.holder = None
              /\ row.answer = draft[d].answer
          BY <1>1, <4>1 DEF RowSound
        <4> HIDE DEF row
        <4> QED
          BY <1>1, <2>2, <4>2 DEF RowSound
      <3>2. CASE import[r].got # None
        <4> DEFINE copied == Validated(draft[d], import[r].got, import[r].decided)
        <4>1. row = [copied EXCEPT !.holder = None] /\ import[r].got \in Answers
          BY <1>1, <3>2 DEF ResultOn
        <4>2. /\ RowSound([copied EXCEPT !.holder = None], lineage[d].latest)
              /\ copied.status \in {"ready", "failed"}
          BY <1>1, <2>2, <4>1, ResultRowSound
        <4> HIDE DEF row, copied
        <4>3. row.status = copied.status
          BY <4>1, <4>2
        <4> QED
          BY <4>1, <4>2, <4>3
      <3> QED
        BY <3>1, <3>2
    <2> HIDE DEF row
    <2> QED
      BY <1>1, <1>2, <2>1, <2>3, FinishMaps
  <1>3. CASE ~Mine(r)
    <2>1. GoTo(r, "fail") /\ UNCHANGED <<draft, editing, lineage>>
      BY <1>3 DEF StoreResult
    <2> QED
      BY <1>1, <2>1, GoToGoesOn, GoesOn
  <1> QED
    BY <1>2, <1>3

LEMMA StoreFailureMaps ==
  ASSUME DInv, NEW r \in Workers, StoreFailure(r)
  PROVE  Maps
  <1> DEFINE d == import[r].draft
             row == [draft[d] EXCEPT !.status = "failed", !.holder = None]
  <1>1. /\ At(r, "fail") /\ d \in Drafts /\ RowSound(draft[d], lineage[d].latest)
        /\ Done(r) /\ UNCHANGED <<editing, lineage>>
    BY ImportHasDraft DEF StoreFailure, At, Stored
  <1>2. CASE Mine(r)
    <2>1. draft' = [draft EXCEPT ![d] = row] /\ draft[d].status = "pending"
      BY <1>2 DEF StoreFailure, Mine
    <2>2. RowSound(row, lineage[d].latest) /\ row.status = "failed"
      BY <1>1, <2>1, FailedRowSound DEF RowSound
    <2> HIDE DEF row
    <2> QED
      BY <1>1, <1>2, <2>1, <2>2, FinishMaps
  <1>3. CASE ~Mine(r)
    <2> DEFINE same == draft[d]
    <2>1. draft' = [draft EXCEPT ![d] = same]
      BY <1>3 DEF StoreFailure
    <2>2. LeasePhase' = LeasePhase /\ LeaseHolder' = LeaseHolder
      <3> HIDE DEF d
      <3> QED
        BY <1>1, <2>1, LeaseRowRests
    <2>3. DInv'
      <3> HIDE DEF d
      <3> QED
        BY <1>1, <2>1, RowAndImportKeep, NoImportSound DEF Done
    <2>4. LeaseAt' = [LeaseAt EXCEPT ![r] = None]
      BY <1>1, LeaseDone
    <2>5. LeaseAt[r] = d /\ d # None
      BY <1>1, DraftAssumption DEF LeaseAt, At
    <2>6. Lease!GiveUp(r)
      BY <2>2, <2>4, <2>5 DEF Lease!GiveUp
    <2> QED
      BY <2>3, <2>6 DEF Maps, Lease!Next
  <1> QED
    BY <1>2, <1>3

\* The heartbeat, and the time that passes without one.
LEMMA RenewalMaps ==
  ASSUME DInv, NEW d \in Stored, NEW fresh, draft' = [draft EXCEPT ![d].fresh = fresh],
         UNCHANGED <<import, editing, lineage>>
  PROVE  Maps
  <1> DEFINE row == [draft[d] EXCEPT !.fresh = fresh]
  <1>1. d \in Drafts /\ draft[d].status # "none" /\ RowSound(draft[d], lineage[d].latest)
    BY DEF Stored, DInv, RowsSound
  <1>2. draft' = [draft EXCEPT ![d] = row]
    OBVIOUS
  <1>3. /\ RowSound(row, lineage[d].latest)
        /\ row.status = draft[d].status /\ row.holder = draft[d].holder
    BY <1>1, RenewedRowSound DEF RowSound
  <1> HIDE DEF row
  <1>4. DInv'
    BY <1>1, <1>2, <1>3, RowKeeps
  <1>5. PhaseOf(row) = PhaseOf(draft[d])
    BY <1>3 DEF PhaseOf
  <1>6. LeasePhase' = LeasePhase /\ LeaseHolder' = LeaseHolder
    BY <1>1, <1>2, <1>5, LeaseRowRests
  <1>7. LeaseAt' = LeaseAt
    BY DEF LeaseAt, At
  <1> QED
    BY <1>4, <1>6, <1>7 DEF Maps, Lease!leaseVars

LEMMA BeatMaps ==
  ASSUME DInv, NEW r \in Workers, Beat(r)
  PROVE  Maps
  <1>1. ~At(r, "none")
    BY DEF Beat, Working, At
  <1>2. import[r].draft \in Stored
    BY <1>1, ImportHasDraft
  <1> QED
    BY <1>2, RenewalMaps DEF Beat

LEMMA GoStaleMaps ==
  ASSUME DInv, NEW d \in Drafts, GoStale(d)
  PROVE  Maps
  BY RenewalMaps DEF GoStale

\* Editors and creations are nothing to the lease.
LEMMA BeginEditMaps ==
  ASSUME DInv, NEW c \in Editors, NEW d \in Drafts, NEW edit \in Edits, BeginEdit(c, d, edit)
  PROVE  Maps
  <1> DEFINE row == draft[d]
             decided == Decide(DecidedOn(row), edit)
             e == [draft |-> d, read |-> row,
                   write |-> Validated(row, Edited(row.answer, edit), decided)]
  <1>1. /\ row.answer # None /\ RowSound(row, lineage[d].latest)
        /\ editing' = [editing EXCEPT ![c] = e] /\ UNCHANGED <<draft, import, lineage>>
    BY DEF BeginEdit, DInv, RowsSound
  <1>2. /\ row.status = "ready" /\ IsAnswer(row.answer) /\ Readable(row.answer)
        /\ DOMAIN row = DraftFields
    BY <1>1 DEF RowSound
  <1>3. IsAnswer(Edited(row.answer, edit)) /\ Readable(Edited(row.answer, edit))
    BY <1>2, EditedIsAnswer
  <1>4. EditSound(draft, e)
    <2> DEFINE answer == Edited(row.answer, edit)
               write == Validated(row, answer, decided)
    <2>1. IsAnswer(answer) /\ Readable(answer)
      BY <1>3
    <2> HIDE DEF answer, decided
    <2>2. /\ DOMAIN write = DraftFields /\ write.status = "ready"
          /\ write.holder = row.holder /\ write.answer = answer
      BY <1>2, <2>1 DEF Validated
    <2>3. e.draft = d /\ e.read = row /\ e.write = write
      BY DEF answer
    <2> HIDE DEF write, e
    <2> QED
      BY <1>2, <2>1, <2>2, <2>3 DEF EditSound
  <1> HIDE DEF e
  <1>5. EditsSound'
    BY <1>1, <1>4 DEF DInv, EditsSound
  <1>6. LineageSound' /\ RowsSound' /\ ImportsSound'
    BY <1>1 DEF DInv, LineageSound, RowsSound, ImportsSound
  <1>7. LeasePhase' = LeasePhase /\ LeaseHolder' = LeaseHolder /\ LeaseAt' = LeaseAt
    BY <1>1 DEF LeasePhase, LeaseHolder, LeaseAt, At
  <1> QED
    BY <1>5, <1>6, <1>7 DEF Maps, DInv, Lease!leaseVars

LEMMA CommitEditMaps ==
  ASSUME DInv, NEW c \in Editors, CommitEdit(c)
  PROVE  Maps
  <1> DEFINE e == editing[c]
             d == e.draft
             row == Flushed(draft[d], e.read, e.write)
  <1>1. EditSound(draft, e)
    BY DEF CommitEdit, DInv, EditsSound
  <1>2. /\ d \in Drafts /\ draft[d].status = "ready" /\ RowSound(draft[d], lineage[d].latest)
        /\ DOMAIN e.write = DraftFields
        /\ e.write.status = e.read.status /\ e.write.holder = e.read.holder
        /\ e.write.answer # None => IsAnswer(e.write.answer) /\ Readable(e.write.answer)
    BY <1>1 DEF EditSound, DInv, RowsSound
  <1>3. /\ draft' = [draft EXCEPT ![d] = row] /\ import' = import
        /\ editing' = [editing EXCEPT ![c] = None]
        /\ lineage' = [lineage EXCEPT ![d].ordered = @ /\ draft[d] = editing[c].read]
    BY DEF CommitEdit
  <1>4. LineageSound' /\ \A b \in Drafts : lineage'[b].latest = lineage[b].latest
    BY <1>2, <1>3 DEF DInv, LineageSound
  <1>5. /\ RowSound(row, lineage[d].latest) /\ row.status = "ready"
        /\ row.holder = draft[d].holder
    <2> HIDE DEF e, d
    <2> QED
      BY <1>2, FlushedRowSound
  <1>6. /\ RowsSound'
        /\ \A s : ImportSound(draft, s) => ImportSound(draft', s)
        /\ \A b : EditSound(draft, b) => EditSound(draft', b)
    <2> HIDE DEF e, d, row
    <2> QED
      BY <1>2, <1>3, <1>4, <1>5, OneRowRewritten
  <1>7. ImportsSound' /\ EditsSound'
    BY <1>3, <1>6 DEF DInv, ImportsSound, EditsSound
  <1>8. PhaseOf(row) = PhaseOf(draft[d])
    BY <1>2, <1>5 DEF PhaseOf
  <1>9. LeasePhase' = LeasePhase /\ LeaseHolder' = LeaseHolder
    <2> HIDE DEF e, d, row
    <2> QED
      BY <1>2, <1>3, <1>4, <1>8, LeaseRowRests
  <1>10. LeaseAt' = LeaseAt
    BY <1>3 DEF LeaseAt, At
  <1> QED
    BY <1>4, <1>6, <1>7, <1>9, <1>10 DEF Maps, DInv, Lease!leaseVars

LEMMA CreatePlanMaps ==
  ASSUME DInv, NEW d \in Drafts, CreatePlan(d)
  PROVE  Maps
  <1>1. UNCHANGED <<draft, import, editing, lineage>>
    BY DEF CreatePlan
  <1> QED
    BY <1>1
    DEF Maps, DInv, LineageSound, RowsSound, ImportsSound, EditsSound,
        LeasePhase, LeaseHolder, LeaseAt, At, Lease!leaseVars

LEMMA DraftInitHolds ==
  ASSUME DraftInit
  PROVE  DInv /\ Lease!Init
  <1>1. NoDraft.status = "none" /\ RowSound(NoDraft, None) /\ PhaseOf(NoDraft) = "none"
    BY DEF NoDraft, RowSound, PhaseOf
  <1>2. NoImport.at = "none" /\ ImportSound(draft, NoImport)
    BY DEF NoImport, ImportSound
  <1>3. LineageSound /\ RowsSound /\ ImportsSound /\ EditsSound
    BY <1>1, <1>2 DEF DraftInit, LineageSound, RowsSound, ImportsSound, EditsSound
  <1>4. /\ LeasePhase = [d \in Drafts |-> "none"] /\ LeaseHolder = [d \in Drafts |-> None]
        /\ LeaseAt = [r \in Workers |-> None]
    BY <1>1, <1>2 DEF DraftInit, LeasePhase, LeaseHolder, LeaseAt, At
  <1> QED
    BY <1>3, <1>4 DEF DInv, Lease!Init

LEMMA DraftNextMaps ==
  ASSUME DInv, [DraftNext]_draftVars
  PROVE  Maps
  <1>1. CASE UNCHANGED draftVars
    BY <1>1
    DEF draftVars, Maps, DInv, LineageSound, RowsSound, ImportsSound, EditsSound,
        LeasePhase, LeaseHolder, LeaseAt, At, Lease!leaseVars
  <1>2. ASSUME NEW r \in Workers, NEW d \in Drafts, PreviewGuide(r, d) \/ RetryPreview(r, d)
        PROVE  Maps
    BY <1>2, PreviewGuideMaps, RetryPreviewMaps
  <1>3. ASSUME NEW r \in Workers,
               \/ Claim(r) \/ Authorize(r) \/ StoreResult(r) \/ StoreFailure(r)
               \/ Beat(r) \/ CancelCall(r) \/ Die(r)
               \/ \E answer \in Answers \cup {None} : Answer(r, answer)
        PROVE  Maps
    BY <1>3, ClaimMaps, AuthorizeMaps, StoreResultMaps, StoreFailureMaps, BeatMaps,
       CancelCallMaps, DieMaps, AnswerMaps
  <1>4. ASSUME NEW d \in Drafts, GoStale(d) \/ GetPreview(d) \/ CreatePlan(d)
        PROVE  Maps
    BY <1>4, GoStaleMaps, GetPreviewMaps, CreatePlanMaps
  <1>5. ASSUME NEW c \in Editors,
               CommitEdit(c) \/ \E d \in Drafts, edit \in Edits : BeginEdit(c, d, edit)
        PROVE  Maps
    BY <1>5, CommitEditMaps, BeginEditMaps
  <1> QED
    BY <1>1, <1>2, <1>3, <1>4, <1>5 DEF DraftNext

\* A draft that has an answer is out of the reach of every import, and a holder is
\* the latest claim, whatever the requests do (study_plan.py, _claim_preview_import).
THEOREM DraftsStaySound == DraftSpec => []DInv
  <1>1. DraftInit => DInv
    BY DraftInitHolds
  <1>2. DInv /\ [DraftNext]_draftVars => DInv'
    BY DraftNextMaps DEF Maps
  <1> QED
    BY <1>1, <1>2, PTL DEF DraftSpec

\* The drafts implement the abstract lease: only the request that claimed a draft
\* last ends its import (_run_import, _lock_preview_result).
THEOREM DraftsAreLeased == DraftSpec => ImplementsLease
  <1>1. DraftInit => Lease!Init
    BY DraftInitHolds
  <1>2. DInv /\ [DraftNext]_draftVars => [Lease!Next]_Lease!leaseVars
    BY DraftNextMaps DEF Maps
  <1> QED
    BY <1>1, <1>2, DraftsStaySound, PTL DEF DraftSpec, ImplementsLease, Lease!Spec
=============================================================================
