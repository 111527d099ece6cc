------------------------------ MODULE StudyPlan ------------------------------
(***************************************************************************)
(* The study plans of one user (src/api/app/routers/study_plan.py,         *)
(* services/study_plan.py and the curriculum seed, seed_study_plan.py).    *)
(*                                                                         *)
(* A handler that changes a plan holds that plan's row from its first read *)
(* to its commit, so it is one action here.  What interleaves: the reads a *)
(* client made some time ago and now acts on; the switches of the active   *)
(* plan, which read and then pause a plan they have not locked; creations, *)
(* which hold only the account row; and the operator's curriculum upgrade, *)
(* which reads the ledger before it locks the plan.                        *)
(***************************************************************************)
EXTENDS PlanScheduler

CONSTANTS
    Clients,       \* that act on what they read
    Requests,      \* that make a plan active or create one
    Plans,         \* rows there may be; "none" until created
    SeedPlan,      \* the plan of the first-party curriculum
    Guide,         \* [weeks, items, default, deadline] of a new plan
    Releases,      \* of the curriculum: sequence of [items, fresh]
    Inputs,        \* what a client may ask of a replan
    Capacities, Estimates,
    MaxPlans,      \* MAX_STUDY_PLANS_PER_USER
    MaxLedger      \* bound on the revision rows of a plan

ASSUME PlanAssumption ==
    /\ SeedPlan \in Plans /\ IsFiniteSet(Plans)
    /\ MaxPlans \in Nat \ {0}
    /\ MaxLedger \in [Plans -> Nat \ {0}]
    /\ Plain \in Inputs

\* The guide has its items in its weeks; a release has items of the guide, the new
\* work it marks among them (_fresh_completion_keys reads the release's own items).
ASSUME GuideAssumption ==
    /\ \A i \in DOMAIN Guide.items : Guide.items[i].week \in DOMAIN Guide.weeks
    /\ Releases \in Seq([items : SUBSET DOMAIN Guide.items, fresh : SUBSET DOMAIN Guide.items])
    /\ Releases # << >>
    /\ \A v \in DOMAIN Releases : Releases[v].fresh \subseteq Releases[v].items

VARIABLES
    plans,      \* the rows of a plan and of its weeks, items and revisions
    view,       \* the item a client opened, or the proposal it was shown
    switch,     \* a request making a plan active or creating one, before it commits
    upgrade     \* the version and debt the operator's upgrade read

vars == <<plans, view, switch, upgrade>>

(***************************************************************************)
(* Rows                                                                    *)
(***************************************************************************)
Statuses == {"none", "active", "paused", "completed", "archived"}

NoPlan == [status |-> "none", rev |-> 0, default |-> 0, weeks |-> << >>,
           items |-> << >>, ledger |-> << >>]

Row(kind, base) ==
    [kind |-> kind, base |-> base, version |-> 0, fresh |-> {}, skipped |-> {}, resolved |-> {}]

\* A new item row: "content" is the release it shows, "seen" the release its
\* completer had open.
NewItem(def, version) ==
    [phase |-> def.phase, week |-> def.week, order |-> def.order, est |-> def.est,
     core |-> def.core, source |-> def.source, hard |-> def.hard,
     status |-> "pending", content |-> version, seen |-> None]

Exists(p) == plans[p].status # "none"
Existing == {p \in Plans : Exists(p)}
ActivePlans == {p \in Plans : plans[p].status = "active"}

\* active_plan: a plain read, which locks nothing.
ActivePlan == IF ActivePlans = {} THEN None ELSE CHOOSE p \in ActivePlans : TRUE

SchedPlan(p) == [default |-> plans[p].default, current |-> 1, deadline |-> Guide.deadline]

ProposalFor(p, in) == BuildProposal(SchedPlan(p), plans[p].weeks, plans[p].items, in)

\* The rows a switch of the active plan has locked.
LockedBy(r) == IF switch[r] = None \/ switch[r].kind = "create" THEN {} ELSE {switch[r].plan}

RowFree(p) == \A r \in Requests : p \notin LockedBy(r)

\* Creations and duplications hold the account row.
AccountFree == \A r \in Requests : switch[r] # None => switch[r].kind # "create"

CanRecord(p) == Len(plans[p].ledger) < MaxLedger[p]

\* _get_graph(for_update): the plan exists and its row is ours.
Locks(p) == Exists(p) /\ RowFree(p) /\ CanRecord(p)

ClaimedTwice(plan, row) == [plan EXCEPT !.rev = @ + 2, !.ledger = Append(@, row)]   \* mutant

\* A claim moves the revision on and leaves a ledger row with the base.
Claimed(plan, row) == [plan EXCEPT !.rev = @ + 1, !.ledger = Append(@, row)]

Recorded(plan, row) == [plan EXCEPT !.ledger = Append(@, row)]

(***************************************************************************)
(* Reading                                                                 *)
(***************************************************************************)
\* A client previews a replan: nothing is written.
Preview(c, p, in) ==
    /\ Exists(p)
    /\ view' = [view EXCEPT ![c] =
           [kind |-> "preview", plan |-> p, rev |-> plans[p].rev, in |-> in,
            placed |-> ProposalFor(p, in).placed,
            done |-> Pinned(plans[p].items, DOMAIN plans[p].items)]]
    /\ UNCHANGED <<plans, switch, upgrade>>

\* _available_item: a removed item is not found.
Available(p, i) == i \in DOMAIN plans[p].items /\ plans[p].items[i].status # "removed"

OpenItem(c, p, i) ==
    /\ Available(p, i)
    /\ view' = [view EXCEPT ![c] =
           [kind |-> "item", plan |-> p, rev |-> plans[p].rev, item |-> i,
            content |-> plans[p].items[i].content]]
    /\ UNCHANGED <<plans, switch, upgrade>>

Shows(c, kind) == view[c] # None /\ view[c].kind = kind

\* _require_current and the compare-and-swap of claim_plan_revision.  Elsewhere
\* the revision a request sends is left out: a request that sends an old one is
\* refused and changes nothing.
Current(c) == view[c].rev = plans[view[c].plan].rev

(***************************************************************************)
(* The schedule                                                            *)
(***************************************************************************)
\* apply_proposal: overrides, default and placements, in one transaction.  A
\* placement in a week that has no row is dropped.
WithProposal(plan, in, proposal) ==
    LET weeks == plan.weeks
        Moved(i) == i \in DOMAIN proposal.placed /\ proposal.placed[i] \in DOMAIN weeks
    IN  [plan EXCEPT
            !.default = IF in.default = None THEN @ ELSE in.default,
            !.weeks = [w \in DOMAIN weeks |->
                IF w \in DOMAIN in.over
                THEN [weeks[w] EXCEPT !.override = in.over[w]] ELSE weeks[w]],
            !.items = [i \in DOMAIN @ |->
                IF Moved(i) /\ @[i].week # proposal.placed[i]
                THEN [@[i] EXCEPT !.week = proposal.placed[i],
                                  !.phase = weeks[proposal.placed[i]].phase]
                ELSE @[i]]]

Deferred(plan, deferred) ==
    [plan EXCEPT !.items = [i \in DOMAIN @ |->
        IF i \in deferred THEN [@[i] EXCEPT !.status = "deferred"] ELSE @[i]]]

ApplyReplan(c) ==
    LET p == view[c].plan
        in == view[c].in
        proposal == ProposalFor(p, in)
    IN  /\ Shows(c, "preview")
        /\ Current(c)
        /\ Locks(p)
        /\ proposal.valid
        /\ \A i \in in.deferred \cap DOMAIN plans[p].items : plans[p].items[i].status # "removed"
        /\ plans' = [plans EXCEPT ![p] =
               Claimed(WithProposal(Deferred(@, in.deferred), in, proposal),
                       Row("replan", plans[p].rev))]
        /\ view' = [view EXCEPT ![c] = None]
        /\ UNCHANGED <<switch, upgrade>>

\* A capacity is saved at once only where nothing has to move.
SetCapacity(p, w, minutes) ==
    LET in == [Plain EXCEPT !.over = (w :> minutes)]
        proposal == ProposalFor(p, in)
    IN  /\ Locks(p)
        /\ w \in DOMAIN plans[p].weeks
        /\ proposal.valid /\ proposal.moves = {}
        /\ plans' = [plans EXCEPT ![p] =
               Claimed(WithProposal(@, in, proposal), Row("capacity", plans[p].rev))]
        /\ UNCHANGED <<view, switch, upgrade>>

(***************************************************************************)
(* Items                                                                   *)
(***************************************************************************)
\* What any revision of the plan ever marked: _fresh_completion_keys_for_plan.
FreshKeysOfLastRow(p) == IF plans[p].ledger = << >> THEN {} ELSE Last(plans[p].ledger).fresh   \* mutant

FreshKeys(p) == UNION {plans[p].ledger[n].fresh : n \in DOMAIN plans[p].ledger}

\* A client that sends the revision it read, or an older client that sends none.
MayComplete(c, sends) ==
    IF sends THEN Current(c) ELSE view[c].item \notin FreshKeys(view[c].plan)

CompleteItem(c, sends) ==
    LET p == view[c].plan
        i == view[c].item
    IN  /\ Shows(c, "item")
        /\ RowFree(p)
        /\ Available(p, i)
        /\ MayComplete(c, sends)
        /\ plans[p].items[i].status # "complete"
        /\ plans' = [plans EXCEPT ![p].items[i].status = "complete",
                                  ![p].items[i].seen = view[c].content]
        /\ view' = [view EXCEPT ![c] = None]
        /\ UNCHANGED <<switch, upgrade>>

\* Reopening needs a schedule that still fits, and moves nothing itself.
ReopenItem(p, i) ==
    LET reopened == [plans[p].items EXCEPT ![i].status = "pending", ![i].seen = None]
        proposal == BuildProposal(SchedPlan(p), plans[p].weeks, reopened, Plain)
    IN  /\ Locks(p)
        /\ i \in DOMAIN plans[p].items
        /\ plans[p].items[i].status = "complete"
        /\ proposal.valid
        /\ plans' = [plans EXCEPT ![p] =
               Claimed([@ EXCEPT !.items = reopened], Row("reopen", plans[p].rev))]
        /\ UNCHANGED <<view, switch, upgrade>>

\* A new estimate is a material change: it claims a revision, but moves no work.
EditEstimate(p, i, minutes) ==
    /\ Locks(p)
    /\ Available(p, i)
    /\ plans[p].items[i].est # minutes
    /\ plans' = [plans EXCEPT ![p] =
           Claimed([@ EXCEPT !.items[i].est = minutes], Row("edit", plans[p].rev))]
    /\ UNCHANGED <<view, switch, upgrade>>

(***************************************************************************)
(* Lifecycle.  Pausing, completing and archiving claim no revision.        *)
(***************************************************************************)
SetStatus(p, status) ==
    /\ Locks(p)
    /\ plans' = [plans EXCEPT ![p] =
           Recorded([@ EXCEPT !.status = status], Row(status, plans[p].rev))]
    /\ UNCHANGED <<view, switch, upgrade>>

PausePlan(p) == plans[p].status = "active" /\ SetStatus(p, "paused")

CompletePlan(p) == SetStatus(p, "completed")

ArchivePlan(p) == SetStatus(p, "archived")

\* apply_resume and activate_plan lock and claim p, then read the active plan.
BeginSwitch(r, p, kind) ==
    /\ switch[r] = None
    /\ Locks(p)
    /\ kind = "resume" => plans[p].status # "active" /\ ProposalFor(p, Plain).valid
    /\ switch' = [switch EXCEPT ![r] = [plan |-> p, kind |-> kind, current |-> ActivePlan]]
    /\ UNCHANGED <<plans, view, upgrade>>

\* create_plan takes the account row, counts the plans and reads the active one.
BeginCreate(r, p) ==
    /\ switch[r] = None
    /\ ~Exists(p) /\ p # SeedPlan
    /\ AccountFree
    /\ Cardinality(Existing) < MaxPlans
    /\ switch' = [switch EXCEPT ![r] = [plan |-> p, kind |-> "create", current |-> ActivePlan]]
    /\ UNCHANGED <<plans, view, upgrade>>

Created(status, version, items, row) ==
    [status |-> status, rev |-> 1, default |-> Guide.default, weeks |-> Guide.weeks,
     items |-> [i \in items |-> NewItem(Guide.items[i], version)], ledger |-> <<row>>]

\* The plan the request makes active, as it commits it.
Switched(r) ==
    LET s == switch[r]
    IN  IF s.kind = "create"
        THEN Created("active", 0, DOMAIN Guide.items, Row("created", 1))
        ELSE Claimed([plans[s.plan] EXCEPT !.status = "active"], Row(s.kind, plans[s.plan].rev))

\* The plan read as active, unless it is the one being switched to.
Incumbent(r) == {switch[r].current} \ {None, switch[r].plan}

\* Pausing the incumbent waits for its row.
MayFinishSwitch(r) ==
    /\ switch[r] # None
    /\ \A q \in Incumbent(r) : RowFree(q)

\* The partial unique index: nobody else is active once the incumbent is paused.
OnlyActiveUnchecked(r) == TRUE   \* mutant

OnlyActive(r) == ActivePlans \ (Incumbent(r) \cup {switch[r].plan}) = {}

\* Pause what was read as active, whatever it is by now; then activate and commit.
CommitSwitch(r) ==
    /\ MayFinishSwitch(r)
    /\ OnlyActive(r)
    /\ plans' = [q \in Plans |->
           IF q = switch[r].plan THEN Switched(r)
           ELSE IF q \in Incumbent(r) THEN [plans[q] EXCEPT !.status = "paused"]
           ELSE plans[q]]
    /\ switch' = [switch EXCEPT ![r] = None]
    /\ UNCHANGED <<view, upgrade>>

\* Another plan became active in between: 409, and the transaction rolls back.
RefuseSwitch(r) ==
    /\ MayFinishSwitch(r)
    /\ ~OnlyActive(r)
    /\ switch' = [switch EXCEPT ![r] = None]
    /\ UNCHANGED <<plans, view, upgrade>>

\* duplicate: the account row, then the source's row; a paused copy, all pending.
Duplicate(p, q) ==
    LET kept == {i \in DOMAIN plans[p].items : plans[p].items[i].status # "removed"}
    IN  /\ Exists(p) /\ RowFree(p)
        /\ ~Exists(q) /\ q # SeedPlan
        /\ AccountFree
        /\ Cardinality(Existing) < MaxPlans
        /\ plans' = [plans EXCEPT ![q] =
               [plans[p] EXCEPT !.status = "paused", !.rev = 1, !.ledger = << >>,
                    !.items = [i \in kept |->
                        [plans[p].items[i] EXCEPT !.status = "pending", !.seen = None]]]]
        /\ UNCHANGED <<view, switch, upgrade>>

(***************************************************************************)
(* The curriculum                                                          *)
(***************************************************************************)
\* Releases are recorded in the order of their versions.
SeedVersion == Max({plans[SeedPlan].ledger[n].version : n \in DOMAIN plans[SeedPlan].ledger})

\* _fresh_completion_debt: what was skipped and never resolved since.
Debt(ledger) ==
    {i \in UNION {ledger[n].skipped : n \in DOMAIN ledger} :
        \E n \in DOMAIN ledger :
            /\ i \in ledger[n].skipped
            /\ \A m \in n..Len(ledger) : i \notin ledger[m].resolved}

BeginUpgrade ==
    /\ Exists(SeedPlan)
    /\ upgrade = None
    /\ SeedVersion < Len(Releases)
    /\ upgrade' = [version |-> SeedVersion + 1, debt |-> Debt(plans[SeedPlan].ledger)]
    /\ UNCHANGED <<plans, view, switch>>

\* A row that is complete is history: it is not moved and not redefined.
UpgradedAlways(item, i, version) ==                                 \* mutant
    [NewItem(Guide.items[i], version) EXCEPT !.status = item.status, !.seen = item.seen]

Upgraded(item, i, version) ==
    IF item.status = "complete" THEN item
    ELSE [NewItem(Guide.items[i], version) EXCEPT !.status = item.status, !.seen = item.seen]

\* What a completed row owes: content it was not completed for.
SkippedBy(plan, u) ==
    LET release == Releases[u.version]
    IN  {i \in release.items \cap Pinned(plan.items, DOMAIN plan.items) :
             i \in release.fresh \cup u.debt}

ResolvedBy(plan, u) ==
    LET release == Releases[u.version]
    IN  {i \in release.items \cap u.debt : plan.items[i].status # "complete"}

WithRelease(plan, u) ==
    LET release == Releases[u.version]
        old == plan.items
        \* An unfinished item the release no longer has stays as "removed".
        Item(i) == IF i \notin DOMAIN old THEN NewItem(Guide.items[i], u.version)
                   ELSE IF i \in release.items THEN Upgraded(old[i], i, u.version)
                   ELSE IF old[i].status = "complete" THEN old[i]
                   ELSE [old[i] EXCEPT !.status = "removed"]
        row == [kind |-> "curriculum", base |-> plan.rev, version |-> u.version,
                fresh |-> release.fresh,
                skipped |-> SkippedBy(plan, u), resolved |-> ResolvedBy(plan, u)]
    IN  Claimed([plan EXCEPT !.items = [i \in DOMAIN old \cup release.items |-> Item(i)],
                             !.default = Guide.default], row)

ApplyUpgrade ==
    /\ upgrade # None
    /\ RowFree(SeedPlan) /\ CanRecord(SeedPlan)
    /\ plans' = [plans EXCEPT ![SeedPlan] = WithRelease(@, upgrade)]
    /\ upgrade' = None
    /\ UNCHANGED <<view, switch>>

-----------------------------------------------------------------------------
Init ==
    /\ plans = [p \in Plans |->
           IF p = SeedPlan
           THEN Created("paused", 1, Releases[1].items,
                        [Row("created", 1) EXCEPT !.version = 1, !.fresh = Releases[1].fresh])
           ELSE NoPlan]
    /\ view = [c \in Clients |-> None]
    /\ switch = [r \in Requests |-> None]
    /\ upgrade = None

Next ==
    \/ \E c \in Clients, p \in Plans, in \in Inputs : Preview(c, p, in)
    \/ \E c \in Clients, p \in Plans : \E i \in DOMAIN plans[p].items : OpenItem(c, p, i)
    \/ \E c \in Clients : ApplyReplan(c)
    \/ \E c \in Clients, sends \in BOOLEAN : CompleteItem(c, sends)
    \/ \E p \in Plans, minutes \in Capacities \cup {None} :
           \E w \in DOMAIN plans[p].weeks : SetCapacity(p, w, minutes)
    \/ \E p \in Plans : \E i \in DOMAIN plans[p].items : ReopenItem(p, i)
    \/ \E p \in Plans, minutes \in Estimates :
           \E i \in DOMAIN plans[p].items : EditEstimate(p, i, minutes)
    \/ \E p \in Plans : PausePlan(p)
    \/ \E p \in Plans : CompletePlan(p)
    \/ \E p \in Plans : ArchivePlan(p)
    \/ \E r \in Requests, p \in Plans, kind \in {"resume", "activate"} : BeginSwitch(r, p, kind)
    \/ \E r \in Requests, p \in Plans : BeginCreate(r, p)
    \/ \E r \in Requests : CommitSwitch(r)
    \/ \E r \in Requests : RefuseSwitch(r)
    \/ \E p, q \in Plans : Duplicate(p, q)
    \/ BeginUpgrade
    \/ ApplyUpgrade

Spec == Init /\ [][Next]_vars

-----------------------------------------------------------------------------
(***************************************************************************)
(* Properties                                                              *)
(***************************************************************************)
TypeOK ==
    /\ \A p \in Plans :
           /\ plans[p].status \in Statuses
           /\ plans[p].rev \in 0..MaxLedger[p] + 1
           /\ \A i \in DOMAIN plans[p].items :
                  /\ plans[p].items[i].week \in DOMAIN plans[p].weeks
                  /\ plans[p].items[i].status \in {"pending", "complete", "deferred", "removed"}
    /\ \A r \in Requests : switch[r] # None => switch[r].kind \in {"resume", "activate", "create"}

\* At most one plan is active, whichever switches, resumptions and creations of
\* different plans overlap between their read of the active plan and their
\* commit (make_active, create_plan, uq_study_plans_one_active).
OneActivePlan == Cardinality(ActivePlans) <= 1

\* Plans are counted under the account row that the creation then holds, so
\* concurrent creations and duplications never exceed the quota.
PlanQuota == Cardinality(Existing) <= MaxPlans

\* The claims recorded in a plan's ledger are its revisions 1, 2, ..., each once:
\* no two writers ever advanced the same snapshot, and none left no trace.
Claims(p) ==
    {n \in DOMAIN plans[p].ledger :
        plans[p].ledger[n].kind \notin {"created", "paused", "completed", "archived"}}

LedgerIsGapless ==
    \A p \in Existing :
        /\ {plans[p].ledger[n].base : n \in Claims(p)} = 1 .. plans[p].rev - 1
        /\ \A m, n \in Claims(p) : m < n => plans[p].ledger[m].base < plans[p].ledger[n].base

\* Work is credited as complete only to a client that had open the last content
\* a release marked as new work, old clients that send no revision included.
CreditIsEarned ==
    \A p \in Existing : \A i \in DOMAIN plans[p].items :
        LET item == plans[p].items[i]
        IN  item.status = "complete" =>
                \A v \in item.seen + 1 .. item.content : i \notin Releases[v].fresh

\* The debt rebuilt from the ledger rows is exactly the new work that its item
\* does not show yet, through upgrades, completions and reopenings in any order.
DebtIsOwed ==
    LET plan == plans[SeedPlan]
    IN  Debt(plan.ledger) =
            {i \in DOMAIN plan.items :
                \E v \in plan.items[i].content + 1 .. SeedVersion : i \in Releases[v].fresh}

\* Whatever requests overlap, an account has one active plan at most and no more
\* plans than its quota.
PlansWithinLimits == OneActivePlan /\ PlanQuota

\* The ledger tells what happened to the plan: its revisions, the work credited
\* and the work still owed.
LedgerIsTrue == LedgerIsGapless /\ CreditIsEarned /\ DebtIsOwed

WeekCapacity(plan, w) == EffectiveCapacity(plan.weeks[w], w, plan.default, << >>)

WeekLoad(plan, w) ==
    Minutes(plan.items, Residents(plan.items, Scheduled(plan.items, {}), w))

\* The schedule is stable: a proposal takes work only out of a week that no
\* longer holds it, and once it is saved there is nothing left to move.
ReplanIsStable ==
    \A p \in Existing :
        LET proposal == ProposalFor(p, Plain)
            saved == WithProposal(plans[p], Plain, proposal)
        IN  /\ \A i \in proposal.moves \cup proposal.unplaced :
                   LET w == plans[p].items[i].week
                   IN  WeekLoad(plans[p], w) > WeekCapacity(plans[p], w)
            /\ proposal.unplaced = {} =>
                   BuildProposal(SchedPlan(p), saved.weeks, saved.items, Plain).moves = {}

\* A step that saved a proposal of plan p.
Applied(p) ==
    /\ Len(plans'[p].ledger) > Len(plans[p].ledger)
    /\ Last(plans'[p].ledger).kind \in {"replan", "capacity"}

\* What a confirmed replan leaves in the rows fits: every week holds its work,
\* hard prerequisites come first, the deadline holds and no Core work is gone
\* that the client did not confirm.
AppliedFits ==
    [][\A p \in Plans : Applied(p) =>
        LET plan == plans'[p]
            S == Scheduled(plan.items, {})
        IN  /\ \A w \in DOMAIN plan.weeks : WeekLoad(plan, w) <= WeekCapacity(plan, w)
            /\ \A i \in S : \A j \in plan.items[i].hard \cap S :
                   plan.items[j].week <= plan.items[i].week
            /\ Guide.deadline # None => \A i \in S : plan.items[i].week <= Guide.deadline
      ]_vars

\* Work is only carried forward, and inside its phase.
CarriedForward ==
    [][\A p \in Plans : Applied(p) =>
        \A i \in DOMAIN plans[p].items :
            /\ plans'[p].items[i].week >= plans[p].items[i].week
            /\ plans'[p].items[i].phase = plans[p].items[i].phase]_vars

\* Completed work stays in the week it was done in and keeps its content, through
\* replans, capacity changes, reopenings of other work and curriculum upgrades.
CompletedWorkStays ==
    [][\A p \in Plans : \A i \in DOMAIN plans[p].items \cap DOMAIN plans'[p].items :
        LET item == plans[p].items[i]
        IN  item.status = "complete" /\ plans'[p].items[i].status = "complete" =>
                /\ plans'[p].items[i].week = item.week
                /\ plans'[p].items[i].content = item.content]_vars

\* A replan saves the placements its client was shown, unless work was completed
\* in between, which claims no revision.
AppliedIsConfirmed ==
    [][\A c \in Clients :
        LET p == view[c].plan
            items == plans[p].items
        IN  /\ Shows(c, "preview") /\ view'[c] = None
            /\ view[c].done = Pinned(items, DOMAIN items)
            =>
                \A i \in DOMAIN view[c].placed :
                    plans'[p].items[i].week = view[c].placed[i]]_vars

\* What a replan saves is what was confirmed, only carries work forward, and fits.
AppliedIsSound == AppliedFits /\ CarriedForward /\ AppliedIsConfirmed
=============================================================================
