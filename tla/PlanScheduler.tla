---------------------------- MODULE PlanScheduler ----------------------------
(***************************************************************************)
(* The weekly scheduler of the study plan                                  *)
(* (src/api/app/services/study_plan_scheduler.py): pure functions from a   *)
(* saved schedule and the inputs of a replan to a proposal.  StudyPlan     *)
(* composes it with the handlers that persist a proposal.                  *)
(*                                                                         *)
(* A week is its position in a sequence of [phase, override]; an item is a *)
(* record [phase, week, order, est, core, status, source, hard] whose      *)
(* "hard" is the set of its hard prerequisites.  Minutes are counted in    *)
(* blocks; a deadline is the last week the plan may end in.  Identical     *)
(* guide orders, whose tie the code breaks by id, do not occur.            *)
(***************************************************************************)
EXTENDS Integers, Sequences, FiniteSets, SequencesExt, FiniteSetsExt

CONSTANT None   \* no override, no source item, no deadline, no phase

(***************************************************************************)
(* The inputs of a replan beside the saved rows: ReplanRequest.            *)
(***************************************************************************)
Plain == [over |-> << >>, default |-> None, deferred |-> {}, extra |-> 0,
          after |-> None, confirmed |-> {}]

\* week.override ?? plan.default, a proposed override taking precedence.
EffectiveCapacity(week, w, default, over) ==
    LET stored == IF w \in DOMAIN over THEN over[w] ELSE week.override
    IN  IF stored = None THEN default ELSE stored

PhaseWeeks(weeks, phase) == {w \in DOMAIN weeks : weeks[w].phase = phase}

\* The week after which `extra` fresh weeks are inserted; None inserts none.
Boundary(weeks, in) ==
    IF in.extra = 0 \/ weeks = << >> THEN None
    ELSE IF in.after = None THEN Len(weeks)
    ELSE IF PhaseWeeks(weeks, in.after) = {} THEN None
    ELSE Max(PhaseWeeks(weeks, in.after))

WithExtraWeeks(weeks, in) ==
    LET b == Boundary(weeks, in)
    IN  IF b = None THEN weeks
        ELSE SubSeq(weeks, 1, b)
             \o [n \in 1..in.extra |-> [phase |-> weeks[b].phase, override |-> None]]
             \o SubSeq(weeks, b + 1, Len(weeks))

\* Work in the weeks after the boundary moves with its week.
ShiftedItems(weeks, items, in) ==
    LET b == Boundary(weeks, in)
    IN  [i \in DOMAIN items |->
            IF b # None /\ items[i].week > b
            THEN [items[i] EXCEPT !.week = @ + in.extra] ELSE items[i]]

Scheduled(items, deferred) ==
    {i \in DOMAIN items \ deferred : items[i].status \in {"pending", "complete"}}

\* Phase order, then Core first, then the order of the guide.
SortsBefore(items, i, j) ==
    LET Rank(k) == IF items[k].core THEN 0 ELSE 1
    IN  \/ items[i].phase < items[j].phase
        \/ /\ items[i].phase = items[j].phase
           /\ \/ Rank(i) < Rank(j)
              \/ Rank(i) = Rank(j) /\ items[i].order < items[j].order

InOrder(items, S) == SetToSortSeq(S, LAMBDA i, j : SortsBefore(items, i, j))

Minutes(items, S) == FoldSet(LAMBDA i, sum : sum + items[i].est, 0, S)

Residents(items, S, w) == {i \in S : items[i].week = w}

LoadOf(items, placed, w) ==
    Minutes(items, {i \in DOMAIN placed : placed[i] = w})

(***************************************************************************)
(* Pass A.  Completed work is pinned; open residents stay, in order, while *)
(* they fit; the rest is carried.                                          *)
(***************************************************************************)
Pinned(items, S) == {i \in S : items[i].status = "complete"}

RepackedIn(items, S, cap, w) == Pinned(items, Residents(items, S, w))   \* mutant

KeptIn(items, S, cap, w) ==
    LET here == Residents(items, S, w)
        pinned == Pinned(items, here)
        Keep(acc, i) == IF items[i].est <= acc.room
                        THEN [room |-> acc.room - items[i].est, kept |-> acc.kept \cup {i}]
                        ELSE acc
    IN  FoldLeft(Keep, [room |-> cap[w] - Minutes(items, pinned), kept |-> pinned],
                 InOrder(items, here \ pinned)).kept

Stabilised(items, S, cap) ==
    LET kept == UNION {KeptIn(items, S, cap, w) : w \in DOMAIN cap}
    IN  [i \in kept |-> items[i].week]

\* The order in which pass B takes the carried items: week by week, orphans last.
Carried(items, S, cap, placed) ==
    LET Left(w) == InOrder(items, Residents(items, S \ DOMAIN placed, w))
        orphans == {i \in S : items[i].week \notin DOMAIN cap}
    IN  FlattenSeq([w \in DOMAIN cap |-> Left(w)]) \o InOrder(items, orphans)

(***************************************************************************)
(* Pass B.  A carried item takes the earliest week of its phase, not       *)
(* before its floor, that has room.                                        *)
(***************************************************************************)
Waits(items, S, i) == (items[i].hard \cup {items[i].source}) \cap S

FloorKnown(items, S, placed, i) == Waits(items, S, i) \subseteq DOMAIN placed

FloorOfPhase(weeks, items, S, current, placed, i) ==                \* mutant
    Max({current, 1} \cup {placed[j] : j \in Waits(items, S, i)})

FloorOf(weeks, items, S, current, placed, i) ==
    Max({current, items[i].week, 1} \cup {placed[j] : j \in Waits(items, S, i)}
        \cup (IF PhaseWeeks(weeks, items[i].phase) = {} THEN {}
              ELSE {Min(PhaseWeeks(weeks, items[i].phase))}))

CeilingOf(weeks, phase) ==
    IF PhaseWeeks(weeks, phase) = {} THEN Len(weeks) ELSE Max(PhaseWeeks(weeks, phase))

HasRoom(items, placed, cap, w, i) == cap[w] - LoadOf(items, placed, w) >= items[i].est

Eligible(weeks, items, S, current, placed, i) ==
    FloorOf(weeks, items, S, current, placed, i) .. CeilingOf(weeks, items[i].phase)

\* One walk over the items still waiting.
Walk(weeks, items, S, cap, current, acc0) ==
    LET Place(acc, i) ==
            IF ~FloorKnown(items, S, acc.placed, i)
            THEN [acc EXCEPT !.waiting = Append(@, i)]
            ELSE LET into == {w \in Eligible(weeks, items, S, current, acc.placed, i) :
                                  HasRoom(items, acc.placed, cap, w, i)}
                 IN  IF into = {}
                     THEN [acc EXCEPT !.unplaced = @ \cup {i}]
                     ELSE [acc EXCEPT !.placed = (i :> Min(into)) @@ @]
    IN  FoldLeft(Place, [acc0 EXCEPT !.waiting = << >>], acc0.waiting)

\* Walks are repeated while one settles an item; what still waits stays unplaced.
Walks(weeks, items, S, cap, current, start) ==
    FoldLeft(LAMBDA acc, n : Walk(weeks, items, S, cap, current, acc), start, start.waiting)

Start(items, S, cap, placed) ==
    [placed |-> placed, waiting |-> Carried(items, S, cap, placed), unplaced |-> {}]

WaitingIsUnplaced(end) ==
    [placed |-> end.placed, unplaced |-> end.unplaced \cup ToSet(end.waiting)]

PlaceAll(weeks, items, S, cap, current) ==
    WaitingIsUnplaced(Walks(weeks, items, S, cap, current,
                            Start(items, S, cap, Stabilised(items, S, cap))))

(***************************************************************************)
(* _validate and build_proposal.  plan is [default, current, deadline].    *)
(***************************************************************************)
Forecast(plan, placed) ==
    IF DOMAIN placed = {} THEN plan.current ELSE Max({placed[i] : i \in DOMAIN placed})

OverCapacity(items, placed, cap) == \E w \in DOMAIN cap : LoadOf(items, placed, w) > cap[w]

OutOfOrder(items, placed) ==
    \E i \in DOMAIN placed : \E j \in items[i].hard \cap DOMAIN placed : placed[j] > placed[i]

DroppedCore(items, placed, in) ==
    {i \in DOMAIN items : /\ items[i].core
                          /\ items[i].status # "removed"
                          /\ i \notin DOMAIN placed
                          /\ i \notin in.confirmed}

IsValid(plan, items, cap, in, placed, unplaced) ==
    /\ ~OverCapacity(items, placed, cap)
    /\ ~OutOfOrder(items, placed)
    /\ plan.deadline # None => Forecast(plan, placed) <= plan.deadline
    /\ DroppedCore(items, placed, in) = {}
    /\ unplaced = {}

\* p is the placement of items (whose weeks are those before the proposal) in
\* weeks of the capacities cap.
Proposal(plan, items, cap, in, p) ==
    [placed   |-> p.placed,
     unplaced |-> p.unplaced,
     moves    |-> {i \in DOMAIN p.placed : p.placed[i] # items[i].week},
     forecast |-> Forecast(plan, p.placed),
     valid    |-> IsValid(plan, items, cap, in, p.placed, p.unplaced)]

CapacityOf(weeks, default, in) ==
    [w \in DOMAIN weeks |->
        EffectiveCapacity(weeks[w], w, IF in.default = None THEN default ELSE in.default, in.over)]

ProposalIn(plan, weeks, items, cap, in) ==
    Proposal(plan, items, cap, in,
             PlaceAll(weeks, items, Scheduled(items, in.deferred), cap, plan.current))

ProposalOn(plan, weeks, items, in) ==
    ProposalIn(plan, weeks, items, CapacityOf(weeks, plan.default, in), in)

BuildProposal(plan, weeks, items, in) ==
    ProposalOn(plan, WithExtraWeeks(weeks, in), ShiftedItems(weeks, items, in), in)
=============================================================================
