----------------------------- MODULE CardLibrary -----------------------------
(***************************************************************************)
(* The card library of one account: captures and their activation          *)
(* (src/api/app/routers/captures.py, services/card_lifecycle.py), and the  *)
(* archive, restore and replacement of cards (routers/cards.py).           *)
(*                                                                         *)
(* A request is a transaction.  Its record in "txn" says what it has read  *)
(* and locked; what it writes is visible when it commits, and until then   *)
(* it may be rolled back.  A write of a row that was read without a lock   *)
(* changes only the columns the request changed.                           *)
(***************************************************************************)
EXTENDS Naturals, Sequences, FiniteSets

CONSTANTS
    Missing, Gone, Transactions, Captures,
    Topics,      \* normalized topics
    MaxCards

ASSUME LibraryAssumption == MaxCards \in Nat /\ Missing \notin Topics

LineageKinds == {"archive", "restore", "replace"}

CaptureRows ==
    [topic : Topics, basis : BOOLEAN, question : BOOLEAN,
     status : {"pending", "ready", "activated"}, card : Nat]

ASSUME RowAssumption == Missing \notin CaptureRows /\ Gone \notin CaptureRows \cup {Missing}

VARIABLES
    cards,      \* Card rows in the order of their creation; a link is a position, 0 for none
    answering,  \* cards with a live session
    captures,   \* PendingCapture rows, Missing before and Gone after
    txn         \* what a request has read and locked, Missing between requests

libraryVars == <<cards, answering, captures, txn>>

InFlight == {r \in Transactions : txn[r] # Missing}

Doing(r, op) == r \in InFlight /\ txn[r].op = op

Finish(r) == txn' = [txn EXCEPT ![r] = Missing]
Keep(r, rec) == txn' = [txn EXCEPT ![r] = rec]

(***************************************************************************)
(* Lineages                                                                *)
(***************************************************************************)
\* The oldest card behind a card, which is the mutex of its lineage.
Root(c) ==
    LET oldest[i \in DOMAIN cards] == IF cards[i].prev = 0 THEN i ELSE oldest[cards[i].prev]
    IN  oldest[c]

Joined(c, d) == d \in {cards[c].prev, cards[c].next} \/ c \in {cards[d].prev, cards[d].next}

\* Every card connected by either side of the links.
Component(c) ==
    LET within[n \in 0..Len(cards)] ==
            IF n = 0 THEN {c}
            ELSE within[n-1] \cup {d \in DOMAIN cards : \E e \in within[n-1] : Joined(d, e)}
    IN  within[Len(cards)]

\* Card rows a request has locked.
Locked(r) ==
    IF r \notin InFlight THEN {}
    ELSE CASE txn[r].op = "rooted" -> {txn[r].root}
           [] txn[r].op = "locked" -> txn[r].members
           [] OTHER -> {}

\* The row locks of cards that stop request r.
LockedByOthers(r) == UNION {Locked(q) : q \in Transactions \ {r}}

Unlocked(c) == \A r \in Transactions : c \notin Locked(r)

NewCard(topic, prev, origin) ==
    [topic |-> topic, active |-> TRUE, prev |-> prev, next |-> 0, origin |-> origin]

(***************************************************************************)
(* POST /cards/{id}/archive, /restore and /replace                         *)
(***************************************************************************)
\* The links are read without a lock to find the root.
Choose(r, kind, c) ==
    /\ txn[r] = Missing
    /\ Keep(r, [op |-> "chosen", kind |-> kind, card |-> c, root |-> Root(c), members |-> Component(c)])
    /\ UNCHANGED <<cards, answering, captures>>

MembersBefore(q) == q.members   \* mutant

\* The links are read again under the root's lock.
MembersNow(q) == Component(q.card)

LockRoot(r) ==
    LET q == txn[r]
    IN  /\ Doing(r, "chosen") /\ q.root \notin LockedByOthers(r)
        /\ IF Root(q.card) # q.root THEN Finish(r)
           ELSE Keep(r, [q EXCEPT !.op = "rooted", !.members = MembersNow(q)])
        /\ UNCHANGED <<cards, answering, captures>>

OtherActive(c, members) == \E m \in members \ {c} : cards[m].active

\* The request is refused, or there is nothing to do.
Refused(kind, c, members) ==
    CASE kind = "archive" -> ~cards[c].active \/ c \in answering
      [] kind = "restore" -> OtherActive(c, members) \/ cards[c].active
      [] kind = "replace" ->
            \/ ~cards[c].active
            \/ OtherActive(c, members)
            \/ \E m \in members : cards[m].prev = c \/ cards[c].next = m
            \/ c \in answering

\* The members are locked and read, and the request decides.
LockMembers(r) ==
    LET q == txn[r]
    IN  /\ Doing(r, "rooted") /\ q.members \cap LockedByOthers(r) = {}
        /\ IF Refused(q.kind, q.card, q.members) THEN Finish(r)
           ELSE Keep(r, [q EXCEPT !.op = "locked"])
        /\ UNCHANGED <<cards, answering, captures>>

\* A replacement keeps the topic, so it is created without the topic lock.
Replaced(c) ==
    Append([cards EXCEPT ![c].active = FALSE, ![c].next = Len(cards) + 1],
           NewCard(cards[c].topic, c, <<"replace", c>>))

CommitLineage(r) ==
    LET q == txn[r]
    IN  /\ Doing(r, "locked")
        /\ CASE q.kind = "archive" -> cards' = [cards EXCEPT ![q.card].active = FALSE]
             [] q.kind = "restore" -> cards' = [cards EXCEPT ![q.card].active = TRUE]
             [] q.kind = "replace" -> Len(cards) < MaxCards /\ cards' = Replaced(q.card)
        /\ Finish(r)
        /\ UNCHANGED <<answering, captures>>

\* The final eligibility check of a session start, under the card's row lock.
StartAnswer(c) ==
    /\ Unlocked(c) /\ cards[c].active /\ c \notin answering
    /\ answering' = answering \cup {c}
    /\ UNCHANGED <<cards, captures, txn>>

EndAnswer(c) ==
    /\ Unlocked(c) /\ c \in answering
    /\ answering' = answering \ {c}
    /\ UNCHANGED <<cards, captures, txn>>

(***************************************************************************)
(* Captures                                                                *)
(***************************************************************************)
NewCapture(t) == [topic |-> t, basis |-> FALSE, question |-> FALSE, status |-> "pending", card |-> 0]

HasRow(k) == captures[k] \notin {Missing, Gone}

\* Grounding.missing() is empty.
Complete(k) == k.basis /\ k.question

\* refresh_capture_status, on the row as the request knows it.
Refreshed(k) ==
    [k EXCEPT !.status = IF k.card # 0 THEN "activated" ELSE IF Complete(k) THEN "ready" ELSE "pending"]

\* Only the columns that differ from what was read are written.
Written(loaded, new, row) == [f \in DOMAIN row |-> IF new[f] # loaded[f] THEN new[f] ELSE row[f]]

\* activate_capture reads FOR UPDATE: other writers of the row wait.
CaptureUnlocked(k) ==
    \A r \in InFlight : txn[r].op \in {"activating", "activate"} => txn[r].capture # k

\* Advisory lock "devmax-card" of the account.
HoldsTopics(r) == Doing(r, "activate") \/ Doing(r, "accept")

TopicsUnlocked(r) == \A q \in Transactions \ {r} : ~HoldsTopics(q)

\* The account row, locked while the provider is called.
AccountUnlocked == \A r \in InFlight : txn[r].op \notin {"question", "proposing"}

Taken(t) == \E c \in DOMAIN cards : cards[c].topic = t

CreateCapture(k, t) ==
    /\ captures[k] = Missing
    /\ captures' = [captures EXCEPT ![k] = NewCapture(t)]
    /\ UNCHANGED <<cards, answering, txn>>

\* PATCH /captures/{id} reads the row without a lock.
EditCapture(r, k) ==
    /\ txn[r] = Missing /\ HasRow(k) /\ captures[k].status # "activated"
    /\ \E t \in Topics, b, q \in BOOLEAN :
          Keep(r, [op |-> "edit", capture |-> k, loaded |-> captures[k],
                    new |-> Refreshed([captures[k] EXCEPT !.topic = t, !.basis = b, !.question = q])])
    /\ UNCHANGED <<cards, answering, captures>>

\* POST /captures/{id}/question reads it when it has the account row, before the call.
AskQuestion(r, k, regenerate) ==
    /\ txn[r] = Missing /\ AccountUnlocked
    /\ HasRow(k) /\ captures[k].status # "activated"
    /\ captures[k].basis /\ (captures[k].question => regenerate)
    /\ Keep(r, [op |-> "question", capture |-> k, loaded |-> captures[k],
                 new |-> Refreshed([captures[k] EXCEPT !.question = TRUE])])
    /\ UNCHANGED <<cards, answering, captures>>

\* An update of a row that is gone fails.
CommitCapture(r) ==
    LET q == txn[r]
    IN  /\ Doing(r, "edit") \/ Doing(r, "question")
        /\ HasRow(q.capture) /\ CaptureUnlocked(q.capture)
        /\ captures' = [captures EXCEPT ![q.capture] = Written(q.loaded, q.new, captures[q.capture])]
        /\ Finish(r)
        /\ UNCHANGED <<cards, answering>>

DiscardCapture(r, k) ==
    /\ txn[r] = Missing /\ HasRow(k) /\ captures[k].status # "activated"
    /\ Keep(r, [op |-> "discard", capture |-> k])
    /\ UNCHANGED <<cards, answering, captures>>

CommitDiscard(r) ==
    /\ Doing(r, "discard") /\ CaptureUnlocked(txn[r].capture)
    /\ captures' = [captures EXCEPT ![txn[r].capture] = Gone]
    /\ Finish(r)
    /\ UNCHANGED <<cards, answering>>

\* POST /captures/{id}/activate: the row first, then the topic lock.
LockCapture(r, k) ==
    /\ txn[r] = Missing /\ HasRow(k) /\ CaptureUnlocked(k)
    /\ Keep(r, [op |-> "activating", capture |-> k])
    /\ UNCHANGED <<cards, answering, captures>>

\* An activated capture returns its card; an incomplete one or a taken topic is refused.
Activates(k) == k.card = 0 /\ Complete(k) /\ ~Taken(k.topic)

CheckActivation(r) ==
    LET k == txn[r].capture
    IN  /\ Doing(r, "activating") /\ TopicsUnlocked(r)
        /\ IF Activates(captures[k]) THEN Keep(r, [op |-> "activate", capture |-> k, topic |-> captures[k].topic])
           ELSE Finish(r)
        /\ UNCHANGED <<cards, answering, captures>>

CommitActivation(r) ==
    LET k == txn[r].capture
    IN  /\ Doing(r, "activate") /\ Len(cards) < MaxCards
        /\ cards' = Append(cards, NewCard(txn[r].topic, 0, <<"capture", k>>))
        /\ captures' = [captures EXCEPT ![k].card = Len(cards) + 1, ![k].status = "activated"]
        /\ Finish(r)
        /\ UNCHANGED answering

\* The provider fails, or the client or the process goes away.
Rollback(r) ==
    /\ r \in InFlight
    /\ Finish(r)
    /\ UNCHANGED <<cards, answering, captures>>

(***************************************************************************)
(* Specification                                                           *)
(***************************************************************************)
LibraryInit ==
    /\ cards = << >>
    /\ answering = {}
    /\ captures = [k \in Captures |-> Missing]
    /\ txn = [r \in Transactions |-> Missing]

LineageStep(r) ==
    \/ \E kind \in LineageKinds, c \in DOMAIN cards : Choose(r, kind, c)
    \/ LockRoot(r)
    \/ LockMembers(r)
    \/ CommitLineage(r)

CaptureStep(r) ==
    \/ \E k \in Captures : \/ EditCapture(r, k)
                           \/ \E regenerate \in BOOLEAN : AskQuestion(r, k, regenerate)
                           \/ DiscardCapture(r, k)
                           \/ LockCapture(r, k)
    \/ CommitCapture(r)
    \/ CommitDiscard(r)
    \/ CheckActivation(r)
    \/ CommitActivation(r)

LibraryNext ==
    \/ \E r \in Transactions : LineageStep(r) \/ CaptureStep(r) \/ Rollback(r)
    \/ \E k \in Captures, t \in Topics : CreateCapture(k, t)
    \/ \E c \in DOMAIN cards : StartAnswer(c) \/ EndAnswer(c)

(***************************************************************************)
(* Properties                                                              *)
(***************************************************************************)
\* The two sides of every replacement agree, a lineage has one active card at most,
\* and an answer in progress is about an active card, whichever members are archived,
\* restored, replaced or answered at once (_owned_lineage_for_update).
LineagesAreWhole ==
    /\ \A c, d \in DOMAIN cards : (cards[c].prev = d) <=> (cards[d].next = c)
    /\ \A c \in DOMAIN cards : Cardinality({d \in Component(c) : cards[d].active}) <= 1
    /\ \A c \in answering : cards[c].active

\* Two cards have one topic only if one replaces the other, however captures and
\* accepted proposals race (lock_topic_creation).
TopicsAreUnique ==
    \A c, d \in DOMAIN cards : cards[c].topic = cards[d].topic => Root(c) = Root(d)

\* The library is a set of lineages, one topic each.
LibraryIsWhole == LineagesAreWhole /\ TopicsAreUnique
=============================================================================
