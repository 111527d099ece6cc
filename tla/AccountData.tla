----------------------------- MODULE AccountData -----------------------------
(***************************************************************************)
(* The rows an account owns (src/api/app/models.py): which table refers to *)
(* which, what a deletion does to the rows that refer to it, and how the   *)
(* account export reads them (routers/authentication.py).                  *)
(*                                                                         *)
(* A row is named by its table: an instance has one row per table, so the  *)
(* references of a table to itself are left out.                           *)
(***************************************************************************)
EXTENDS Naturals, Sequences, FiniteSets, SequencesExt

CONSTANTS
    MaxChanges,   \* bound on the changes behind the back of an export
    Absent        \* tables an account may have no row of when an export starts

VARIABLES
    rows,       \* tables whose row exists
    held,       \* what an exported row referred to when it was read
    taken,      \* tables whose row the export took
    position,   \* statement the export is at; 0 when none runs
    gone,       \* tables whose row was deleted
    changes     \* made so far

dataVars == <<rows, held, taken, position, gone, changes>>

\* A reference of table c to table p.  When p's row is deleted, c's row goes with
\* it ("cascade") or forgets it ("null").  The export takes c's row only if it
\* took p's ("in"), forgets the reference if it did not ("null"), or keeps it as
\* it is ("raw").
Ref(c, p, onDelete, export) == [from |-> c, to |-> p, onDelete |-> onDelete, export |-> export]

\* user_id, of every table that has one.
OwnedRows ==
    {Ref(t, "users", "cascade", "in") : t \in
        {"settings", "identities", "auth_sessions", "devices", "drafts", "sources", "cards",
         "captures", "plans", "consents", "usage", "checks", "enrollments"}}

IdentityRows == {Ref("receipts", "identities", "cascade", "in")}

CardRowsCascading ==   \* mutant
    {Ref("cards", "sources", "cascade", "null"), Ref("captures", "cards", "null", "null"),
     Ref("sessions", "cards", "cascade", "raw"), Ref("probes", "sessions", "cascade", "in")}

CardRows ==
    {Ref("cards", "sources", "null", "null"), Ref("captures", "cards", "null", "null"),
     Ref("sessions", "cards", "cascade", "raw"), Ref("probes", "sessions", "cascade", "in")}

SourceRows ==
    {Ref("sources", "drafts", "null", "null"), Ref("proposals", "sources", "cascade", "in"),
     Ref("proposals", "cards", "null", "null")}

LessonRows ==
    {Ref("checks", "proposals", "cascade", "raw"), Ref("checks", "cards", "null", "raw"),
     Ref("audits", "sources", "cascade", "raw"), Ref("audits", "proposals", "cascade", "raw")}

PilotRows ==
    {Ref("assignments", "enrollments", "cascade", "in"),
     Ref("assignments", "sources", "null", "raw"), Ref("assignments", "proposals", "null", "raw")}

PlanRows ==
    {Ref("phases", "plans", "cascade", "in"),
     Ref("weeks", "plans", "cascade", "in"), Ref("weeks", "phases", "cascade", "in"),
     Ref("items", "plans", "cascade", "in"), Ref("items", "phases", "cascade", "in"),
     Ref("items", "weeks", "cascade", "in")}

PlanHistoryRows ==
    {Ref("dependencies", "plans", "cascade", "in"), Ref("dependencies", "items", "cascade", "in"),
     Ref("revisions", "plans", "cascade", "in"),
     Ref("debriefs", "plans", "cascade", "in"), Ref("debriefs", "items", "cascade", "in")}

PlanCardRows ==
    {Ref("card_proposals", "plans", "cascade", "in"), Ref("card_proposals", "items", "cascade", "in"),
     Ref("card_proposals", "cards", "null", "null"),
     Ref("acceptances", "plans", "cascade", "in"),
     Ref("acceptances", "card_proposals", "cascade", "in"),
     Ref("acceptances", "cards", "null", "null"),
     Ref("links", "plans", "cascade", "in"), Ref("links", "items", "cascade", "in"),
     Ref("links", "cards", "cascade", "in"), Ref("links", "acceptances", "cascade", "in"),
     Ref("duplications", "plans", "cascade", "in")}

Refs == OwnedRows \cup IdentityRows \cup CardRows \cup SourceRows \cup LessonRows
          \cup PilotRows \cup PlanRows \cup PlanHistoryRows \cup PlanCardRows

\* The order in which the export reads the tables, one statement each.
AccountReads == <<"users", "settings", "identities", "receipts", "auth_sessions", "devices">>
LibraryReads == <<"drafts", "sources", "proposals", "cards", "captures", "sessions", "probes">>
PlanReads == <<"plans", "phases", "weeks", "items", "dependencies", "revisions", "debriefs">>
PlanCardReads == <<"card_proposals", "acceptances", "links", "duplications">>
PilotReads == <<"consents", "usage", "checks", "audits", "enrollments", "assignments">>

ExportOrder == AccountReads \o LibraryReads \o PlanReads \o PlanCardReads \o PilotReads

Tables == ToSet(ExportOrder)

ASSUME AbsentAssumption == Absent \subseteq Tables

\* The rows a row cannot exist without.
Needs == [t \in Tables |-> {r.to : r \in {r \in Refs : r.from = t /\ r.onDelete = "cascade"}}]

\* A row, and the rows it stands on.
StandsOn[t \in Tables] == {t} \cup UNION {StandsOn[p] : p \in Needs[t]}

\* DELETE with its cascades: every row that stands on the deleted one.
DeletedWith == [t \in Tables |-> {u \in Tables : t \in StandsOn[u]}]

(***************************************************************************)
(* What changes the rows.  The rows with a handler that deletes them; an   *)
(* account is deleted whole.                                               *)
(***************************************************************************)
Deletable == {"drafts", "sources", "proposals", "captures", "devices", "acceptances",
              "dependencies", "auth_sessions", "users"}

Change == changes < MaxChanges /\ changes' = changes + 1

CreateRow(t) ==
    /\ Change
    /\ t \notin rows /\ Needs[t] \subseteq rows /\ t # "users"
    /\ t \notin gone
    /\ rows' = rows \cup {t}
    /\ UNCHANGED <<held, taken, position, gone>>

DeleteRow(t) ==
    /\ Change
    /\ t \in rows
    /\ rows' = rows \ DeletedWith[t]
    /\ gone' = gone \cup (rows \cap DeletedWith[t])
    /\ UNCHANGED <<held, taken, position>>

(***************************************************************************)
(* The export: statements outside any snapshot.                            *)
(***************************************************************************)
References(t) == {r.to : r \in {r \in Refs : r.from = t}} \cap rows

Projecting ==
    [t \in Tables |-> [mode \in {"in", "null", "raw"} |->
        {r.to : r \in {r \in Refs : r.from = t /\ r.export = mode}}]]

Unfiltered(t) == t \in rows   \* mutant

\* The statement for table t finds its row, unless a row it is read through was
\* not taken.
Found(t) == t \in rows /\ Projecting[t]["in"] \subseteq taken

ExportRead ==
    LET t == ExportOrder[position]
    IN  /\ position \in DOMAIN ExportOrder
        /\ position' = position + 1
        /\ IF Found(t)
           THEN taken' = taken \cup {t} /\ held' = [held EXCEPT ![t] = References(t)]
           ELSE UNCHANGED <<taken, held>>
        /\ UNCHANGED <<rows, gone, changes>>

\* What the answer keeps of an exported row's references.
KeptReferences(t) == held[t] \ (Projecting[t]["null"] \ taken)

ExportStart ==
    /\ position = 0 /\ "users" \in rows
    /\ position' = 1
    /\ UNCHANGED <<rows, held, taken, gone, changes>>

Exported == position = Len(ExportOrder) + 1

\* The rows an account can have: all of them, or all but one and what needs it.
DataInit ==
    /\ rows \in {Tables} \cup {Tables \ DeletedWith[t] : t \in Absent}
    /\ held = [t \in Tables |-> {}]
    /\ taken = {}
    /\ position = 0
    /\ gone = {}
    /\ changes = 0

DataNext ==
    \/ ExportStart
    \/ ExportRead
    \/ \E t \in Tables : CreateRow(t)
    \/ \E t \in Deletable : DeleteRow(t)

DataSpec == DataInit /\ [][DataNext]_dataVars

-----------------------------------------------------------------------------
(***************************************************************************)
(* Properties                                                              *)
(***************************************************************************)
\* No row is without one it cannot exist without.
RowsAreOwned == \A t \in rows : Needs[t] \subseteq rows

\* Whatever is created or deleted between its statements, the exported file names
\* no row it does not hold, through any reference the handler filters
\* (export_account).
ExportIsClosed ==
    Exported =>
        \A t \in taken : KeptReferences(t) \ Projecting[t]["raw"] \subseteq taken

\* Rows and exported files are closed under what they refer to.
DataIsWhole == RowsAreOwned /\ ExportIsClosed

\* Deleting material, drafts or bookkeeping never takes a card, its sessions or
\* their probes along: review history only goes with the account.
HistorySurvives ==
    [][\A t \in {"cards", "sessions", "probes"} :
          t \in rows /\ "users" \in rows' => t \in rows']_dataVars
=============================================================================
