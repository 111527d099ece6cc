------------------------------ MODULE MCAccounts ------------------------------
(***************************************************************************)
(* The accounts, the export of one account's rows, and its card library.   *)
(* They have no variable in common, so a scene exercises one of them:      *)
(* requests of two clients; an export with changes behind its back; the    *)
(* library; the debrief, proposals and acceptances of one plan item beside *)
(* captures that are activated; or the slots and windows of the process.   *)
(***************************************************************************)
EXTENDS Accounts, AccountData, CardProposals, Admission, TLC

CONSTANT s1   \* the subject Apple notifies about

\* Access of the first subject ended at the start.
MCEvents == {[jti |-> "j1", subject |-> s1, at |-> 0]}

Symmetry ==
    Permutations(Requests) \cup Permutations(Nonces) \cup Permutations(Transactions)
        \cup Permutations(Topics)

\* Only one of them has left its initial state.
Requested == Busy # {} \/ sessions # << >> \/ nonces # [n \in Nonces |-> "none"] \/ clock > 0 \/ claimOpen # ClaimFirst

DataTouched == rows # Tables \/ position # 0 \/ changes # 0

LibraryTouched == InFlight # {} \/ debrief # Missing \/ \E k \in Captures : captures[k] # Missing

DebriefOpen == debrief # Missing \/ \E r \in InFlight : txn[r].op \in {"save", "submit"}

DebriefWriters == {r \in InFlight : txn[r].op \in {"save", "submit"}}

\* Captures beside a plan are written once and in full.
WrittenInFull == \A r \in InFlight : Doing(r, "edit") => Complete(txn[r].new) /\ ~Complete(txn[r].loaded)

CaptureBeside ==
    \/ \E k \in Captures, t \in Topics : CreateCapture(k, t)
    \/ \E r \in Transactions, k \in Captures : LockCapture(r, k)
    \/ \E r \in Transactions, k \in Captures : EditCapture(r, k) /\ WrittenInFull'
    \/ \E r \in Transactions : CommitCapture(r) \/ CheckActivation(r) \/ CommitActivation(r)

LibraryScene == ~DebriefOpen /\ LibraryNext /\ UNCHANGED proposalVars

ProposalScene ==
    \/ /\ \A k \in Captures : captures[k] = Missing
       /\ proposals = << >> /\ (Submitted => DebriefWriters # {})
       /\ \E r \in Transactions : DebriefStep(r)
    \/ /\ Submitted /\ DebriefWriters = {}
       /\ \/ Resolving
          \/ \E r \in Transactions : ProposalStep(r)
          \/ CaptureBeside /\ UNCHANGED proposalVars
    \/ DebriefOpen /\ (\E r \in Transactions : Rollback(r)) /\ UNCHANGED proposalVars

NoCalls == windows = [c \in Clients |-> Absentee] /\ time = 0

DoorTouched == task # [t \in Tasks |-> "away"] \/ ~NoCalls

\* Three requests, two of one account, and the two imports that a process works on.
MCAccount == [q1 |-> "a", q2 |-> "a", q3 |-> "b", w1 |-> "a", w2 |-> "b"]

MCCredential == [q1 |-> "phone", q2 |-> "tablet", q3 |-> "phone"]

ScenesOfAccounts ==
    \/ ~DataTouched /\ ~LibraryTouched /\ Next /\ UNCHANGED <<dataVars, libraryVars, proposalVars>>
    \/ ~Requested /\ ~LibraryTouched /\ DataNext /\ UNCHANGED <<vars, libraryVars, proposalVars>>
    \/ ~Requested /\ ~DataTouched /\ (LibraryScene \/ ProposalScene) /\ UNCHANGED <<vars, dataVars>>

MCInit == Init /\ DataInit /\ ProposalsInit /\ DoorInit

MCNext ==
    \/ /\ ~Requested /\ ~DataTouched /\ ~LibraryTouched
       /\ \/ NoCalls /\ SlotNext
          \/ task = [t \in Tasks |-> "away"] /\ WindowNext
       /\ UNCHANGED <<vars, dataVars, libraryVars, proposalVars>>
    \/ ~DoorTouched /\ UNCHANGED doorVars /\ ScenesOfAccounts

MCSpec == MCInit /\ [][MCNext]_<<vars, dataVars, libraryVars, proposalVars, doorVars>>

Aged == \E i \in DOMAIN sessions : sessions[i].age # "fresh"

Notified == clock > 0 \/ receipts # {} \/ \E r \in Requests : At(r, "event")

Deleted ==
    \/ Founder \notin users
    \/ \E i \in DOMAIN sessions : ~sessions[i].row /\ sessions[i].age # "expired"
    \/ \E r \in Requests : At(r, "revoke") \/ At(r, "delete")

\* Tokens run out, Apple notifies, or accounts are deleted.
Scene ==
    Cardinality({x \in 1..3 : <<Aged, Notified, Deleted>>[x]}) <= 1
=============================================================================
