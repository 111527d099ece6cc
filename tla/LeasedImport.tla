---------------------------- MODULE LeasedImport ----------------------------
(***************************************************************************)
(* What a lease on an import promises, without rows, heartbeats or run     *)
(* ids: only the worker that claimed an import last ends it, and ends it   *)
(* once, however many workers still believe that it is theirs.  What is    *)
(* closed is out of the reach of every worker, retry and sweeper.          *)
(*                                                                         *)
(* Uploads (services/materials.py) and guide drafts                        *)
(* (routers/study_plan.py) have a lease of their own each; MaterialImport  *)
(* and PlanDraft both implement this one.                                  *)
(***************************************************************************)
CONSTANTS Imports, Workers, Nobody

VARIABLES
    phase,    \* "none", "open" to a claim, "held", "done", or "closed" for good
    holder,   \* of a held import: who claimed it last
    at        \* the import a worker is at, rightly or not

leaseVars == <<phase, holder, at>>

Init ==
    /\ phase = [i \in Imports |-> "none"]
    /\ holder = [i \in Imports |-> Nobody]
    /\ at = [w \in Workers |-> Nobody]

\* The owner's moves, which no worker notices.
Submit(i) ==
    /\ phase[i] = "none"
    /\ phase' = [phase EXCEPT ![i] = "open"]
    /\ UNCHANGED <<holder, at>>

Reopen(i) ==
    /\ phase[i] = "done"
    /\ phase' = [phase EXCEPT ![i] = "open"]
    /\ UNCHANGED <<holder, at>>

Close(S) ==
    /\ \A i \in S : phase[i] # "none"
    /\ phase' = [i \in Imports |-> IF i \in S THEN "closed" ELSE phase[i]]
    /\ holder' = [i \in Imports |-> IF i \in S THEN Nobody ELSE holder[i]]
    /\ UNCHANGED at

\* Also of an import that is held: its worker may be dead or late.
Claim(w, i) ==
    /\ at[w] = Nobody /\ phase[i] \in {"open", "held"}
    /\ phase' = [phase EXCEPT ![i] = "held"]
    /\ holder' = [holder EXCEPT ![i] = w]
    /\ at' = [at EXCEPT ![w] = i]

\* With a result, or with a failure that opens the import to a retry.
Finish(w, i) ==
    /\ at[w] = i /\ phase[i] = "held" /\ holder[i] = w
    /\ phase' \in {[phase EXCEPT ![i] = "done"], [phase EXCEPT ![i] = "open"]}
    /\ holder' = [holder EXCEPT ![i] = Nobody]
    /\ at' = [at EXCEPT ![w] = Nobody]

\* A worker dies, or finds that its lease is lost.
GiveUp(w) ==
    /\ at[w] # Nobody
    /\ at' = [at EXCEPT ![w] = Nobody]
    /\ UNCHANGED <<phase, holder>>

\* Somebody sees that the holder has been silent for too long.
Lapse(i) ==
    /\ phase[i] = "held"
    /\ phase' = [phase EXCEPT ![i] = "open"]
    /\ holder' = [holder EXCEPT ![i] = Nobody]
    /\ UNCHANGED at

Next ==
    \/ \E i \in Imports : Submit(i) \/ Reopen(i) \/ Lapse(i)
    \/ \E S \in SUBSET Imports : Close(S)
    \/ \E w \in Workers : GiveUp(w) \/ \E i \in Imports : Claim(w, i) \/ Finish(w, i)

Spec == Init /\ [][Next]_leaseVars
=============================================================================
