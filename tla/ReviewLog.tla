------------------------------ MODULE ReviewLog ------------------------------
(* What the review endpoints promise a learner, without requests, locks or     *)
(* providers: sessions of one card taken one at a time, each a log of answers  *)
(* that only grows, and a schedule that moves exactly once, together with the  *)
(* last answer of a scheduled session.                                        *)
EXTENDS Naturals, Sequences

CONSTANTS Sessions, Texts, MaxFollowUps

VARIABLES phase, practice, log, schedule

logVars == <<phase, practice, log, schedule>>

Init ==
  /\ phase = [s \in Sessions |-> "none"]
  /\ practice = [s \in Sessions |-> FALSE]
  /\ log = [s \in Sessions |-> << >>]
  /\ schedule = << >>

Begin(s, p) ==
  /\ phase[s] = "none"
  /\ \A t \in Sessions : phase[t] # "live"
  /\ phase' = [phase EXCEPT ![s] = "live"]
  /\ practice' = [practice EXCEPT ![s] = p]
  /\ UNCHANGED <<log, schedule>>

\* One scored turn that leads to another probe.
Continue(s, x) ==
  /\ phase[s] = "live"
  /\ Len(log[s]) < MaxFollowUps
  /\ log' = [log EXCEPT ![s] = Append(@, x)]
  /\ UNCHANGED <<phase, practice, schedule>>

\* The scored turn that ends the review: answer, result and schedule together.
Finish(s, x, quality) ==
  /\ phase[s] = "live"
  /\ log' = [log EXCEPT ![s] = Append(@, x)]
  /\ phase' = [phase EXCEPT ![s] = "complete"]
  /\ schedule' = IF practice[s] THEN schedule ELSE Append(schedule, quality)
  /\ UNCHANGED practice

Abandon(s) ==
  /\ phase[s] = "live"
  /\ phase' = [phase EXCEPT ![s] = "abandoned"]
  /\ UNCHANGED <<practice, log, schedule>>

Next ==
  \E s \in Sessions :
    \/ \E p \in BOOLEAN : Begin(s, p)
    \/ \E x \in Texts : Continue(s, x)
    \/ \E x \in Texts, quality \in {"pass", "fail"} : Finish(s, x, quality)
    \/ Abandon(s)

Spec == Init /\ [][Next]_logVars
==============================================================================
