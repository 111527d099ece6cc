------------------------------ MODULE Admission ------------------------------
(***************************************************************************)
(* The doors of the server process (src/api/app/services/abuse.py): the    *)
(* windows that count the calls of an authentication path, the places for  *)
(* writes, held from before the body is read, and inside them the slots    *)
(* for paid calls.  Requests are refused at a full door; a background      *)
(* import waits at the second on a condition that a leaver notifies.       *)
(*                                                                         *)
(* No holder of the condition's lock ever suspends, so what is done under  *)
(* it is one step, and a cancelled task still leaves in one.               *)
(***************************************************************************)
EXTENDS Integers, Sequences, FiniteSets, FiniteSetsExt

CONSTANTS
    Tasks,          \* requests and background imports
    Imports,        \* those that are background imports
    Credential,     \* of a task: what its headers say; of an import: none
    Account,        \* of a task: what its bearer token resolves to
    Clients,        \* addresses that call the authentication paths
    WriteLimit, CredentialLimit,    \* places for writes: in all, of a credential
    SlotLimit, AccountLimit,        \* slots for paid calls: in all, of an account
    Period, CallLimit,              \* of a window
    MaxKeys,        \* windows that are kept
    MaxTime,        \* bound on the clock
    Absentee        \* no window

ASSUME DoorsAssumption ==
    /\ Imports \subseteq Tasks /\ IsFiniteSet(Tasks)
    /\ {WriteLimit, CredentialLimit, SlotLimit, AccountLimit, Period, CallLimit, MaxKeys}
           \subseteq Nat \ {0}

ASSUME AbsenteeAssumption == Absentee \notin [start : Nat, count : Nat]

VARIABLES
    task,       \* "away", "writing", "asleep", "woken" or "paying"
    places,     \* writes under way: [all, of]
    slots,      \* paid calls under way: [all, of]
    windows,    \* of a client: [start, count] or Absentee
    admitted,   \* the times at which a client was let in, until it is forgotten
    forgotten,  \* clients whose window was dropped before it ended
    time

doorVars == <<task, places, slots, windows, admitted, forgotten, time>>

(***************************************************************************)
(* ProviderAdmission: counters, of a door [all, of]                        *)
(***************************************************************************)
Empty(names) == [all |-> 0, of |-> [n \in names |-> 0]]

HasPlace(door, name, limit, each) == door.all < limit /\ door.of[name] < each

Entered(door, name) == [all |-> door.all + 1, of |-> [door.of EXCEPT ![name] = @ + 1]]

LessOne(n) == IF n > 0 THEN n - 1 ELSE 0

Left(door, name) == [all |-> LessOne(door.all), of |-> [door.of EXCEPT ![name] = LessOne(@)]]

(***************************************************************************)
(* Requests                                                                *)
(***************************************************************************)
\* The middleware: a write takes a place, or is refused, before its body is read.
EnterWrite(t) ==
    /\ t \in Tasks \ Imports /\ task[t] = "away"
    /\ HasPlace(places, Credential[t], WriteLimit, CredentialLimit)
    /\ places' = Entered(places, Credential[t])
    /\ task' = [task EXCEPT ![t] = "writing"]
    /\ UNCHANGED <<slots, windows, admitted, forgotten, time>>

SlotFor(t) == HasPlace(slots, Account[t], SlotLimit, AccountLimit)

\* Behind the bearer token, a path that calls a provider takes a slot (require_user).
EnterPaid(t) ==
    /\ task[t] = "writing"
    /\ SlotFor(t)
    /\ slots' = Entered(slots, Account[t])
    /\ task' = [task EXCEPT ![t] = "paying"]
    /\ UNCHANGED <<places, windows, admitted, forgotten, time>>

\* The response, a refusal, a body that is too long or too slow, or a cancellation.
LeaveWrite(t) ==
    /\ task[t] = "writing"
    /\ places' = Left(places, Credential[t])
    /\ task' = [task EXCEPT ![t] = "away"]
    /\ UNCHANGED <<slots, windows, admitted, forgotten, time>>

(***************************************************************************)
(* Background imports                                                      *)
(***************************************************************************)
\* wait_enter, at first and after every notification.
WaitPaid(t) ==
    /\ t \in Imports
    /\ task[t] \in {"away", "woken"}
    /\ IF SlotFor(t)
       THEN /\ slots' = Entered(slots, Account[t])
            /\ task' = [task EXCEPT ![t] = "paying"]
       ELSE task' = [task EXCEPT ![t] = "asleep"] /\ UNCHANGED slots
    /\ UNCHANGED <<places, windows, admitted, forgotten, time>>

\* A worker is cancelled while it waits.
StopWaiting(t) ==
    /\ task[t] \in {"asleep", "woken"}
    /\ task' = [task EXCEPT ![t] = "away"]
    /\ UNCHANGED <<places, slots, windows, admitted, forgotten, time>>

WokenOne(asleep) == {s \in SUBSET asleep : Cardinality(s) <= 1 /\ (asleep # {} => s # {})}   \* mutant

\* notify_all: whoever sleeps looks again.
Woken(asleep) == {asleep}

\* The end of the paid call, however it ends, notifies the sleepers.
LeavePaid(t) ==
    /\ task[t] = "paying"
    /\ slots' = Left(slots, Account[t])
    /\ \E woken \in Woken({s \in Tasks : task[s] = "asleep"}) :
           task' = [s \in Tasks |->
               IF s \in woken THEN "woken"
               ELSE IF s # t THEN task[s]
               ELSE IF t \in Imports THEN "away" ELSE "writing"]
    /\ UNCHANGED <<places, windows, admitted, forgotten, time>>

(***************************************************************************)
(* FixedWindowLimiter                                                      *)
(***************************************************************************)
Kept(ws) == {c \in Clients : ws[c] # Absentee}

Expired(ws) == {c \in Kept(ws) : time - ws[c].start >= Period}

\* _prune: what is left when there are too many windows - the expired go, then
\* the oldest.
Prunings(ws) ==
    IF Cardinality(Kept(ws)) <= MaxKeys THEN {Kept(ws)}
    ELSE LET live == Kept(ws) \ Expired(ws)
         IN  {K \in SUBSET live :
                 /\ Cardinality(K) = Min({MaxKeys, Cardinality(live)})
                 /\ \A c \in K, d \in live \ K : ws[d].start <= ws[c].start}

LetIn(c) ==
    admitted' = [d \in Clients |-> IF d \in forgotten' THEN << >>
                                   ELSE IF d = c THEN Append(admitted[d], time) ELSE admitted[d]]

OpenWindow(c) ==
    /\ windows[c] = Absentee \/ c \in Expired(windows)
    /\ LET ws == [windows EXCEPT ![c] = [start |-> time, count |-> 1]]
       IN  \E K \in Prunings(ws) :
               /\ windows' = [d \in Clients |-> IF d \in K THEN ws[d] ELSE Absentee]
               /\ forgotten' = forgotten \cup (Kept(ws) \ (K \cup Expired(ws)))
    /\ LetIn(c)
    /\ UNCHANGED <<task, places, slots, time>>

CallAgain(c) ==
    /\ windows[c] # Absentee /\ c \notin Expired(windows)
    /\ windows[c].count < CallLimit
    /\ windows' = [windows EXCEPT ![c].count = @ + 1]
    /\ UNCHANGED <<task, places, slots, forgotten, time>>
    /\ LetIn(c)

Wait ==
    /\ time < MaxTime
    /\ time' = time + 1
    /\ UNCHANGED <<task, places, slots, windows, admitted, forgotten>>

-----------------------------------------------------------------------------
DoorInit ==
    /\ task = [t \in Tasks |-> "away"]
    /\ places = Empty({Credential[t] : t \in Tasks \ Imports})
    /\ slots = Empty({Account[t] : t \in Tasks})
    /\ windows = [c \in Clients |-> Absentee]
    /\ admitted = [c \in Clients |-> << >>]
    /\ forgotten = {}
    /\ time = 0

SlotNext ==
    \E t \in Tasks :
        \/ EnterWrite(t) \/ EnterPaid(t) \/ LeaveWrite(t)
        \/ WaitPaid(t) \/ StopWaiting(t) \/ LeavePaid(t)

WindowNext == Wait \/ \E c \in Clients : OpenWindow(c) \/ CallAgain(c)

DoorsSpec == DoorInit /\ [][SlotNext \/ WindowNext]_doorVars

(***************************************************************************)
(* Properties                                                              *)
(***************************************************************************)
\* Who is inside a door.
Payers(a) == {t \in Tasks : task[t] = "paying" /\ Account[t] = a}

Writers(c) == {t \in Tasks \ Imports : task[t] # "away" /\ Credential[t] = c}

\* The counters are the tasks that are inside: no place or slot is lost or given
\* away twice, whatever is refused, cancelled or woken in between.
SlotsAreExact ==
    /\ \A a \in DOMAIN slots.of : slots.of[a] = Cardinality(Payers(a))
    /\ \A c \in DOMAIN places.of : places.of[c] = Cardinality(Writers(c))
    /\ slots.all = Cardinality({t \in Tasks : task[t] = "paying"})
    /\ places.all = Cardinality({t \in Tasks \ Imports : task[t] # "away"})

\* No import sleeps on a slot that is free for it: a notification is never spent
\* on a sleeper of an account that is still at its limit (leave, wait_enter).
NobodySleepsOver == \A t \in Tasks : task[t] = "asleep" => ~SlotFor(t)

\* In no stretch of a period is a client let in twice the limit - the first call of
\* a window is at its start -, unless its window was dropped for others.
CallsAreLimited ==
    \A c \in Clients \ forgotten : \A n \in DOMAIN admitted[c] :
        Cardinality({m \in n..Len(admitted[c]) : admitted[c][m] - admitted[c][n] < Period})
            < 2 * CallLimit

DoorsHold == SlotsAreExact /\ NobodySleepsOver /\ CallsAreLimited
=============================================================================
