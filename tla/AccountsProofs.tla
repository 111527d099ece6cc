---------------------------- MODULE AccountsProofs ----------------------------
(***************************************************************************)
(* For any number of requests, nonces, subjects, users and notifications:  *)
(* a token family has one usable session, a nonce signs in once, an        *)
(* account is whole or gone, and an overtaken notification ends nothing.   *)
(* And for any number of tasks, accounts and clients and any limits: the   *)
(* counters of the doors are the tasks inside, nobody sleeps on a free     *)
(* slot, and no client is let in twice the limit within a period.          *)
(***************************************************************************)
EXTENDS Accounts, Admission, TLAPS, FiniteSetTheorems, SequenceTheorems

-----------------------------------------------------------------------------
(***************************************************************************)
(* The inductive invariant                                                 *)
(***************************************************************************)
NonceOps == {"consumed", "create", "signing", "claim", "founder", "binding"}

\* A request that consumed a nonce has it to itself until it commits, and a session
\* was issued for a nonce that is used.
HasNonce(r) == r \in Busy /\ req[r].op \in NonceOps

NoncesHeld ==
    /\ \A r \in Requests : HasNonce(r) => nonces[req[r].nonce] = "fresh"
    /\ \A r, q \in Requests : HasNonce(r) /\ HasNonce(q) /\ req[r].nonce = req[q].nonce => r = q

NoncesUsed ==
    \A i \in DOMAIN sessions : sessions[i].nonce # None => nonces[sessions[i].nonce] = "used"

\* The row of a user is locked by one request, and stays.
HoldsUser(r, u) ==
    \/ (At(r, "founder") \/ At(r, "binding")) /\ u = Founder
    \/ At(r, "delete") /\ req[r].user = u

UsersHeld ==
    /\ \A r \in Requests, u \in Accounts : HoldsUser(r, u) => u \in users
    /\ \A r, q \in Requests, u \in Accounts : HoldsUser(r, u) /\ HoldsUser(q, u) => r = q

\* The row of an identity is locked by one request: a sign-in or a notification that
\* found it, or the claim of the founder whose identity it is.
HoldsIdentity(r, s) ==
    /\ r \in Busy /\ req[r].op \in {"signing", "binding", "event"} /\ req[r].subject = s
    /\ req[r].op = "binding" => identities[s] # None /\ identities[s].user = Founder

IdentitiesHeld ==
    /\ \A r \in Requests, s \in Subjects : HoldsIdentity(r, s) => identities[s] # None
    /\ \A r, q \in Requests, s \in Subjects : HoldsIdentity(r, s) /\ HoldsIdentity(q, s) => r = q

\* What was decided from it still stands.
FoundStands ==
    \A r \in Requests :
        /\ At(r, "signing") => identities[req[r].subject].user = req[r].user
        /\ At(r, "event") =>
              IF req[r].applied THEN req[r].event.at >= identities[req[r].subject].at
                                ELSE req[r].rows = {}
        /\ At(r, "event") => req[r].event.subject = req[r].subject

\* The row of a session is locked by one request: the token is there, and live if
\* it is to be rotated.
HasSession(r) == r \in Busy /\ req[r].op \in {"rotate", "replay", "seen"}

SessionsHeld ==
    /\ \A r \in Requests : HasSession(r) =>
          LET i == req[r].session
          IN  i \in DOMAIN sessions /\ sessions[i].row /\ (req[r].op = "rotate" => sessions[i].live)
    /\ \A r, q \in Requests :
          HasSession(r) /\ HasSession(q) /\ req[r].session = req[q].session => r = q

\* Expired sessions included, a family has one that is not revoked.
OneLivePerFamily ==
    \A i, j \in DOMAIN sessions :
        Live(i) /\ Live(j) /\ sessions[i].family = sessions[j].family => i = j

\* A user id is given out once: nothing refers to one before its account is made.
UsersMinted ==
    /\ users \subseteq {Founder} \cup minted
    /\ \A i \in DOMAIN sessions : sessions[i].user \in {Founder} \cup minted
    /\ \A r \in Requests : At(r, "create") =>
          /\ req[r].user \in minted
          /\ req[r].user \notin users
          /\ \A i \in DOMAIN sessions : sessions[i].user # req[r].user
    /\ \A r, q \in Requests :
          At(r, "create") /\ At(q, "create") /\ req[r].user = req[q].user => r = q

\* An account has one identity; all but the founder's always have it.
OneIdentity ==
    /\ \A s, t \in Subjects :
          identities[s] # None /\ identities[t] # None /\ identities[s].user = identities[t].user
              => s = t
    /\ \A u \in users \ {Founder} : IdentityOf(u) # {}

IInv ==
    /\ TypeOK
    /\ NoncesHeld /\ NoncesUsed
    /\ UsersHeld /\ IdentitiesHeld /\ FoundStands
    /\ SessionsHeld /\ OneLivePerFamily
    /\ UsersMinted /\ OneIdentity
    /\ ReplayIsDetectable /\ DeletedLeavesNothing

-----------------------------------------------------------------------------
(***************************************************************************)
(* Types                                                                   *)
(***************************************************************************)
\* The types of the rows, apart.
LEMMA Types ==
  ASSUME TypeOK
  PROVE  /\ users \subseteq Accounts /\ minted \subseteq NewUsers
         /\ \A s \in Subjects : identities[s] = None \/ identities[s] \in Authorizations
         /\ Len(sessions) \in Nat /\ DOMAIN sessions = 1 .. Len(sessions)
         /\ \A i \in DOMAIN sessions : sessions[i] \in SessionRows
         /\ \A r \in Requests : req[r] = None \/ req[r] \in Holdings
  <1>1. sessions \in Seq(SessionRows)
    BY DEF TypeOK
  <1>2. Len(sessions) \in Nat /\ DOMAIN sessions = 1 .. Len(sessions)
    BY <1>1
  <1>3. \A i \in DOMAIN sessions : sessions[i] \in SessionRows
    BY <1>1
  <1> QED
    BY <1>2, <1>3 DEF TypeOK

\* An authorization, a held record and a nonce are not None.
LEMMA NotNone ==
  /\ \A a \in Authorizations : a # None
  /\ \A h \in Holdings : h # None
  /\ \A n \in Nonces : n # None
  BY NoneAssumption

\* What a request holds, by its stage.
LEMMA HoldingTypes ==
  ASSUME TypeOK, NEW r \in Requests, req[r] # None
  PROVE  /\ req[r] \in Holdings
         /\ req[r].op \in NonceOps => req[r].nonce \in Nonces /\ req[r].subject \in Subjects
         /\ req[r].op \in {"create", "signing", "revoke", "delete"} => req[r].user \in Accounts
         /\ req[r].op \in {"rotate", "replay", "seen"} => req[r].session \in Nat
         /\ req[r].op \in {"seen", "logout", "event"} => req[r].rows \subseteq Nat
         /\ req[r].op = "event" =>
               /\ req[r].subject \in Subjects /\ req[r].event \in Events
               /\ req[r].applied \in BOOLEAN
         /\ req[r].op \in NonceOps
               \cup {"rotate", "replay", "seen", "logout", "revoke", "delete", "event"}
  <1>1. req[r] \in Holdings
    BY Types
  <1> QED
    BY <1>1 DEF Holdings, NonceOps

\* What a stage is made of.
LEMMA HoldingsMade ==
  /\ \A op \in {"consumed", "claim", "founder", "binding"}, s \in Subjects, n \in Nonces :
        [op |-> op, subject |-> s, nonce |-> n] \in Holdings
  /\ \A op \in {"create", "signing"}, s \in Subjects, n \in Nonces, u \in Accounts :
        [op |-> op, subject |-> s, nonce |-> n, user |-> u] \in Holdings
  /\ \A op \in {"rotate", "replay"}, i \in Nat : [op |-> op, session |-> i] \in Holdings
  /\ \A i \in Nat, R \in SUBSET Nat : [op |-> "seen", session |-> i, rows |-> R] \in Holdings
  /\ \A R \in SUBSET Nat : [op |-> "logout", rows |-> R] \in Holdings
  /\ \A op \in {"revoke", "delete"}, u \in Accounts : [op |-> op, user |-> u] \in Holdings
  /\ \A s \in Subjects, e \in Events, b \in BOOLEAN, R \in SUBSET Nat :
        [op |-> "event", subject |-> s, event |-> e, applied |-> b, rows |-> R] \in Holdings
  BY DEF Holdings

-----------------------------------------------------------------------------
(***************************************************************************)
(* What a step does to the requests                                        *)
(***************************************************************************)
Others(r) ==
    /\ req' = [req EXCEPT ![r] = req'[r]]
    /\ \A q \in Requests : q # r => req'[q] = req[q]
Finished(r) == req'[r] = None /\ Others(r)
Becomes(r, rec) == rec \in Holdings /\ req'[r] = rec /\ Others(r)

\* A request that takes hold of something has it, and the others keep theirs.
LEMMA HoldsIs ==
  ASSUME TypeOK, NEW r \in Requests, NEW rec \in Holdings, Holds(r, rec)
  PROVE  Becomes(r, rec)
  BY DEF TypeOK, Holds, Becomes, Others

\* So do they when a request ends.
LEMMA EndsIs ==
  ASSUME TypeOK, NEW r \in Requests, Ends(r)
  PROVE  Finished(r)
  BY DEF TypeOK, Ends, Finished, Others

\* A request that goes on and writes no row.
GoesOn(r) ==
    /\ UNCHANGED <<users, identities, sessions, nonces, receipts, claimOpen, clock>> /\ Others(r)
    /\ \/ req'[r] = None /\ minted' = minted
       \/ LET old == req[r]
              new == req'[r]
          IN  /\ new \in Holdings
              /\ \/ new.op = "create" /\ minted' = minted \cup {new.user}
                    /\ At(r, "consumed") /\ new.nonce = old.nonce /\ new.user \in NewUsers \ minted
                 \/ /\ minted' = minted
                    /\ \/ /\ new.op \in {"consumed", "claim"}
                          /\ nonces[new.nonce] = "fresh" /\ NonceFree(new.nonce)
                       \/ /\ new.op = "signing"
                          /\ At(r, "consumed") /\ new.nonce = old.nonce
                          /\ identities[new.subject] # None /\ ~IdentityLocked(new.subject)
                          /\ new.user = identities[new.subject].user
                       \/ /\ new.op = "founder"
                          /\ At(r, "claim") /\ new.nonce = old.nonce /\ UserStays(Founder)
                       \/ /\ new.op = "binding"
                          /\ At(r, "founder") /\ new.nonce = old.nonce
                          /\ ~IdentityLocked(new.subject)
                       \/ /\ new.op \in {"rotate", "replay"}
                          /\ new.session \in DOMAIN sessions /\ sessions[new.session].row
                          /\ ~RowLocked(new.session)
                          /\ new.op = "rotate" => sessions[new.session].live
                       \/ new.op = "seen" /\ At(r, "replay") /\ new.session = old.session
                       \/ new.op \in {"logout", "revoke"}
                       \/ new.op = "delete" /\ new.user \in users /\ ~UserLocked(new.user)
                       \/ /\ new.op = "event" /\ new.subject = new.event.subject
                          /\ identities[new.subject] # None /\ ~IdentityLocked(new.subject)
                          /\ IF new.applied THEN new.event.at >= identities[new.subject].at
                                            ELSE new.rows = {}

\* A request that signs its user in.
SignsIn(r, u, sent) ==
    /\ Finished(r) /\ UNCHANGED <<receipts, claimOpen, minted, clock>>
    /\ \/ At(r, "create") /\ u = req[r].user /\ Unique(req[r].subject, u) /\ users' = users \cup {u}
       \/ At(r, "signing") /\ u = req[r].user /\ UserStays(u) /\ users' = users
       \/ /\ At(r, "binding") /\ u = Founder /\ users' = users
          /\ IdentityOf(Founder) = {req[r].subject} \/ Unique(req[r].subject, Founder)
    /\ identities' = [identities EXCEPT ![req[r].subject] = Authorized(u, sent)]
    /\ nonces' = [nonces EXCEPT ![req[r].nonce] = "used"]
    /\ CleanupFree(Requests \ {r})
    /\ sessions' = Issued(sessions, NewSession(u, Len(sessions) + 1, req[r].nonce))

Rotates(r) == RefreshRotates(r) /\ Finished(r)
Revokes(r) == (ReplayRevokes(r) \/ LogoutRevokes(r) \/ EventCommits(r)) /\ Finished(r)
Deletes(r) == DeleteCommits(r) /\ Finished(r)

\* A step of no request, or one that ends where it began.
World ==
    /\ UNCHANGED <<users, identities, receipts, minted, req>>
    /\ clock' \in {clock, clock + 1} \cap 0..MaxClock /\ claimOpen' \in BOOLEAN
    /\ \/ /\ nonces' = nonces
          /\ \/ sessions' = sessions
             \/ \E i \in DOMAIN sessions : Age(i)
             \/ \E i \in DOMAIN sessions :
                   sessions[i].row /\ ~RowLocked(i) /\ sessions' = [sessions EXCEPT ![i].live = FALSE]
       \/ \E n \in Nonces : IssueNonce(n)

\* A refresh, a replay, a logout.
LEMMA RefreshGoes ==
  ASSUME TypeOK, NEW r \in Requests
  PROVE  /\ \A i \in DOMAIN sessions : RefreshLocks(r, i) => World \/ GoesOn(r)
         /\ ReplayReads(r) => GoesOn(r)
         /\ \A i \in DOMAIN sessions : LogoutReads(r, i) => GoesOn(r)
         /\ \A i \in DOMAIN sessions : DeleteStarts(r, i) => GoesOn(r)
  <1>1. ASSUME NEW i \in DOMAIN sessions, RefreshLocks(r, i) PROVE World \/ GoesOn(r)
    <2>1. CASE sessions[i].live /\ sessions[i].age = "expired"
      BY <1>1, <2>1 DEF RefreshLocks, World, RowFree, TypeOK
    <2>2. CASE ~(sessions[i].live /\ sessions[i].age = "expired")
      <3> DEFINE rec == [op |-> IF sessions[i].live THEN "rotate" ELSE "replay", session |-> i]
      <3>1. rec \in Holdings
        BY Types, HoldingsMade
      <3>2. Holds(r, rec) /\ sessions' = sessions
        BY <1>1, <2>2 DEF RefreshLocks
      <3>3. Becomes(r, rec)
        BY <3>1, <3>2, HoldsIs
      <3>4. rec.op \in {"rotate", "replay"} /\ rec.session = i /\ (rec.op = "rotate" => sessions[i].live)
        BY Types
      <3> HIDE DEF rec
      <3> QED
        BY <1>1, <3>2, <3>3, <3>4 DEF GoesOn, Becomes, RefreshLocks, RowFree
    <2> QED
      BY <2>1, <2>2
  <1>2. ASSUME ReplayReads(r) PROVE GoesOn(r)
    <2> DEFINE R == {j \in FamilyOf(req[r].session) : Live(j)}
               rec == [op |-> "seen", session |-> req[r].session, rows |-> R]
    <2>1. R \in SUBSET Nat
      BY Types DEF FamilyOf
    <2>2. req[r].session \in Nat
      BY <1>2, HoldingTypes DEF ReplayReads, At, Busy
    <2> HIDE DEF R
    <2>3. Becomes(r, rec)
      BY <1>2, <2>1, <2>2, HoldingsMade, HoldsIs DEF ReplayReads, R
    <2> QED
      BY <1>2, <2>3 DEF GoesOn, Becomes, ReplayReads
  <1>3. ASSUME NEW i \in DOMAIN sessions, LogoutReads(r, i) PROVE GoesOn(r)
    <2>1. {i} \in SUBSET Nat
      BY Types
    <2>2. Becomes(r, [op |-> "logout", rows |-> {i}])
      BY <1>3, <2>1, HoldingsMade, HoldsIs DEF LogoutReads
    <2> QED
      BY <1>3, <2>2 DEF GoesOn, Becomes, LogoutReads
  <1>4. ASSUME NEW i \in DOMAIN sessions, DeleteStarts(r, i) PROVE GoesOn(r)
    <2>1. sessions[i].user \in Accounts
      BY Types DEF SessionRows
    <2>2. Becomes(r, [op |-> "revoke", user |-> sessions[i].user])
      BY <1>4, <2>1, HoldingsMade, HoldsIs DEF DeleteStarts
    <2> QED
      BY <1>4, <2>2 DEF GoesOn, Becomes, DeleteStarts
  <1> QED
    BY <1>1, <1>2, <1>3, <1>4

\* A sign-in.
LEMMA SignInGoes ==
  ASSUME TypeOK, NEW r \in Requests, SignIn(r)
  PROVE  GoesOn(r) \/ \E u \in Accounts, sent \in BOOLEAN : SignsIn(r, u, sent)
  <1>1. CASE \E s \in Subjects, n \in Nonces : Consume(r, s, n, "consumed")
    <2>1. PICK s \in Subjects, n \in Nonces : Consume(r, s, n, "consumed")
      BY <1>1
    <2>2. Becomes(r, [op |-> "consumed", subject |-> s, nonce |-> n])
      BY <2>1, HoldingsMade, HoldsIs DEF Consume
    <2> QED
      BY <2>1, <2>2 DEF GoesOn, Becomes, Consume
  <1>2. CASE SignInReads(r)
    <2> DEFINE s == req[r].subject
               n == req[r].nonce
    <2>1. At(r, "consumed") /\ ~IdentityLocked(s) /\ UNCHANGED <<users, identities, sessions, nonces, receipts, claimOpen, clock>>
      BY <1>2 DEF SignInReads
    <2>2. s \in Subjects /\ n \in Nonces
      BY <2>1, HoldingTypes DEF At, Busy, NonceOps
    <2>3. CASE identities[s] = None
      <3>1. PICK u \in NewUsers \ minted :
                   /\ Holds(r, [op |-> "create", subject |-> s, nonce |-> n, user |-> u])
                   /\ minted' = minted \cup {u}
        BY <1>2, <2>3 DEF SignInReads
      <3>2. Becomes(r, [op |-> "create", subject |-> s, nonce |-> n, user |-> u])
        <4> HIDE DEF s, n
        <4> QED
          BY <2>2, <3>1, HoldingsMade, HoldsIs DEF Accounts
      <3> QED
        BY <2>1, <3>1, <3>2 DEF GoesOn, Becomes
    <2>4. CASE identities[s] # None
      <3> DEFINE u == identities[s].user
      <3>1. u \in Accounts
        BY <2>2, <2>4, Types DEF Authorizations
      <3>2. Holds(r, [op |-> "signing", subject |-> s, nonce |-> n, user |-> u]) /\ minted' = minted
        BY <1>2, <2>4 DEF SignInReads
      <3>3. Becomes(r, [op |-> "signing", subject |-> s, nonce |-> n, user |-> u])
        <4> HIDE DEF s, n, u
        <4> QED
          BY <2>2, <3>1, <3>2, HoldingsMade, HoldsIs
      <3> QED
        BY <2>1, <2>4, <3>2, <3>3 DEF GoesOn, Becomes
    <2> QED
      BY <2>3, <2>4
  <1>3. CASE SignUp(r)
    <2>1. At(r, "create") /\ Unique(req[r].subject, req[r].user) /\ Signs(r, req[r].user, TRUE, TRUE)
      BY <1>3 DEF SignUp
    <2>2. req[r].user \in Accounts
      BY <2>1, HoldingTypes DEF At, Busy
    <2>3. Finished(r)
      BY <2>1, EndsIs DEF Signs
    <2>4. SignsIn(r, req[r].user, TRUE)
      BY <2>1, <2>3 DEF Signs, SignsIn, CanIssue, NewFamily
    <2> QED
      BY <2>2, <2>4
  <1>4. CASE \E sent \in Exchanges : SignInAgain(r, sent)
    <2>1. PICK sent \in BOOLEAN : SignInAgain(r, sent)
      BY <1>4 DEF Exchanges
    <2>2. At(r, "signing") /\ UserStays(req[r].user) /\ Signs(r, req[r].user, FALSE, sent)
      BY <2>1 DEF SignInAgain
    <2>3. req[r].user \in Accounts /\ req[r].subject \in Subjects
      BY <2>2, HoldingTypes DEF At, Busy, NonceOps
    <2>4. Finished(r)
      BY <2>2, EndsIs DEF Signs
    <2> DEFINE has == sent \/ (identities[req[r].subject] # None /\ identities[req[r].subject].token)
    <2>5. has \in BOOLEAN
      OBVIOUS
    <2>6. SignsIn(r, req[r].user, has)
      BY <2>2, <2>4 DEF Signs, SignsIn, CanIssue, NewFamily
    <2> QED
      BY <2>3, <2>5, <2>6
  <1> QED
    BY <1>1, <1>2, <1>3, <1>4 DEF SignIn

\* The founder's claim.
LEMMA ClaimGoes ==
  ASSUME TypeOK, NEW r \in Requests, Claim(r)
  PROVE  GoesOn(r) \/ \E u \in Accounts, sent \in BOOLEAN : SignsIn(r, u, sent)
  <1>1. CASE \E s \in Subjects, n \in Nonces : Consume(r, s, n, "claim")
    <2>1. PICK s \in Subjects, n \in Nonces : Consume(r, s, n, "claim")
      BY <1>1
    <2>2. Becomes(r, [op |-> "claim", subject |-> s, nonce |-> n])
      BY <2>1, HoldingsMade, HoldsIs DEF Consume
    <2> QED
      BY <2>1, <2>2 DEF GoesOn, Becomes, Consume
  <1>2. CASE ClaimLocksFounder(r)
    <2> DEFINE rec == [req[r] EXCEPT !.op = "founder"]
    <2>1. At(r, "claim") /\ UserStays(Founder) /\ Holds(r, rec)
      BY <1>2 DEF ClaimLocksFounder
    <2>2. rec \in Holdings /\ rec.op = "founder" /\ rec.nonce = req[r].nonce
      BY <2>1, Types DEF At, Busy, Holdings
    <2>3. Becomes(r, rec)
      BY <2>1, <2>2, HoldsIs
    <2> HIDE DEF rec
    <2> QED
      BY <1>2, <2>1, <2>2, <2>3 DEF GoesOn, Becomes, ClaimLocksFounder
  <1>3. CASE ClaimLocksIdentities(r)
    <2>1. At(r, "founder") /\ ~IdentityLocked(req[r].subject)
      BY <1>3 DEF ClaimLocksIdentities
    <2>2. req[r].subject \in Subjects /\ req[r].nonce \in Nonces
      BY <2>1, HoldingTypes DEF At, Busy, NonceOps
    <2>3. Becomes(r, [op |-> "binding", subject |-> req[r].subject, nonce |-> req[r].nonce])
      BY <1>3, <2>2, HoldingsMade, HoldsIs DEF ClaimLocksIdentities
    <2> QED
      BY <1>3, <2>1, <2>3 DEF GoesOn, Becomes, ClaimLocksIdentities
  <1>4. CASE ClaimCommits(r)
    <2>1. PICK sent \in BOOLEAN : Signs(r, Founder, FALSE, sent)
      BY <1>4 DEF ClaimCommits, Exchanges
    <2>2. Finished(r)
      BY <2>1, EndsIs DEF Signs
    <2> DEFINE has == sent \/ (identities[req[r].subject] # None /\ identities[req[r].subject].token)
    <2>3. SignsIn(r, Founder, has)
      BY <1>4, <2>1, <2>2 DEF Signs, SignsIn, CanIssue, NewFamily, ClaimCommits
    <2>4. has \in BOOLEAN /\ Founder \in Accounts
      BY DEF Accounts
    <2> QED
      BY <2>3, <2>4
  <1> QED
    BY <1>1, <1>2, <1>3, <1>4 DEF Claim

\* A deletion or a notification locks.
LEMMA LocksGo ==
  ASSUME TypeOK, NEW r \in Requests
  PROVE  /\ DeleteLocks(r) => GoesOn(r)
         /\ \A e \in Events : EventLocks(r, e) => GoesOn(r)
  <1>1. ASSUME DeleteLocks(r) PROVE GoesOn(r)
    <2>1. req[r].user \in Accounts
      BY <1>1, HoldingTypes DEF DeleteLocks, At, Busy
    <2>2. CASE req[r].user \in users
      <3>1. Becomes(r, [op |-> "delete", user |-> req[r].user])
        BY <1>1, <2>1, <2>2, HoldingsMade, HoldsIs DEF DeleteLocks
      <3> QED
        BY <1>1, <2>2, <3>1 DEF GoesOn, Becomes, DeleteLocks
    <2>3. CASE req[r].user \notin users
      <3>1. Finished(r)
        BY <1>1, <2>3, EndsIs DEF DeleteLocks
      <3> QED
        BY <1>1, <3>1 DEF GoesOn, Finished, DeleteLocks
    <2> QED
      BY <2>2, <2>3
  <1>2. ASSUME NEW e \in Events, EventLocks(r, e) PROVE GoesOn(r)
    <2> DEFINE id == identities[e.subject]
               R == IF e.at < id.at THEN {}
                    ELSE {i \in DOMAIN sessions : Live(i) /\ sessions[i].user = id.user}
    <2>1. e.subject \in Subjects /\ e.at \in Nat
      BY AccountsAssumption
    <2>2. id # None /\ id.at \in Nat
      BY <1>2, <2>1, Types, AccountsAssumption DEF EventLocks, Authorizations
    <2>3. R \in SUBSET Nat
      BY Types
    <2>4. Holds(r, [op |-> "event", subject |-> e.subject, event |-> e, applied |-> e.at >= id.at, rows |-> R])
      BY <1>2 DEF EventLocks
    <2>5. e.at < id.at => R = {}
      OBVIOUS
    <2>6. ~IdentityLocked(e.subject) /\ identities[e.subject] # None
      BY <1>2 DEF EventLocks, IdentityFree
    <2> HIDE DEF R
    <2> DEFINE b == e.at >= id.at
               rec == [op |-> "event", subject |-> e.subject, event |-> e, applied |-> b, rows |-> R]
    <2>7. b \in BOOLEAN
      OBVIOUS
    <2>8. Becomes(r, rec)
      <3> HIDE DEF b, id
      <3> QED
        BY <2>1, <2>3, <2>4, <2>7, HoldingsMade, HoldsIs DEF b
    <2>9. IF rec.applied THEN rec.event.at >= identities[rec.subject].at ELSE rec.rows = {}
      <3>1. rec.applied = b /\ rec.rows = R /\ rec.event = e /\ identities[rec.subject] = id
        BY <2>1
      <3>2. e.at >= id.at \/ R = {}
        BY <2>1, <2>2, <2>5
      <3>3. b <=> e.at >= id.at
        OBVIOUS
      <3> HIDE DEF rec, id, b
      <3> QED
        BY <3>1, <3>2, <3>3
    <2>10. rec.op = "event" /\ rec.subject = rec.event.subject /\ rec.subject = e.subject
      OBVIOUS
    <2> HIDE DEF rec, id
    <2> QED
      BY <1>2, <2>6, <2>8, <2>9, <2>10 DEF GoesOn, Becomes, EventLocks
  <1> QED
    BY <1>1, <1>2

\* Every step is of one of these kinds.
LEMMA Kinds ==
  ASSUME TypeOK, Next
  PROVE  \/ World
         \/ \E r \in Requests : \/ GoesOn(r) \/ Rotates(r) \/ Revokes(r) \/ Deletes(r)
                                \/ \E u \in Accounts, sent \in BOOLEAN : SignsIn(r, u, sent)
  <1>1. ASSUME NEW r \in Requests, RollBack(r) PROVE GoesOn(r)
    BY <1>1, EndsIs DEF RollBack, GoesOn, Finished
  <1>2. ASSUME NEW r \in Requests, Refresh(r) PROVE World \/ GoesOn(r) \/ Rotates(r) \/ Revokes(r)
    BY <1>2, RefreshGoes, EndsIs DEF Refresh, Rotates, Revokes, RefreshRotates, ReplayRevokes
  <1>3. ASSUME NEW r \in Requests, Logout(r) PROVE GoesOn(r) \/ Revokes(r)
    BY <1>3, RefreshGoes, EndsIs DEF Logout, Revokes, LogoutRevokes
  <1>4. ASSUME NEW r \in Requests, Delete(r) PROVE GoesOn(r) \/ Deletes(r)
    BY <1>4, RefreshGoes, LocksGo, EndsIs DEF Delete, Deletes, DeleteCommits
  <1>5. ASSUME NEW r \in Requests, Notification(r) PROVE GoesOn(r) \/ Revokes(r)
    BY <1>5, LocksGo, EndsIs DEF Notification, Revokes, EventCommits
  <1>6. ASSUME CloseClaim PROVE World
    BY <1>6 DEF CloseClaim, World, TypeOK
  <1>7. ASSUME Tick PROVE World
    BY <1>7, AccountsAssumption DEF Tick, World, TypeOK
  <1>8. ASSUME NEW i \in DOMAIN sessions, Age(i) PROVE World
    BY <1>8 DEF Age, World, TypeOK
  <1>9. ASSUME NEW n \in Nonces, IssueNonce(n) PROVE World
    BY <1>9 DEF IssueNonce, World, TypeOK
  <1> QED
    BY <1>1, <1>2, <1>3, <1>4, <1>5, <1>6, <1>7, <1>8, <1>9, SignInGoes, ClaimGoes DEF Next

-----------------------------------------------------------------------------
(***************************************************************************)
(* What a step does to the sessions                                        *)
(***************************************************************************)
\* Rows and tokens only go, and not while another request has them locked.
Fades(i) ==
    LET old == sessions[i]
        new == sessions'[i]
    IN  /\ i \in DOMAIN sessions' /\ new \in SessionRows
        /\ new.user = old.user /\ new.family = old.family /\ new.nonce = old.nonce
        /\ new.row => old.row
        /\ new.live => old.live
        /\ old.age = "expired" => new.age = "expired"
        /\ old.row /\ ~new.row => old.age = "expired" \/ old.user \notin users'
        /\ \A q \in Requests : Locks(q, i) /\ req'[q] = req[q] => new.row = old.row /\ new.live = old.live

SessionsFade == \A i \in DOMAIN sessions : Fades(i)

\* The only session that is added.
Added(new) ==
    /\ new \in SessionRows /\ DOMAIN sessions' = 1 .. Len(sessions) + 1
    /\ sessions'[Len(sessions) + 1] = new

\* A table of the length of another.
LEMMA Tables ==
  ASSUME NEW s, NEW rows \in Seq(SessionRows), DOMAIN s = DOMAIN rows,
         s = [i \in DOMAIN rows |-> s[i]], \A i \in DOMAIN rows : s[i] \in SessionRows
  PROVE  s \in Seq(SessionRows) /\ Len(s) = Len(rows)
  <1>1. Len(rows) \in Nat /\ DOMAIN rows = 1 .. Len(rows)
    OBVIOUS
  <1>2. s \in [1 .. Len(rows) -> SessionRows]
    BY <1>1
  <1> QED
    BY <1>1, <1>2

\* A row of which a field is replaced is a row.
LEMMA RowsMade ==
  ASSUME NEW row \in SessionRows
  PROVE  /\ [row EXCEPT !.row = FALSE] \in SessionRows
         /\ [row EXCEPT !.live = FALSE] \in SessionRows
         /\ \A a \in {"fresh", "stale", "expired"} : [row EXCEPT !.age = a] \in SessionRows
         /\ row.row \in BOOLEAN /\ row.live \in BOOLEAN /\ row.user \in Accounts
         /\ row.age \in {"fresh", "stale", "expired"}
  BY DEF SessionRows

\* A cleanup takes expired rows.
LEMMA CleanedRows ==
  ASSUME NEW rows \in Seq(SessionRows)
  PROVE  /\ CleanedUp(rows) \in Seq(SessionRows) /\ Len(CleanedUp(rows)) = Len(rows)
         /\ DOMAIN CleanedUp(rows) = DOMAIN rows
         /\ \A i \in DOMAIN rows :
               CleanedUp(rows)[i] = IF Cleanup(rows[i]) THEN [rows[i] EXCEPT !.row = FALSE] ELSE rows[i]
  <1> DEFINE s == CleanedUp(rows)
  <1>1. /\ s = [i \in DOMAIN rows |-> s[i]] /\ DOMAIN s = DOMAIN rows
        /\ \A i \in DOMAIN rows : s[i] = IF Cleanup(rows[i]) THEN [rows[i] EXCEPT !.row = FALSE] ELSE rows[i]
    BY DEF CleanedUp
  <1>2. \A i \in DOMAIN rows : rows[i] \in SessionRows
    OBVIOUS
  <1>3. \A i \in DOMAIN rows : s[i] \in SessionRows
    BY <1>1, <1>2, RowsMade
  <1> HIDE DEF s
  <1>4. s \in Seq(SessionRows) /\ Len(s) = Len(rows)
    BY <1>1, <1>3, Tables
  <1> QED
    BY <1>1, <1>4 DEF s

\* An issued session is the last row.
LEMMA IssuedRows ==
  ASSUME NEW rows \in Seq(SessionRows), NEW new \in SessionRows
  PROVE  LET s == Issued(rows, new)
         IN  /\ s \in Seq(SessionRows) /\ DOMAIN s = 1 .. Len(rows) + 1
             /\ s[Len(rows) + 1] = new
             /\ \A i \in DOMAIN rows :
                   s[i] = IF Cleanup(rows[i]) THEN [rows[i] EXCEPT !.row = FALSE] ELSE rows[i]
  <1> DEFINE c == CleanedUp(rows)
  <1>1. /\ c \in Seq(SessionRows) /\ Len(c) = Len(rows) /\ DOMAIN c = DOMAIN rows
        /\ \A i \in DOMAIN rows : c[i] = IF Cleanup(rows[i]) THEN [rows[i] EXCEPT !.row = FALSE] ELSE rows[i]
    BY CleanedRows
  <1>2. Issued(rows, new) = Append(c, new)
    BY DEF Issued
  <1> HIDE DEF c
  <1>3. /\ Append(c, new) \in Seq(SessionRows) /\ Len(Append(c, new)) = Len(c) + 1
        /\ Append(c, new)[Len(c) + 1] = new
        /\ \A i \in 1 .. Len(c) : Append(c, new)[i] = c[i]
    BY <1>1, AppendProperties
  <1>4. DOMAIN rows = 1 .. Len(rows)
    OBVIOUS
  <1>5. DOMAIN Append(c, new) = 1 .. Len(rows) + 1
    BY <1>1, <1>3
  <1> QED
    BY <1>1, <1>2, <1>3, <1>4, <1>5

\* A new session is a row.
LEMMA NewSessionIs ==
  ASSUME NEW u \in Accounts, NEW f \in Nat, NEW n \in Nonces \cup {None}
  PROVE  /\ NewSession(u, f, n) \in SessionRows
         /\ NewSession(u, f, n).user = u /\ NewSession(u, f, n).family = f
         /\ NewSession(u, f, n).nonce = n /\ NewSession(u, f, n).row /\ NewSession(u, f, n).live
         /\ NewSession(u, f, n).age = "fresh"
  BY DEF NewSession, SessionRows

\* No step of the world, of a reader, of a revocation or of a deletion adds a session.
LEMMA WorldFades ==
  ASSUME TypeOK, World
  PROVE  SessionsFade /\ sessions' \in Seq(SessionRows) /\ DOMAIN sessions' = DOMAIN sessions
  <1>1. sessions \in Seq(SessionRows) /\ \A i \in DOMAIN sessions : sessions[i] \in SessionRows
    BY Types DEF TypeOK
  <1>2. CASE sessions' = sessions
    BY <1>1, <1>2 DEF SessionsFade, Fades
  <1>3. ASSUME NEW i \in DOMAIN sessions,
               \/ Age(i)
               \/ sessions[i].row /\ ~RowLocked(i) /\ sessions' = [sessions EXCEPT ![i].live = FALSE]
        PROVE  SessionsFade /\ sessions' \in Seq(SessionRows) /\ DOMAIN sessions' = DOMAIN sessions
    <2>1. PICK row \in SessionRows :
                /\ sessions' = [sessions EXCEPT ![i] = row]
                /\ \/ /\ sessions[i].age # "expired"
                      /\ \E a \in {"stale", "expired"} : row = [sessions[i] EXCEPT !.age = a]
                   \/ ~RowLocked(i) /\ row = [sessions[i] EXCEPT !.live = FALSE]
      <3>1. CASE Age(i)
        <4>1. PICK a \in {"stale", "expired"} : sessions' = [sessions EXCEPT ![i].age = a]
          BY <3>1 DEF Age
        <4> QED
          BY <1>1, <3>1, <4>1, RowsMade DEF Age
      <3>2. CASE sessions[i].row /\ ~RowLocked(i) /\ sessions' = [sessions EXCEPT ![i].live = FALSE]
        BY <1>1, <3>2, RowsMade
      <3> QED
        BY <1>3, <3>1, <3>2
    <2>2. /\ sessions' \in Seq(SessionRows) /\ DOMAIN sessions' = DOMAIN sessions
          /\ \A j \in DOMAIN sessions : sessions'[j] = IF j = i THEN row ELSE sessions[j]
      <3>1. i \in 1 .. Len(sessions) /\ DOMAIN sessions = 1 .. Len(sessions)
        BY Types
      <3> QED
        BY <1>1, <2>1, <3>1, ExceptSeq
    <2>3. \A q \in Requests : Locks(q, i) => RowLocked(i)
      BY DEF RowLocked
    <2>4. /\ row.user = sessions[i].user /\ row.family = sessions[i].family /\ row.nonce = sessions[i].nonce
          /\ row.row = sessions[i].row /\ (row.live => sessions[i].live)
          /\ sessions[i].age = "expired" => row.age = "expired"
          /\ RowLocked(i) => row.live = sessions[i].live
      BY <1>1, <2>1 DEF SessionRows
    <2> QED
      BY <1>1, <2>1, <2>2, <2>3, <2>4 DEF SessionsFade, Fades
  <1>4. ASSUME NEW n \in Nonces, IssueNonce(n)
        PROVE  SessionsFade /\ sessions' \in Seq(SessionRows) /\ DOMAIN sessions' = DOMAIN sessions
    <2>1. sessions' = CleanedUp(sessions) /\ CleanupFree(Requests)
      BY <1>4 DEF IssueNonce
    <2>2. /\ sessions' \in Seq(SessionRows) /\ DOMAIN sessions' = DOMAIN sessions
          /\ \A i \in DOMAIN sessions :
                sessions'[i] = IF sessions[i].age = "expired" THEN [sessions[i] EXCEPT !.row = FALSE] ELSE sessions[i]
      BY <1>1, <2>1, CleanedRows DEF Cleanup
    <2>3. \A i \in DOMAIN sessions, q \in Requests : Locks(q, i) =>
             ~sessions[i].row \/ sessions[i].age # "expired"
      BY <2>1 DEF CleanupFree, Cleanup
    <2>4. \A i \in DOMAIN sessions : [sessions[i] EXCEPT !.row = FALSE].row = FALSE
             /\ sessions'[i] \in SessionRows /\ sessions[i].row \in BOOLEAN
      BY <1>1, <2>2, RowsMade DEF SessionRows
    <2>5. ASSUME NEW i \in DOMAIN sessions PROVE Fades(i)
      BY <1>1, <2>2, <2>3, <2>4 DEF Fades, SessionRows
    <2> QED
      BY <2>2, <2>5 DEF SessionsFade
  <1> QED
    BY <1>2, <1>3, <1>4 DEF World

\* A revocation: the tokens of rows that no other request has locked.
LEMMA RevokesFades ==
  ASSUME TypeOK, SessionsHeld, NEW r \in Requests, Revokes(r)
  PROVE  SessionsFade /\ sessions' \in Seq(SessionRows) /\ DOMAIN sessions' = DOMAIN sessions
  <1>1. sessions \in Seq(SessionRows) /\ \A i \in DOMAIN sessions : sessions[i] \in SessionRows
    BY Types DEF TypeOK
  <1>2. PICK read :
              /\ sessions' = Revoked(read)
              /\ \A i \in read, q \in Requests : Locks(q, i) => q = r
    <2>1. CASE ReplayRevokes(r)
      <3>1. Updatable(req[r].rows \ {req[r].session}) /\ sessions' = Revoked(req[r].rows)
            /\ HasSession(r)
        BY <2>1 DEF ReplayRevokes, At, HasSession
      <3>2. ASSUME NEW i \in req[r].rows, NEW q \in Requests, Locks(q, i) PROVE q = r
        <4>1. CASE i = req[r].session
          BY <3>1, <3>2, <4>1 DEF Locks, HasSession, SessionsHeld
        <4>2. CASE i # req[r].session
          BY <3>1, <3>2, <4>2 DEF Updatable, RowLocked
        <4> QED
          BY <4>1, <4>2
      <3> QED
        BY <3>1, <3>2
    <2>2. CASE LogoutRevokes(r)
      BY <2>2 DEF LogoutRevokes, Updatable, RowLocked
    <2>3. CASE EventCommits(r)
      BY <2>3 DEF EventCommits, Updatable, RowLocked
    <2> QED
      BY <2>1, <2>2, <2>3 DEF Revokes
  <1>3. /\ DOMAIN sessions' = DOMAIN sessions
        /\ sessions' = [i \in DOMAIN sessions |-> sessions'[i]]
        /\ \A i \in DOMAIN sessions :
              sessions'[i] = IF i \in read THEN [sessions[i] EXCEPT !.live = FALSE] ELSE sessions[i]
    BY <1>2 DEF Revoked
  <1>4. \A i \in DOMAIN sessions : sessions'[i] \in SessionRows
    BY <1>1, <1>3, RowsMade
  <1>5. sessions' \in Seq(SessionRows)
    BY <1>1, <1>3, <1>4, Tables
  <1>6. req'[r] = None /\ (\A i : Locks(r, i) => req[r] # None)
    BY DEF Revokes, Finished, Locks, Busy
  <1>7. ASSUME NEW i \in DOMAIN sessions PROVE Fades(i)
    <2>1. CASE i \in read
      BY <1>1, <1>2, <1>3, <1>4, <1>6, <2>1 DEF Fades, SessionRows
    <2>2. CASE i \notin read
      BY <1>1, <1>3, <1>4, <2>2 DEF Fades
    <2> QED
      BY <2>1, <2>2
  <1> QED
    BY <1>3, <1>5, <1>7 DEF SessionsFade

\* A deletion: the rows of a user who is gone.
LEMMA DeletesFades ==
  ASSUME TypeOK, NEW r \in Requests, Deletes(r)
  PROVE  SessionsFade /\ sessions' \in Seq(SessionRows) /\ DOMAIN sessions' = DOMAIN sessions
  <1> DEFINE u == req[r].user
  <1>1. sessions \in Seq(SessionRows) /\ \A i \in DOMAIN sessions : sessions[i] \in SessionRows
    BY Types DEF TypeOK
  <1>2. /\ \A i \in DOMAIN sessions : sessions[i].user = u /\ sessions[i].row => ~RowLocked(i)
        /\ users' = users \ {u} /\ sessions' = SessionsWithout(u)
    BY DEF Deletes, DeleteCommits
  <1>3. /\ DOMAIN sessions' = DOMAIN sessions
        /\ sessions' = [i \in DOMAIN sessions |-> sessions'[i]]
        /\ \A i \in DOMAIN sessions :
              sessions'[i] = IF sessions[i].user = u THEN [sessions[i] EXCEPT !.row = FALSE] ELSE sessions[i]
    BY <1>2 DEF SessionsWithout
  <1>4. \A i \in DOMAIN sessions : sessions'[i] \in SessionRows
    BY <1>1, <1>3, RowsMade
  <1>5. sessions' \in Seq(SessionRows)
    BY <1>1, <1>3, <1>4, Tables
  <1>6. ASSUME NEW i \in DOMAIN sessions PROVE Fades(i)
    <2>1. CASE sessions[i].user = u
      <3>1. \A q \in Requests : Locks(q, i) => ~sessions[i].row
        BY <1>2, <2>1 DEF RowLocked
      <3>2. sessions[i].user \notin users'
        BY <1>2, <2>1
      <3> QED
        BY <1>1, <1>3, <1>4, <2>1, <3>1, <3>2 DEF Fades, SessionRows
    <2>2. CASE sessions[i].user # u
      BY <1>1, <1>3, <1>4, <2>2 DEF Fades
    <2> QED
      BY <2>1, <2>2
  <1> QED
    BY <1>3, <1>5, <1>6 DEF SessionsFade

\* A sign-in adds a session of a family of its own.
LEMMA SignsInAdds ==
  ASSUME TypeOK, NEW r \in Requests, NEW u \in Accounts, NEW sent \in BOOLEAN, SignsIn(r, u, sent)
  PROVE  /\ SessionsFade /\ sessions' \in Seq(SessionRows)
         /\ HasNonce(r) /\ req[r].nonce \in Nonces /\ req[r].subject \in Subjects
         /\ Added(NewSession(u, Len(sessions) + 1, req[r].nonce))
  <1> DEFINE new == NewSession(u, Len(sessions) + 1, req[r].nonce)
  <1>1. sessions \in Seq(SessionRows) /\ \A i \in DOMAIN sessions : sessions[i] \in SessionRows
    BY Types DEF TypeOK
  <1>2. HasNonce(r) /\ req[r].nonce \in Nonces /\ req[r].subject \in Subjects
    BY HoldingTypes DEF SignsIn, At, Busy, HasNonce, NonceOps
  <1>3. new \in SessionRows
    <2>1. Len(sessions) + 1 \in Nat
      BY Types
    <2> QED
      BY <1>2, <2>1, NewSessionIs
  <1>4. sessions' = Issued(sessions, new) /\ CleanupFree(Requests \ {r}) /\ req'[r] = None
    BY DEF SignsIn, Finished
  <1> HIDE DEF new
  <1>5. /\ sessions' \in Seq(SessionRows) /\ DOMAIN sessions' = 1 .. Len(sessions) + 1
        /\ sessions'[Len(sessions) + 1] = new
        /\ \A i \in DOMAIN sessions :
              sessions'[i] = IF sessions[i].age = "expired" THEN [sessions[i] EXCEPT !.row = FALSE] ELSE sessions[i]
    BY <1>1, <1>3, <1>4, IssuedRows DEF Cleanup
  <1>6. \A i \in DOMAIN sessions, q \in Requests : Locks(q, i) /\ req'[q] = req[q] =>
           ~sessions[i].row \/ sessions[i].age # "expired"
    BY <1>4 DEF CleanupFree, Cleanup, Locks, Busy
  <1>7. ASSUME NEW i \in DOMAIN sessions PROVE Fades(i)
    <2>1. i \in DOMAIN sessions'
      BY <1>1, <1>5
    <2>2. sessions'[i] \in SessionRows
      BY <1>1, <1>5, RowsMade
    <2> QED
      BY <1>1, <1>5, <1>6, <2>1, <2>2 DEF Fades, SessionRows
  <1> QED
    BY <1>2, <1>3, <1>5, <1>7 DEF SessionsFade, Added, new

\* A rotation adds a session of the family of the one it ends.
LEMMA RotatesAdds ==
  ASSUME TypeOK, SessionsHeld, NEW r \in Requests, Rotates(r)
  PROVE  LET i == req[r].session
         IN  /\ SessionsFade /\ sessions' \in Seq(SessionRows)
             /\ i \in DOMAIN sessions /\ Live(i) /\ ~sessions'[i].live
             /\ UserStays(sessions[i].user)
             /\ Added(NewSession(sessions[i].user, sessions[i].family, None))
  <1> DEFINE i == req[r].session
             new == NewSession(sessions[i].user, sessions[i].family, None)
             rest == [sessions EXCEPT ![i].live = FALSE]
  <1>1. sessions \in Seq(SessionRows) /\ \A j \in DOMAIN sessions : sessions[j] \in SessionRows
    BY Types DEF TypeOK
  <1>2. At(r, "rotate") /\ CleanupFree(Requests \ {r}) /\ UserStays(sessions[i].user)
        /\ sessions' = Issued(rest, new) /\ req'[r] = None
    BY DEF Rotates, RefreshRotates, CanIssue, Finished
  <1>3. i \in DOMAIN sessions /\ Live(i)
    BY <1>2 DEF At, SessionsHeld, HasSession, Live
  <1>4. sessions[i].user \in Accounts /\ sessions[i].family \in Nat
    BY <1>1, <1>3 DEF SessionRows
  <1>5. new \in SessionRows
    BY <1>4, NewSessionIs
  <1>6. rest = [sessions EXCEPT ![i] = [sessions[i] EXCEPT !.live = FALSE]]
    OBVIOUS
  <1>7. /\ rest \in Seq(SessionRows) /\ Len(rest) = Len(sessions) /\ DOMAIN rest = DOMAIN sessions
        /\ \A j \in DOMAIN sessions :
              rest[j] = IF j = i THEN [sessions[i] EXCEPT !.live = FALSE] ELSE sessions[j]
    <2>1. i \in 1 .. Len(sessions) /\ DOMAIN sessions = 1 .. Len(sessions)
      BY <1>3, Types
    <2>2. [sessions[i] EXCEPT !.live = FALSE] \in SessionRows
      BY <1>1, <1>3, RowsMade
    <2> HIDE DEF i, rest
    <2> QED
      BY <1>1, <1>6, <2>1, <2>2, ExceptSeq
  <1> HIDE DEF i, new, rest
  <1>8. /\ sessions' \in Seq(SessionRows) /\ DOMAIN sessions' = 1 .. Len(sessions) + 1
        /\ sessions'[Len(sessions) + 1] = new
        /\ \A j \in DOMAIN sessions :
              sessions'[j] = IF rest[j].age = "expired" THEN [rest[j] EXCEPT !.row = FALSE] ELSE rest[j]
    <2>1. LET c == Issued(rest, new)
          IN  /\ c \in Seq(SessionRows) /\ DOMAIN c = 1 .. Len(rest) + 1
              /\ c[Len(rest) + 1] = new
              /\ \A j \in DOMAIN rest :
                    c[j] = IF Cleanup(rest[j]) THEN [rest[j] EXCEPT !.row = FALSE] ELSE rest[j]
      BY <1>5, <1>7, IssuedRows
    <2> QED
      BY <1>2, <1>7, <2>1 DEF Cleanup
  <1>9. \A j \in DOMAIN sessions :
           /\ rest[j] \in SessionRows /\ rest[j].age = sessions[j].age /\ rest[j].row = sessions[j].row
           /\ rest[j].user = sessions[j].user /\ rest[j].family = sessions[j].family
           /\ rest[j].nonce = sessions[j].nonce
           /\ rest[j].live = (sessions[j].live /\ j # i)
    BY <1>1, <1>7, RowsMade DEF SessionRows
  <1>10. \A j \in DOMAIN sessions, q \in Requests : Locks(q, j) /\ req'[q] = req[q] =>
            /\ ~sessions[j].row \/ sessions[j].age # "expired"
            /\ j # i
    <2>1. \A q \in Requests : Locks(q, i) => q = r
      BY <1>2 DEF SessionsHeld, Locks, HasSession, At, i
    <2>2. \A q \in Requests, j \in DOMAIN sessions : Locks(q, j) => req[q] # None
      BY DEF Locks, Busy
    <2> QED
      BY <1>2, <2>1, <2>2 DEF CleanupFree, Cleanup
  <1>11. ASSUME NEW j \in DOMAIN sessions PROVE Fades(j) /\ sessions'[j].live = rest[j].live
    <2>1. j \in DOMAIN sessions'
      BY <1>1, <1>8
    <2>2. sessions'[j] \in SessionRows
      BY <1>8, <1>9, RowsMade
    <2>3. /\ sessions'[j].live = rest[j].live /\ sessions'[j].user = rest[j].user
          /\ sessions'[j].family = rest[j].family /\ sessions'[j].nonce = rest[j].nonce
          /\ sessions'[j].age = rest[j].age
          /\ sessions'[j].row = (rest[j].row /\ rest[j].age # "expired")
      <3>1. rest[j] \in SessionRows
        BY <1>9
      <3>2. CASE rest[j].age = "expired"
        <4>1. sessions'[j] = [rest[j] EXCEPT !.row = FALSE]
          BY <1>8, <3>2
        <4> QED
          BY <3>1, <3>2, <4>1 DEF SessionRows
      <3>3. CASE rest[j].age # "expired"
        <4>1. sessions'[j] = rest[j]
          BY <1>8, <3>3
        <4>2. rest[j].row \in BOOLEAN
          BY <3>1, RowsMade
        <4> QED
          BY <3>3, <4>1, <4>2
      <3> QED
        BY <3>2, <3>3
    <2> QED
      BY <1>1, <1>9, <1>10, <2>1, <2>2, <2>3 DEF Fades, SessionRows
  <1>12. ~sessions'[i].live
    BY <1>3, <1>9, <1>11
  <1> QED
    BY <1>2, <1>3, <1>5, <1>8, <1>11, <1>12 DEF SessionsFade, Added, new, i

\* In every step the sessions that are there fade, and at most one is added.
LEMMA SessionsStep ==
  ASSUME TypeOK, SessionsHeld, Next
  PROVE  /\ SessionsFade /\ sessions' \in Seq(SessionRows)
         /\ \/ DOMAIN sessions' = DOMAIN sessions
            \/ \E r \in Requests : Rotates(r) \/ \E u \in Accounts, sent \in BOOLEAN : SignsIn(r, u, sent)
  <1>1. ASSUME NEW r \in Requests, GoesOn(r)
        PROVE  SessionsFade /\ sessions' \in Seq(SessionRows) /\ DOMAIN sessions' = DOMAIN sessions
    <2>1. sessions \in Seq(SessionRows) /\ (\A i \in DOMAIN sessions : sessions[i] \in SessionRows)
          /\ sessions' = sessions
      BY <1>1, Types DEF TypeOK, GoesOn
    <2> QED
      BY <2>1 DEF SessionsFade, Fades
  <1> QED
    BY <1>1, Kinds, WorldFades, RevokesFades, DeletesFades, RotatesAdds, SignsInAdds

-----------------------------------------------------------------------------
(***************************************************************************)
(* Every step preserves the invariant                                      *)
(***************************************************************************)
\* A request keeps its type, whatever it goes on to or ends with.
LEMMA ReqType ==
  ASSUME TypeOK, NEW r \in Requests, Others(r), req'[r] = None \/ req'[r] \in Holdings
  PROVE  req' \in [Requests -> Holdings \cup {None}]
  BY DEF TypeOK, Others

\* Types.
LEMMA TypeStep ==
  ASSUME TypeOK, SessionsHeld, Next
  PROVE  TypeOK'
  <1>1. sessions' \in Seq(SessionRows)
    BY SessionsStep
  <1>2. \A i \in DOMAIN sessions' : sessions'[i].family \in 1..i
    <2>1. SessionsFade /\ \A i \in DOMAIN sessions : sessions[i].family \in 1..i
      BY SessionsStep DEF TypeOK
    <2>2. CASE DOMAIN sessions' = DOMAIN sessions
      BY <2>1, <2>2 DEF SessionsFade, Fades
    <2>3. ASSUME NEW r \in Requests, NEW u \in Accounts, NEW sent \in BOOLEAN, SignsIn(r, u, sent)
          PROVE  \A i \in DOMAIN sessions' : sessions'[i].family \in 1..i
      <3>1. Added(NewSession(u, Len(sessions) + 1, req[r].nonce))
        BY <2>3, SignsInAdds
      <3> QED
        BY <2>1, <3>1, Types DEF SessionsFade, Fades, Added, NewSession
    <2>4. ASSUME NEW r \in Requests, Rotates(r)
          PROVE  \A i \in DOMAIN sessions' : sessions'[i].family \in 1..i
      <3>1. PICK i \in DOMAIN sessions : Added(NewSession(sessions[i].user, sessions[i].family, None))
        BY <2>4, RotatesAdds
      <3>2. sessions'[Len(sessions) + 1].family \in 1 .. Len(sessions) + 1
        BY <2>1, <3>1, Types DEF Added, NewSession
      <3> QED
        BY <2>1, <3>1, <3>2, Types DEF SessionsFade, Fades, Added
    <2> QED
      BY <2>2, <2>3, <2>4, SessionsStep
  <1>3. ASSUME World PROVE TypeOK'
    <2>1. nonces' \in [Nonces -> {"none", "fresh", "used"}]
      BY <1>3 DEF World, TypeOK, Age, IssueNonce
    <2> QED
      BY <1>1, <1>2, <1>3, <2>1 DEF World, TypeOK
  <1>4. ASSUME NEW r \in Requests, GoesOn(r) PROVE TypeOK'
    <2>1. req' \in [Requests -> Holdings \cup {None}]
      BY <1>4, ReqType DEF GoesOn
    <2>2. minted' \subseteq NewUsers
      BY <1>4 DEF GoesOn, TypeOK
    <2> QED
      BY <1>1, <1>2, <1>4, <2>1, <2>2 DEF GoesOn, TypeOK
  <1>5. ASSUME NEW r \in Requests, Finished(r) PROVE req' \in [Requests -> Holdings \cup {None}]
    BY <1>5, ReqType DEF Finished
  <1>6. ASSUME NEW r \in Requests, Rotates(r) PROVE TypeOK'
    BY <1>1, <1>2, <1>5, <1>6 DEF Rotates, RefreshRotates, TypeOK
  <1>7. ASSUME NEW r \in Requests, Revokes(r) PROVE TypeOK'
    <2>1. /\ UNCHANGED <<users, nonces, claimOpen, minted, clock>>
          /\ req' \in [Requests -> Holdings \cup {None}]
      BY <1>5, <1>7 DEF Revokes, ReplayRevokes, LogoutRevokes, EventCommits
    <2>2. CASE UNCHANGED <<identities, receipts>>
      BY <1>1, <1>2, <2>1, <2>2 DEF TypeOK
    <2>3. CASE EventCommits(r)
      <3>1. req[r].event \in Events /\ req[r].subject \in Subjects /\ identities[req[r].subject] # None
        BY <2>3, HoldingTypes DEF EventCommits, At, Busy
      <3>2. receipts' \subseteq {e.jti : e \in Events}
        BY <2>3, <3>1 DEF EventCommits, TypeOK
      <3>3. identities' \in [Subjects -> Authorizations \cup {None}]
        <4>1. identities[req[r].subject] \in Authorizations
          BY <3>1, Types
        <4>2. [identities[req[r].subject] EXCEPT !.token = FALSE] \in Authorizations
          BY <4>1 DEF Authorizations
        <4> QED
          BY <2>3, <4>2 DEF EventCommits, TypeOK
      <3> QED
        BY <1>1, <1>2, <2>1, <3>2, <3>3 DEF TypeOK
    <2> QED
      BY <1>7, <2>2, <2>3 DEF Revokes, ReplayRevokes, LogoutRevokes
  <1>8. ASSUME NEW r \in Requests, Deletes(r) PROVE TypeOK'
    <2>1. identities' \in [Subjects -> Authorizations \cup {None}]
      BY <1>8 DEF Deletes, DeleteCommits, TypeOK
    <2> QED
      BY <1>1, <1>2, <1>5, <1>8, <2>1 DEF Deletes, DeleteCommits, TypeOK
  <1>9. ASSUME NEW r \in Requests, NEW u \in Accounts, NEW sent \in BOOLEAN, SignsIn(r, u, sent)
        PROVE  TypeOK'
    <2>1. req[r].nonce \in Nonces /\ req[r].subject \in Subjects
      BY <1>9, SignsInAdds
    <2>2. Authorized(u, sent) \in Authorizations
      BY DEF Authorized, Authorizations, TypeOK
    <2>3. /\ identities' \in [Subjects -> Authorizations \cup {None}]
          /\ nonces' \in [Nonces -> {"none", "fresh", "used"}]
      BY <1>9, <2>1, <2>2 DEF SignsIn, TypeOK
    <2>4. users' \subseteq Accounts
      BY <1>9 DEF SignsIn, TypeOK
    <2> QED
      BY <1>1, <1>2, <1>5, <1>9, <2>3, <2>4 DEF SignsIn, TypeOK
  <1> QED
    BY <1>3, <1>4, <1>6, <1>7, <1>8, <1>9, Kinds

\* A nonce stays with the request that consumed it until it is used.
LEMMA NoncesStep ==
  ASSUME TypeOK, SessionsHeld, NoncesHeld, NoncesUsed, Next
  PROVE  NoncesHeld' /\ NoncesUsed'
  <1>1. \A n \in Nonces : nonces[n] = "used" => nonces'[n] = "used"
    <2>1. ASSUME World PROVE nonces' = nonces \/ \E n \in Nonces : IssueNonce(n)
      BY <2>1 DEF World
    <2> QED
      BY Kinds, <2>1 DEF IssueNonce, GoesOn, Rotates, RefreshRotates, Revokes, ReplayRevokes,
            LogoutRevokes, EventCommits, Deletes, DeleteCommits, SignsIn, TypeOK
  <1>2. SessionsFade /\ \A i \in DOMAIN sessions : sessions[i].nonce \in Nonces \cup {None}
    BY SessionsStep, Types DEF SessionRows
  <1>3. \A i \in DOMAIN sessions : sessions'[i].nonce # None => nonces'[sessions'[i].nonce] = "used"
    BY <1>1, <1>2 DEF SessionsFade, Fades, NoncesUsed
  <1>4. ASSUME NEW r \in Requests, Finished(r), nonces' = nonces PROVE NoncesHeld'
    BY <1>4 DEF Finished, Others, NoncesHeld, HasNonce, Busy
  <1>5. ASSUME NEW r \in Requests, Rotates(r) PROVE NoncesHeld' /\ NoncesUsed'
    <2>1. PICK i \in DOMAIN sessions : Added(NewSession(sessions[i].user, sessions[i].family, None))
      BY <1>5, RotatesAdds
    <2>2. \A j \in DOMAIN sessions' : j \in DOMAIN sessions \/ sessions'[j].nonce = None
      BY <2>1, Types DEF Added, NewSession
    <2>3. NoncesUsed'
      BY <1>3, <2>2 DEF NoncesUsed
    <2> QED
      BY <1>4, <1>5, <2>3 DEF Rotates, RefreshRotates
  <1>6. ASSUME NEW r \in Requests, NEW u \in Accounts, NEW sent \in BOOLEAN, SignsIn(r, u, sent)
        PROVE  NoncesHeld' /\ NoncesUsed'
    <2>1. HasNonce(r) /\ req[r].nonce \in Nonces /\ nonces' = [nonces EXCEPT ![req[r].nonce] = "used"]
          /\ Added(NewSession(u, Len(sessions) + 1, req[r].nonce)) /\ Finished(r)
      BY <1>6, SignsInAdds DEF SignsIn
    <2>2. \A q \in Requests : HasNonce(q)' => q # r /\ HasNonce(q) /\ req'[q] = req[q] /\ req[q].nonce \in Nonces
      BY <2>1, HoldingTypes DEF Finished, Others, HasNonce, Busy
    <2>3. nonces'[req[r].nonce] = "used"
          /\ \A n \in Nonces : n # req[r].nonce => nonces'[n] = nonces[n]
      BY <2>1 DEF TypeOK
    <2>4. NoncesHeld'
      BY <2>1, <2>2, <2>3 DEF NoncesHeld
    <2>5. NoncesUsed'
      BY <1>3, <2>1, <2>3, Types DEF NoncesUsed, Added, NewSession
    <2> QED
      BY <2>4, <2>5
  <1>7. ASSUME NEW r \in Requests, GoesOn(r) PROVE NoncesHeld'
    <2>1. nonces' = nonces /\ \A q \in Requests \ {r} : req'[q] = req[q]
      BY <1>7 DEF GoesOn, Others
    <2>2. ASSUME HasNonce(r)'
          PROVE  nonces[req'[r].nonce] = "fresh" /\ \A q \in Requests \ {r} :
                    HasNonce(q) => req[q].nonce # req'[r].nonce
      <3>1. CASE HasNonce(r) /\ req'[r].nonce = req[r].nonce
        BY <3>1 DEF NoncesHeld
      <3>2. CASE nonces[req'[r].nonce] = "fresh" /\ NonceFree(req'[r].nonce)
        BY <3>2 DEF NonceFree, HasNonce, NonceOps
      <3> QED
        BY <1>7, <2>2, <3>1, <3>2 DEF GoesOn, HasNonce, NonceOps, At, Busy
    <2> QED
      BY <2>1, <2>2 DEF NoncesHeld, HasNonce, Busy
  <1>8. ASSUME World PROVE NoncesHeld'
    <2>1. req' = req /\ (nonces' = nonces \/ \E n \in Nonces : nonces[n] = "none" /\ nonces' = [nonces EXCEPT ![n] = "fresh"])
      BY <1>8 DEF World, IssueNonce
    <2>2. \A n \in Nonces : nonces[n] = "fresh" => nonces'[n] = "fresh"
      BY <2>1 DEF TypeOK
    <2> QED
      BY <2>1, <2>2, HoldingTypes DEF NoncesHeld, HasNonce, Busy
  <1>9. DOMAIN sessions' = DOMAIN sessions => NoncesUsed'
    BY <1>3 DEF NoncesUsed
  <1>10. ASSUME NEW r \in Requests, Revokes(r) PROVE NoncesHeld'
    BY <1>4, <1>10 DEF Revokes, ReplayRevokes, LogoutRevokes, EventCommits
  <1>11. ASSUME NEW r \in Requests, Deletes(r) PROVE NoncesHeld'
    BY <1>4, <1>11 DEF Deletes, DeleteCommits
  <1> QED
    BY <1>5, <1>6, <1>7, <1>8, <1>9, <1>10, <1>11, Kinds, SessionsStep

\* In a step that no request goes on with, each keeps what it has or ends.
LEMMA Quiet ==
  ASSUME TypeOK, Next
  PROVE  \/ \A q \in Requests : req'[q] = req[q] \/ req'[q] = None
         \/ \E r \in Requests : GoesOn(r)
  BY Kinds DEF World, Rotates, Revokes, Deletes, SignsIn, Finished, Others

\* A locked session stays as it was found.
LEMMA SessionsHeldStep ==
  ASSUME TypeOK, SessionsHeld, Next
  PROVE  SessionsHeld'
  <1>1. ASSUME NEW q \in Requests, HasSession(q), req'[q] = req[q]
        PROVE  LET i == req[q].session
               IN  i \in DOMAIN sessions' /\ sessions'[i].row /\ (req[q].op = "rotate" => sessions'[i].live)
    BY <1>1, SessionsStep DEF SessionsFade, Fades, SessionsHeld, HasSession, Locks
  <1>2. CASE \A q \in Requests : req'[q] = req[q] \/ req'[q] = None
    BY <1>1, <1>2 DEF SessionsHeld, HasSession, Busy
  <1>3. ASSUME NEW r \in Requests, GoesOn(r) PROVE SessionsHeld'
    <2>1. sessions' = sessions /\ \A q \in Requests \ {r} : req'[q] = req[q]
      BY <1>3 DEF GoesOn, Others
    <2>2. ASSUME HasSession(r)'
          PROVE  LET i == req'[r].session
                 IN  /\ i \in DOMAIN sessions /\ sessions[i].row /\ (req'[r].op = "rotate" => sessions[i].live)
                     /\ \A q \in Requests \ {r} : HasSession(q) => req[q].session # i
      <3>1. CASE HasSession(r) /\ req'[r].op = "seen" /\ req'[r].session = req[r].session
        BY <3>1 DEF SessionsHeld
      <3>2. CASE /\ req'[r].session \in DOMAIN sessions /\ sessions[req'[r].session].row
                 /\ ~RowLocked(req'[r].session)
                 /\ req'[r].op = "rotate" => sessions[req'[r].session].live
        BY <3>2 DEF RowLocked, Locks, HasSession
      <3> QED
        BY <1>3, <2>2, <3>1, <3>2 DEF GoesOn, HasSession, At, Busy
    <2> QED
      BY <2>1, <2>2 DEF SessionsHeld, HasSession, Busy
  <1> QED
    BY <1>2, <1>3, Quiet

\* A rotation ends the live session of its family before it adds another.
LEMMA OneLiveStep ==
  ASSUME TypeOK, SessionsHeld, OneLivePerFamily, Next
  PROVE  OneLivePerFamily'
  <1>1. SessionsFade
    BY SessionsStep
  <1>2. \A i \in DOMAIN sessions : Live(i)' => Live(i) /\ sessions'[i].family = sessions[i].family
    BY <1>1 DEF SessionsFade, Fades, Live
  <1>3. CASE DOMAIN sessions' = DOMAIN sessions
    BY <1>2, <1>3 DEF OneLivePerFamily
  <1>4. ASSUME NEW r \in Requests, NEW u \in Accounts, NEW sent \in BOOLEAN, SignsIn(r, u, sent)
        PROVE  OneLivePerFamily'
    <2>1. Added(NewSession(u, Len(sessions) + 1, req[r].nonce))
      BY <1>4, SignsInAdds
    <2>2. sessions'[Len(sessions) + 1].family = Len(sessions) + 1
          /\ \A i \in DOMAIN sessions' : i \in DOMAIN sessions \/ i = Len(sessions) + 1
      BY <2>1, Types DEF Added, NewSession
    <2>3. \A i \in DOMAIN sessions : sessions'[i].family # Len(sessions) + 1
      BY <1>1, Types DEF SessionsFade, Fades, TypeOK
    <2> QED
      BY <1>2, <2>2, <2>3 DEF OneLivePerFamily
  <1>5. ASSUME NEW r \in Requests, Rotates(r) PROVE OneLivePerFamily'
    <2>1. PICK i \in DOMAIN sessions :
                /\ Live(i) /\ ~sessions'[i].live
                /\ Added(NewSession(sessions[i].user, sessions[i].family, None))
      BY <1>5, RotatesAdds
    <2>2. sessions'[Len(sessions) + 1].family = sessions[i].family
          /\ \A j \in DOMAIN sessions' : j \in DOMAIN sessions \/ j = Len(sessions) + 1
      BY <2>1, Types DEF Added, NewSession
    <2>3. \A j \in DOMAIN sessions : Live(j)' => sessions'[j].family # sessions[i].family
      BY <1>2, <2>1 DEF OneLivePerFamily, Live
    <2> QED
      BY <1>2, <2>2, <2>3 DEF OneLivePerFamily
  <1> QED
    BY <1>3, <1>4, <1>5, SessionsStep

\* What a step does to the users: one is deleted, or one is new.
LEMMA UsersStep ==
  ASSUME TypeOK, Next
  PROVE  \/ users' = users
         \/ \E r \in Requests : Deletes(r) /\ users' = users \ {req[r].user}
         \/ \E r \in Requests, sent \in BOOLEAN :
               SignsIn(r, req[r].user, sent) /\ At(r, "create") /\ users' = users \cup {req[r].user}
  <1>1. ASSUME World PROVE users' = users
    BY <1>1 DEF World
  <1>2. ASSUME NEW r \in Requests, GoesOn(r) \/ Rotates(r) \/ Revokes(r) PROVE users' = users
    BY <1>2 DEF GoesOn, Rotates, RefreshRotates, Revokes, ReplayRevokes, LogoutRevokes, EventCommits
  <1>3. ASSUME NEW r \in Requests, Deletes(r) PROVE users' = users \ {req[r].user}
    BY <1>3 DEF Deletes, DeleteCommits
  <1>4. ASSUME NEW r \in Requests, NEW u \in Accounts, NEW sent \in BOOLEAN, SignsIn(r, u, sent)
        PROVE  \/ users' = users
               \/ At(r, "create") /\ u = req[r].user /\ users' = users \cup {req[r].user}
    BY <1>4 DEF SignsIn
  <1> QED
    BY <1>1, <1>2, <1>3, <1>4, Kinds

\* A locked user stays, and is locked by one request.
LEMMA UsersHeldStep ==
  ASSUME TypeOK, UsersHeld, Next
  PROVE  UsersHeld'
  <1>1. CASE \A q \in Requests : req'[q] = req[q] \/ req'[q] = None
    <2>1. \A q \in Requests, u \in Accounts : HoldsUser(q, u)' => HoldsUser(q, u) /\ req'[q] = req[q] /\ req[q] # None
      BY <1>1 DEF HoldsUser, At, Busy
    <2>2. ASSUME NEW q \in Requests, NEW u \in Accounts, HoldsUser(q, u)' PROVE u \in users'
      <3>1. u \in users /\ HoldsUser(q, u) /\ req'[q] # None
        BY <2>1, <2>2 DEF UsersHeld
      <3>2. ASSUME NEW r \in Requests, Deletes(r), u = req[r].user PROVE FALSE
        <4>1. HoldsUser(r, u) /\ req'[r] = None
          BY <3>2 DEF HoldsUser, Deletes, DeleteCommits, Finished
        <4> QED
          BY <3>1, <4>1 DEF UsersHeld
      <3> QED
        BY <3>1, <3>2, UsersStep
    <2> QED
      BY <2>1, <2>2 DEF UsersHeld
  <1>2. ASSUME NEW r \in Requests, GoesOn(r) PROVE UsersHeld'
    <2>1. users' = users /\ \A q \in Requests \ {r} : req'[q] = req[q]
      BY <1>2 DEF GoesOn, Others
    <2>2. ASSUME NEW u \in Accounts, HoldsUser(r, u)'
          PROVE  u \in users /\ \A q \in Requests \ {r} : ~HoldsUser(q, u)
      <3>1. CASE HoldsUser(r, u)
        BY <3>1 DEF UsersHeld
      <3>2. CASE u \in users /\ ~UserLocked(u)
        BY <3>2 DEF UserLocked, HoldsUser, At
      <3>3. \/ HoldsUser(r, u)
            \/ u \in users /\ ~UserLocked(u)
        BY <1>2, <2>2 DEF GoesOn, HoldsUser, At, Busy, UserStays
      <3> QED
        BY <3>1, <3>2, <3>3
    <2> QED
      BY <2>1, <2>2 DEF UsersHeld, HoldsUser, At, Busy
  <1> QED
    BY <1>1, <1>2, Quiet

\* What a step does to the identities.
LEMMA IdentitiesStep ==
  ASSUME TypeOK, Next
  PROVE  \/ identities' = identities
         \/ \E r \in Requests : Deletes(r) /\ identities' = [s \in Subjects |->
               IF s \in IdentityOf(req[r].user) THEN None ELSE identities[s]]
         \/ \E r \in Requests :
               /\ At(r, "event") /\ Finished(r) /\ identities[req[r].subject] # None
               /\ identities' = [identities EXCEPT ![req[r].subject].token = FALSE]
         \/ \E r \in Requests, u \in Accounts, sent \in BOOLEAN : SignsIn(r, u, sent)
  <1>1. ASSUME World PROVE identities' = identities
    BY <1>1 DEF World
  <1>2. ASSUME NEW r \in Requests, GoesOn(r) \/ Rotates(r) PROVE identities' = identities
    BY <1>2 DEF GoesOn, Rotates, RefreshRotates
  <1>3. ASSUME NEW r \in Requests, Revokes(r)
        PROVE  \/ identities' = identities
               \/ /\ At(r, "event") /\ Finished(r) /\ identities[req[r].subject] # None
                  /\ identities' = [identities EXCEPT ![req[r].subject].token = FALSE]
    BY <1>3 DEF Revokes, ReplayRevokes, LogoutRevokes, EventCommits
  <1>4. ASSUME NEW r \in Requests, Deletes(r)
        PROVE  identities' = [s \in Subjects |-> IF s \in IdentityOf(req[r].user) THEN None ELSE identities[s]]
    BY <1>4 DEF Deletes, DeleteCommits
  <1> QED
    BY <1>1, <1>2, <1>3, <1>4, Kinds

\* Whose an identity is, and since when.
SameIdentity(s) ==
    /\ identities'[s] # None /\ identities'[s].user = identities[s].user
    /\ identities'[s].at = identities[s].at

\* A notification clears the token of an identity, and nothing else.
LEMMA ClearedToken ==
  ASSUME TypeOK, NEW r \in Requests, At(r, "event"), identities[req[r].subject] # None,
         identities' = [identities EXCEPT ![req[r].subject].token = FALSE],
         NEW s \in Subjects
  PROVE  IF identities[s] = None THEN identities'[s] = None ELSE SameIdentity(s)
  <1> DEFINE t == req[r].subject
             row == [identities[t] EXCEPT !.token = FALSE]
  <1>1. t \in Subjects
    BY HoldingTypes DEF At, Busy
  <1>2. identities[t] \in Authorizations
    BY <1>1, Types
  <1>3. row \in Authorizations /\ row.user = identities[t].user /\ row.at = identities[t].at
    BY <1>2 DEF Authorizations
  <1>4. identities'[s] = IF s = t THEN row ELSE identities[s]
    BY <1>1 DEF TypeOK
  <1> HIDE DEF row, t
  <1> QED
    BY <1>3, <1>4, NotNone DEF SameIdentity, t

\* A sign-in writes one identity: one that it has locked, or that is new and the only
\* one of its user.
LEMMA SignsInIdentity ==
  ASSUME TypeOK, UsersHeld, IdentitiesHeld, FoundStands, UsersMinted,
         NEW r \in Requests, NEW u \in Accounts, NEW sent \in BOOLEAN, SignsIn(r, u, sent)
  PROVE  LET s == req[r].subject
         IN  /\ s \in Subjects /\ identities'[s] # None
             /\ identities'[s].user = u /\ u \in users'
             /\ \A t \in Subjects \ {s} : identities'[t] = identities[t]
             /\ \/ HoldsIdentity(r, s) /\ identities[s] # None /\ identities[s].user = u
                \/ identities[s] = None /\ IdentityOf(u) = {} /\ (u = Founder => At(r, "binding"))
  <1> DEFINE s == req[r].subject
  <1>1. s \in Subjects
    BY SignsInAdds
  <1>2. Authorized(u, sent) \in Authorizations /\ Authorized(u, sent).user = u
    BY DEF Authorized, Authorizations, TypeOK
  <1>3. identities' = [identities EXCEPT ![s] = Authorized(u, sent)]
    BY DEF SignsIn
  <1>4. /\ identities'[s] # None /\ identities'[s].user = u
        /\ \A t \in Subjects \ {s} : identities'[t] = identities[t]
    BY <1>1, <1>2, <1>3, NotNone DEF TypeOK
  <1>5. CASE At(r, "create") /\ u = req[r].user /\ Unique(s, u) /\ users' = users \cup {u}
    BY <1>1, <1>4, <1>5, Types, AccountsAssumption DEF Unique, UsersMinted
  <1>6. CASE At(r, "signing") /\ u = req[r].user /\ UserStays(u) /\ users' = users
    <2>1. HoldsIdentity(r, s)
      BY <1>6 DEF HoldsIdentity, At
    <2>2. identities[s] # None /\ identities[s].user = u
      BY <1>1, <1>6, <2>1 DEF IdentitiesHeld, FoundStands
    <2> QED
      BY <1>1, <1>4, <1>6, <2>1, <2>2 DEF UserStays
  <1>7. CASE /\ At(r, "binding") /\ u = Founder /\ users' = users /\ Founder \in users
             /\ IdentityOf(Founder) = {s} \/ Unique(s, Founder)
    <2>1. CASE IdentityOf(Founder) = {s}
      <3>1. identities[s] # None /\ identities[s].user = Founder
        BY <2>1 DEF IdentityOf
      <3>2. HoldsIdentity(r, s)
        BY <1>7, <3>1 DEF HoldsIdentity, At
      <3> QED
        BY <1>1, <1>4, <1>7, <3>1, <3>2
    <2>2. CASE Unique(s, Founder)
      BY <1>1, <1>4, <1>7, <2>2 DEF Unique
    <2> QED
      BY <1>7, <2>1, <2>2
  <1>8. At(r, "binding") => Founder \in users
    BY DEF UsersHeld, HoldsUser, Accounts
  <1> QED
    BY <1>5, <1>6, <1>7, <1>8 DEF SignsIn

\* An identity that a request has locked stays what it is while the request goes on.
LEMMA LockedIdentityStays ==
  ASSUME IInv, Next, \A q \in Requests : req'[q] = req[q] \/ req'[q] = None,
         NEW q \in Requests, NEW s \in Subjects, HoldsIdentity(q, s), req'[q] = req[q]
  PROVE  SameIdentity(s)
  <1>1. identities[s] # None /\ req'[q] # None
    BY DEF IInv, IdentitiesHeld, HoldsIdentity, Busy
  <1>2. CASE identities' = identities
    BY <1>1, <1>2 DEF SameIdentity
  <1>3. ASSUME NEW r \in Requests, Deletes(r),
               identities' = [t \in Subjects |-> IF t \in IdentityOf(req[r].user) THEN None ELSE identities[t]]
        PROVE  SameIdentity(s)
    <2>1. IdentityLocked(s)
      BY <1>1 DEF IdentityLocked, HoldsIdentity
    <2>2. s \notin IdentityOf(req[r].user)
      BY <1>3, <2>1 DEF Deletes, DeleteCommits
    <2> QED
      BY <1>1, <1>3, <2>2 DEF SameIdentity
  <1>4. ASSUME NEW r \in Requests, At(r, "event"), identities[req[r].subject] # None,
               identities' = [identities EXCEPT ![req[r].subject].token = FALSE]
        PROVE  SameIdentity(s)
    BY <1>1, <1>4, ClearedToken DEF IInv
  <1>5. ASSUME NEW r \in Requests, NEW u \in Accounts, NEW sent \in BOOLEAN, SignsIn(r, u, sent)
        PROVE  SameIdentity(s)
    <2>1. req'[r] = None
      BY <1>5 DEF SignsIn, Finished
    <2>2. s # req[r].subject
      BY <1>1, <1>5, <2>1, SignsInIdentity DEF IInv, IdentitiesHeld
    <2> QED
      BY <1>1, <1>5, <2>2, SignsInIdentity DEF IInv, SameIdentity
  <1> QED
    BY <1>2, <1>3, <1>4, <1>5, IdentitiesStep DEF IInv

\* A request does not come to hold an identity while others go on.
LEMMA HeldBefore ==
  ASSUME IInv, Next, \A q \in Requests : req'[q] = req[q] \/ req'[q] = None,
         NEW q \in Requests, NEW s \in Subjects, HoldsIdentity(q, s)'
  PROVE  HoldsIdentity(q, s) /\ req'[q] = req[q]
  <1>1. req'[q] = req[q] /\ q \in Busy
    BY DEF HoldsIdentity, Busy
  <1>2. CASE req[q].op # "binding"
    BY <1>1, <1>2 DEF HoldsIdentity
  <1>3. CASE req[q].op = "binding"
    <2>1. identities'[s] # None /\ identities'[s].user = Founder /\ req[q].subject = s
      BY <1>1, <1>3 DEF HoldsIdentity
    <2>2. SUFFICES identities[s] # None /\ identities[s].user = Founder
      BY <1>1, <1>3, <2>1 DEF HoldsIdentity
    <2>3. CASE identities' = identities
      BY <2>1, <2>3
    <2>4. ASSUME NEW r \in Requests,
                 identities' = [t \in Subjects |-> IF t \in IdentityOf(req[r].user) THEN None ELSE identities[t]]
          PROVE  identities[s] # None /\ identities[s].user = Founder
      BY <2>1, <2>4
    <2>5. ASSUME NEW r \in Requests, At(r, "event"), identities[req[r].subject] # None,
                 identities' = [identities EXCEPT ![req[r].subject].token = FALSE]
          PROVE  identities[s] # None /\ identities[s].user = Founder
      BY <2>1, <2>5, ClearedToken DEF IInv, SameIdentity
    <2>6. ASSUME NEW r \in Requests, NEW u \in Accounts, NEW sent \in BOOLEAN, SignsIn(r, u, sent)
          PROVE  identities[s] # None /\ identities[s].user = Founder
      <3>1. CASE s # req[r].subject
        BY <2>1, <2>6, <3>1, SignsInIdentity DEF IInv
      <3>2. CASE s = req[r].subject
        <4>1. u = Founder
          BY <2>1, <2>6, <3>2, SignsInIdentity DEF IInv
        <4>2. ~At(r, "binding")
          <5>1. ASSUME At(r, "binding") PROVE FALSE
            <6>1. HoldsUser(r, Founder) /\ HoldsUser(q, Founder)
              BY <1>1, <1>3, <5>1 DEF HoldsUser, At
            <6>2. r = q
              BY <6>1 DEF IInv, UsersHeld, Accounts
            <6> QED
              BY <1>1, <2>6, <6>2 DEF SignsIn, Finished, Busy
          <5> QED
            BY <5>1
        <4> QED
          BY <2>6, <3>2, <4>1, <4>2, SignsInIdentity DEF IInv
      <3> QED
        BY <3>1, <3>2
    <2> QED
      BY <2>3, <2>4, <2>5, <2>6, IdentitiesStep DEF IInv
  <1> QED
    BY <1>2, <1>3

\* What a request that goes on found of an identity that no other has locked.
LEMMA FreeIdentity ==
  ASSUME IInv, NEW r \in Requests, GoesOn(r), NEW s \in Subjects, HoldsIdentity(r, s)'
  PROVE  identities[s] # None /\ \A q \in Requests : ~HoldsIdentity(q, s)
  <1>1. identities' = identities
    BY DEF GoesOn
  <1>2. \/ /\ req'[r].op \in {"signing", "event"} /\ identities[req'[r].subject] # None
           /\ ~IdentityLocked(req'[r].subject)
        \/ req'[r].op = "binding" /\ ~IdentityLocked(req'[r].subject)
    BY DEF GoesOn, HoldsIdentity, Busy
  <1>3. identities[s] # None /\ ~IdentityLocked(s)
    BY <1>1, <1>2 DEF HoldsIdentity
  <1>4. \A q \in Requests : HoldsIdentity(q, s) => IdentityLocked(s)
    BY <1>3 DEF HoldsIdentity, IdentityLocked
  <1> QED
    BY <1>3, <1>4

\* A locked identity is there, and locked by one request.
LEMMA IdentitiesHeldStep ==
  ASSUME IInv, Next
  PROVE  IdentitiesHeld'
  <1>1. CASE \A q \in Requests : req'[q] = req[q] \/ req'[q] = None
    BY <1>1, HeldBefore, LockedIdentityStays DEF IInv, IdentitiesHeld, SameIdentity
  <1>2. ASSUME NEW r \in Requests, GoesOn(r) PROVE IdentitiesHeld'
    <2>1. identities' = identities /\ \A q \in Requests \ {r} : req'[q] = req[q]
      BY <1>2 DEF GoesOn, Others
    <2>2. \A q \in Requests \ {r}, s \in Subjects : HoldsIdentity(q, s)' <=> HoldsIdentity(q, s)
      BY <2>1 DEF HoldsIdentity, Busy
    <2> QED
      BY <1>2, <2>1, <2>2, FreeIdentity DEF IInv, IdentitiesHeld
  <1> QED
    BY <1>1, <1>2, Quiet DEF IInv

\* What was decided from an identity stands until the request commits.
LEMMA FoundStep ==
  ASSUME IInv, Next
  PROVE  FoundStands'
  <1>1. ASSUME NEW q \in Requests, req'[q] = req[q], At(q, "signing") \/ At(q, "event"),
               \A p \in Requests : req'[p] = req[p] \/ req'[p] = None
        PROVE  SameIdentity(req[q].subject)
    <2>1. req[q].subject \in Subjects
      BY <1>1, HoldingTypes DEF IInv, At, Busy, NonceOps
    <2>2. HoldsIdentity(q, req[q].subject)
      BY <1>1 DEF HoldsIdentity, At
    <2> QED
      BY <1>1, <2>1, <2>2, LockedIdentityStays
  <1>2. CASE \A q \in Requests : req'[q] = req[q] \/ req'[q] = None
    <2>1. \A q \in Requests : \A op \in {"signing", "event"} : At(q, op)' => At(q, op) /\ req'[q] = req[q]
      BY <1>2 DEF At, Busy
    <2> QED
      BY <1>1, <1>2, <2>1 DEF IInv, FoundStands, SameIdentity
  <1>3. ASSUME NEW r \in Requests, GoesOn(r) PROVE FoundStands'
    <2>1. identities' = identities /\ \A q \in Requests \ {r} : req'[q] = req[q]
      BY <1>3 DEF GoesOn, Others
    <2>2. ASSUME At(r, "signing")' PROVE identities[req'[r].subject].user = req'[r].user
      BY <1>3, <2>2 DEF GoesOn, At, Busy
    <2>3. ASSUME At(r, "event")'
          PROVE  /\ IF req'[r].applied THEN req'[r].event.at >= identities[req'[r].subject].at
                                       ELSE req'[r].rows = {}
                 /\ req'[r].event.subject = req'[r].subject
      BY <1>3, <2>3 DEF GoesOn, At, Busy
    <2>4. ASSUME NEW q \in Requests \ {r}, NEW op \in {"signing", "event"} PROVE At(q, op)' <=> At(q, op)
      BY <2>1 DEF At, Busy
    <2> QED
      BY <2>1, <2>2, <2>3, <2>4 DEF IInv, FoundStands
  <1> QED
    BY <1>2, <1>3, Quiet DEF IInv

\* Users that are gone or not yet made.
LEMMA MintedGrows ==
  ASSUME TypeOK, Next
  PROVE  /\ minted \subseteq minted'
         /\ \/ minted' = minted
            \/ \E r \in Requests : /\ GoesOn(r) /\ At(r, "create")'
                                   /\ req'[r].user \in NewUsers \ minted
                                   /\ minted' = minted \cup {req'[r].user}
  <1>1. ASSUME NEW r \in Requests, GoesOn(r)
        PROVE  \/ minted' = minted
               \/ /\ At(r, "create")'
                  /\ req'[r].user \in NewUsers \ minted
                  /\ minted' = minted \cup {req'[r].user}
    <2>1. req'[r] \in Holdings => req'[r] # None
      BY NotNone
    <2> QED
      BY <1>1, <2>1 DEF GoesOn, At, Busy
  <1>2. ASSUME NEW r \in Requests, Rotates(r) \/ Revokes(r) \/ Deletes(r) PROVE minted' = minted
    BY <1>2 DEF Rotates, RefreshRotates, Revokes, ReplayRevokes, LogoutRevokes, EventCommits,
          Deletes, DeleteCommits
  <1>3. ASSUME NEW r \in Requests, NEW u \in Accounts, NEW sent \in BOOLEAN, SignsIn(r, u, sent)
        PROVE  minted' = minted
    BY <1>3 DEF SignsIn
  <1>4. ASSUME World PROVE minted' = minted
    BY <1>4 DEF World
  <1> QED
    BY <1>1, <1>2, <1>3, <1>4, Kinds

\* The user of a session that is added: one who signs up, or one who is there.
LEMMA AddedUser ==
  ASSUME IInv, Next, NEW i \in DOMAIN sessions', i \notin DOMAIN sessions
  PROVE  /\ sessions'[i].user \in users'
         /\ \/ sessions'[i].user \in users
            \/ \E r \in Requests : At(r, "create") /\ req'[r] = None /\ sessions'[i].user = req[r].user
  <1>1. ASSUME NEW r \in Requests, NEW u \in Accounts, NEW sent \in BOOLEAN, SignsIn(r, u, sent)
        PROVE  /\ sessions'[i].user \in users'
               /\ \/ sessions'[i].user \in users
                  \/ At(r, "create") /\ req'[r] = None /\ sessions'[i].user = req[r].user
    <2>1. Added(NewSession(u, Len(sessions) + 1, req[r].nonce))
      BY <1>1, SignsInAdds DEF IInv
    <2>2. sessions'[i].user = u
      BY <2>1, Types DEF IInv, Added, NewSession
    <2>3. u \in users'
      BY <1>1, SignsInIdentity DEF IInv
    <2>4. (At(r, "create") /\ u = req[r].user) \/ users' = users
      BY <1>1 DEF SignsIn
    <2>5. req'[r] = None
      BY <1>1 DEF SignsIn, Finished
    <2> QED
      BY <2>2, <2>3, <2>4, <2>5
  <1>2. ASSUME NEW r \in Requests, Rotates(r)
        PROVE  sessions'[i].user \in users' /\ sessions'[i].user \in users
    <2>1. PICK j \in DOMAIN sessions :
                /\ UserStays(sessions[j].user)
                /\ Added(NewSession(sessions[j].user, sessions[j].family, None))
      BY <1>2, RotatesAdds DEF IInv
    <2>2. sessions'[i].user = sessions[j].user
      BY <2>1, Types DEF IInv, Added, NewSession
    <2> QED
      BY <1>2, <2>1, <2>2 DEF UserStays, Rotates, RefreshRotates
  <1> QED
    BY <1>1, <1>2, SessionsStep DEF IInv

\* A user id is given out once.
LEMMA UsersMintedStep ==
  ASSUME IInv, Next
  PROVE  UsersMinted'
  <1>1. minted \subseteq minted' /\ SessionsFade /\ UsersMinted
    BY MintedGrows, SessionsStep DEF IInv
  <1>2. users' \subseteq users \cup {req[r].user : r \in {q \in Requests : At(q, "create") /\ req'[q] = None}}
    BY UsersStep DEF IInv, SignsIn, Finished
  <1>3. users' \subseteq {Founder} \cup minted'
    BY <1>1, <1>2 DEF UsersMinted
  <1>4. \A i \in DOMAIN sessions' : sessions'[i].user \in {Founder} \cup minted'
    BY <1>1, <1>3, AddedUser DEF IInv, UsersMinted, SessionsFade, Fades
  <1>5. ASSUME NEW q \in Requests, At(q, "create"), req'[q] = req[q]
        PROVE  /\ req[q].user \in minted' /\ req[q].user \notin users'
               /\ \A i \in DOMAIN sessions' : sessions'[i].user # req[q].user
    <2>1. \A r \in Requests : At(r, "create") /\ req'[r] = None => req[r].user # req[q].user
      BY <1>1, <1>5 DEF UsersMinted, At, Busy
    <2>2. req[q].user \notin users' /\ req[q].user \notin users
      BY <1>1, <1>2, <1>5, <2>1 DEF UsersMinted
    <2>3. \A i \in DOMAIN sessions' : sessions'[i].user # req[q].user
      BY <1>1, <1>5, <2>1, <2>2, AddedUser DEF IInv, UsersMinted, SessionsFade, Fades
    <2> QED
      BY <1>1, <1>5, <2>2, <2>3 DEF UsersMinted
  <1>6. CASE \A q \in Requests : req'[q] = req[q] \/ req'[q] = None
    <2>1. \A q \in Requests : At(q, "create")' => At(q, "create") /\ req'[q] = req[q]
      BY <1>6 DEF At, Busy
    <2> QED
      BY <1>1, <1>3, <1>4, <1>5, <2>1 DEF UsersMinted
  <1>7. ASSUME NEW r \in Requests, GoesOn(r) PROVE UsersMinted'
    <2>1. \A q \in Requests \ {r} : req'[q] = req[q] /\ (At(q, "create")' <=> At(q, "create"))
      BY <1>7 DEF GoesOn, Others, At, Busy
    <2>2. users' = users /\ sessions' = sessions
      BY <1>7 DEF GoesOn
    <2>3. ASSUME At(r, "create")'
          PROVE  req'[r].user \in NewUsers \ minted /\ req'[r].user \in minted'
      BY <1>7, <2>3 DEF GoesOn, At, Busy
    <2>4. ASSUME At(r, "create")'
          PROVE  /\ req'[r].user \notin users
                 /\ \A i \in DOMAIN sessions : sessions[i].user # req'[r].user
                 /\ \A q \in Requests \ {r} : At(q, "create") => req[q].user # req'[r].user
      BY <1>1, <2>3, <2>4, AccountsAssumption DEF UsersMinted
    <2> QED
      BY <1>1, <1>3, <1>4, <1>5, <2>1, <2>2, <2>3, <2>4 DEF UsersMinted
  <1> QED
    BY <1>6, <1>7, Quiet DEF IInv

\* An account has one identity, and its identity while it is there.
LEMMA OneIdentityStep ==
  ASSUME IInv, Next
  PROVE  OneIdentity' /\ \A s \in Subjects : identities'[s] # None => identities'[s].user \in users'
  <1> USE DEF IdentityOf
  <1>1. CASE identities' = identities /\ users' = users
    BY <1>1 DEF IInv, OneIdentity, DeletedLeavesNothing
  <1>2. ASSUME NEW r \in Requests, Deletes(r)
        PROVE  OneIdentity' /\ \A s \in Subjects : identities'[s] # None => identities'[s].user \in users'
    <2> DEFINE u == req[r].user
    <2>1. users' = users \ {u} /\ \A s \in Subjects :
             identities'[s] = IF identities[s] # None /\ identities[s].user = u THEN None ELSE identities[s]
      BY <1>2 DEF Deletes, DeleteCommits
    <2> HIDE DEF u
    <2> QED
      BY <2>1 DEF IInv, OneIdentity, DeletedLeavesNothing
  <1>3. ASSUME NEW r \in Requests, At(r, "event"), identities[req[r].subject] # None, users' = users,
               identities' = [identities EXCEPT ![req[r].subject].token = FALSE]
        PROVE  OneIdentity' /\ \A s \in Subjects : identities'[s] # None => identities'[s].user \in users'
    <2>1. \A s \in Subjects : IF identities[s] = None THEN identities'[s] = None
                              ELSE identities'[s] # None /\ identities'[s].user = identities[s].user
      BY <1>3, ClearedToken DEF IInv, SameIdentity
    <2> QED
      BY <1>3, <2>1 DEF IInv, OneIdentity, DeletedLeavesNothing
  <1>4. ASSUME NEW r \in Requests, NEW u \in Accounts, NEW sent \in BOOLEAN, SignsIn(r, u, sent)
        PROVE  OneIdentity' /\ \A s \in Subjects : identities'[s] # None => identities'[s].user \in users'
    <2> DEFINE s == req[r].subject
    <2>1. /\ s \in Subjects /\ identities'[s] # None
          /\ identities'[s].user = u /\ u \in users'
          /\ \A t \in Subjects \ {s} : identities'[t] = identities[t]
          /\ \/ identities[s] # None /\ identities[s].user = u
             \/ identities[s] = None /\ IdentityOf(u) = {}
      BY <1>4, SignsInIdentity DEF IInv
    <2>2. users' = users \/ users' = users \cup {u}
      BY <1>4 DEF SignsIn
    <2> HIDE DEF s
    <2> QED
      BY <2>1, <2>2 DEF IInv, OneIdentity, DeletedLeavesNothing
  <1>5. ASSUME NEW r \in Requests, At(r, "event"), Finished(r) PROVE users' = users
    <2>1. ASSUME NEW q \in Requests, req'[q] = None, req[q] # None PROVE q = r
      BY <1>5, <2>1 DEF Finished, Others
    <2>2. ASSUME NEW q \in Requests, Deletes(q) PROVE FALSE
      BY <1>5, <2>1, <2>2 DEF Deletes, DeleteCommits, Finished, At, Busy
    <2>3. ASSUME NEW q \in Requests, At(q, "create"), Finished(q) PROVE FALSE
      BY <1>5, <2>1, <2>3 DEF Finished, At, Busy
    <2> QED
      BY <2>2, <2>3, UsersStep DEF IInv, SignsIn
  <1>6. \/ identities' = identities /\ users' = users
        \/ \E r \in Requests : Deletes(r)
        \/ \E r \in Requests : /\ At(r, "event") /\ Finished(r) /\ identities[req[r].subject] # None
                               /\ identities' = [identities EXCEPT ![req[r].subject].token = FALSE]
        \/ \E r \in Requests, u \in Accounts, sent \in BOOLEAN : SignsIn(r, u, sent)
    <2>1. \A r \in Requests, sent \in BOOLEAN : At(r, "create") => req[r].user \in Accounts
      BY HoldingTypes DEF IInv, At, Busy
    <2> QED
      BY <2>1, IdentitiesStep, UsersStep DEF IInv
  <1> QED
    BY <1>1, <1>2, <1>3, <1>4, <1>5, <1>6

\* A rotated token within its time, and every row of a session whose user is there, stay;
\* nothing of a deleted user does.
LEMMA RowsStep ==
  ASSUME IInv, Next
  PROVE  ReplayIsDetectable' /\ DeletedLeavesNothing'
  <1>1. SessionsFade
    BY SessionsStep DEF IInv
  <1>2. ASSUME NEW i \in DOMAIN sessions, ~sessions'[i].row, sessions'[i].user \in users'
        PROVE  sessions'[i].age = "expired"
    <2>1. sessions[i].user \in users'
      BY <1>1, <1>2 DEF SessionsFade, Fades
    <2>2. CASE sessions[i].row
      BY <1>1, <1>2, <2>1, <2>2 DEF SessionsFade, Fades
    <2>3. CASE ~sessions[i].row
      <3>1. sessions[i].user \in users
        BY <2>1, UsersStep DEF IInv, UsersMinted
      <3> QED
        BY <1>1, <2>3, <3>1 DEF IInv, ReplayIsDetectable, SessionsFade, Fades
    <2> QED
      BY <2>2, <2>3
  <1>3. ASSUME NEW i \in DOMAIN sessions', i \notin DOMAIN sessions PROVE sessions'[i].row
    <2>1. \A r \in Requests, u \in Accounts, sent \in BOOLEAN : SignsIn(r, u, sent) =>
             \E f, n : Added(NewSession(u, f, n))
      BY SignsInAdds DEF IInv
    <2>2. \A r \in Requests : Rotates(r) => \E u, f, n : Added(NewSession(u, f, n))
      BY RotatesAdds DEF IInv
    <2>3. \E u, f, n : Added(NewSession(u, f, n))
      BY <1>3, <2>1, <2>2, SessionsStep DEF IInv
    <2> QED
      BY <1>3, <2>3, Types DEF IInv, Added, NewSession
  <1>4. ReplayIsDetectable'
    BY <1>2, <1>3 DEF ReplayIsDetectable
  <1>5. ASSUME NEW i \in DOMAIN sessions, sessions'[i].row PROVE sessions'[i].user \in users'
    <2>1. sessions[i].row /\ sessions'[i].user = sessions[i].user /\ sessions[i].user \in users
      BY <1>1, <1>5 DEF SessionsFade, Fades, IInv, DeletedLeavesNothing
    <2>2. ASSUME NEW r \in Requests, Deletes(r), sessions[i].user = req[r].user PROVE FALSE
      <3>1. sessions' = SessionsWithout(req[r].user)
        BY <2>2 DEF Deletes, DeleteCommits
      <3>2. sessions'[i] = [sessions[i] EXCEPT !.row = FALSE] /\ sessions[i] \in SessionRows
        BY <2>2, <3>1, Types DEF SessionsWithout, IInv
      <3> QED
        BY <1>5, <3>2 DEF SessionRows
    <2> QED
      BY <2>1, <2>2, UsersStep DEF IInv
  <1>6. DeletedLeavesNothing'
    BY <1>5, AddedUser, OneIdentityStep DEF DeletedLeavesNothing
  <1> QED
    BY <1>4, <1>6

-----------------------------------------------------------------------------
(***************************************************************************)
(* The theorems                                                            *)
(***************************************************************************)
\* At the start nothing is held, and only the founder is there.
LEMMA InitIInv == Init => IInv
  <1> SUFFICES ASSUME Init PROVE IInv
    OBVIOUS
  <1> USE DEF Init
  <1>1. sessions \in Seq(SessionRows) /\ DOMAIN sessions = {} /\ Busy = {}
    BY DEF Busy
  <1>2. TypeOK
    BY <1>1, AccountsAssumption DEF TypeOK, Accounts
  <1>3. NoncesHeld /\ UsersHeld /\ IdentitiesHeld /\ FoundStands /\ SessionsHeld
    BY <1>1 DEF NoncesHeld, HasNonce, UsersHeld, HoldsUser, At, IdentitiesHeld, HoldsIdentity,
          FoundStands, SessionsHeld, HasSession
  <1>4. NoncesUsed /\ OneLivePerFamily /\ ReplayIsDetectable
    BY <1>1 DEF NoncesUsed, OneLivePerFamily, ReplayIsDetectable
  <1>5. UsersMinted /\ OneIdentity /\ DeletedLeavesNothing
    BY <1>1 DEF UsersMinted, At, OneIdentity, IdentityOf, DeletedLeavesNothing
  <1> QED
    BY <1>2, <1>3, <1>4, <1>5 DEF IInv

\* A stuttering step changes nothing.
LEMMA StutterIInv ==
  ASSUME IInv, UNCHANGED vars
  PROVE  IInv'
  BY DEF IInv, vars, TypeOK, NoncesHeld, HasNonce, Busy, NoncesUsed, UsersHeld, HoldsUser, At,
        IdentitiesHeld, HoldsIdentity, FoundStands, SessionsHeld, HasSession, OneLivePerFamily, Live,
        UsersMinted, OneIdentity, IdentityOf, ReplayIsDetectable, DeletedLeavesNothing

\* Locks, types and what they protect are kept by every step of Accounts.
THEOREM InductiveInvariant == Spec => []IInv
  <1>1. IInv /\ [Next]_vars => IInv'
    <2> SUFFICES ASSUME IInv, [Next]_vars PROVE IInv'
      OBVIOUS
    <2>1. CASE Next
      BY <2>1, TypeStep, NoncesStep, SessionsHeldStep, OneLiveStep, UsersHeldStep, IdentitiesHeldStep,
         FoundStep, UsersMintedStep, OneIdentityStep, RowsStep DEF IInv
    <2>2. CASE UNCHANGED vars
      BY <2>2, StutterIInv
    <2> QED
      BY <2>1, <2>2
  <1> QED
    BY InitIInv, <1>1, PTL DEF Spec

\* The rows and what the requests hold keep their types.
THEOREM TypeCorrect == Spec => []TypeOK
  <1>1. IInv => TypeOK
    BY DEF IInv
  <1> QED
    BY InductiveInvariant, <1>1, PTL

\* Credentials (rotate_refresh_token, _consume_nonce, cleanup_auth_rows): for any number
\* of requests and nonces, a family has one usable session, a nonce signs in once, and
\* the reuse of a rotated token is seen.
THEOREM TokensSingle == Spec => []TokensAreSingle
  <1>1. IInv => OneLiveSessionPerFamily /\ ReplayIsDetectable
    BY DEF IInv, OneLivePerFamily, OneLiveSessionPerFamily, Usable
  <1>2. Init => NonceSignsInOnce
    BY DEF Init, NonceSignsInOnce
  <1>3. IInv /\ NonceSignsInOnce /\ [Next]_vars => NonceSignsInOnce'
    <2> SUFFICES ASSUME IInv, NonceSignsInOnce, [Next]_vars PROVE NonceSignsInOnce'
      OBVIOUS
    <2>1. CASE UNCHANGED vars
      BY <2>1 DEF vars, NonceSignsInOnce
    <2>2. CASE Next
      <3>1. \A i \in DOMAIN sessions : sessions'[i].nonce = sessions[i].nonce
        BY <2>2, SessionsStep DEF IInv, SessionsFade, Fades
      <3>2. CASE DOMAIN sessions' = DOMAIN sessions
        BY <3>1, <3>2 DEF NonceSignsInOnce
      <3>3. ASSUME NEW r \in Requests, NEW u \in Accounts, NEW sent \in BOOLEAN, SignsIn(r, u, sent)
            PROVE  NonceSignsInOnce'
        <4>1. HasNonce(r) /\ Added(NewSession(u, Len(sessions) + 1, req[r].nonce))
          BY <3>3, SignsInAdds DEF IInv
        <4>2. sessions'[Len(sessions) + 1].nonce = req[r].nonce
              /\ \A i \in DOMAIN sessions' : i \in DOMAIN sessions \/ i = Len(sessions) + 1
          BY <4>1, Types DEF IInv, Added, NewSession
        <4>3. \A i \in DOMAIN sessions : sessions[i].nonce # None => sessions[i].nonce # req[r].nonce
          BY <4>1 DEF IInv, NoncesHeld, NoncesUsed
        <4> QED
          BY <3>1, <4>2, <4>3 DEF NonceSignsInOnce
      <3>4. ASSUME NEW r \in Requests, Rotates(r) PROVE NonceSignsInOnce'
        <4>1. PICK i \in DOMAIN sessions : Added(NewSession(sessions[i].user, sessions[i].family, None))
          BY <3>4, RotatesAdds DEF IInv
        <4>2. sessions'[Len(sessions) + 1].nonce = None
              /\ \A j \in DOMAIN sessions' : j \in DOMAIN sessions \/ j = Len(sessions) + 1
          BY <4>1, Types DEF IInv, Added, NewSession
        <4> QED
          BY <3>1, <4>2 DEF NonceSignsInOnce
      <3> QED
        BY <2>2, <3>2, <3>3, <3>4, SessionsStep DEF IInv
    <2> QED
      BY <2>1, <2>2
  <1> QED
    BY InductiveInvariant, <1>1, <1>2, <1>3, PTL DEF Spec, TokensAreSingle

\* Accounts (sign_in_with_apple, claim_founder_with_apple, delete_account): an account is
\* there with its one identity, or gone with every identity and session.
THEOREM AccountsWhole == Spec => []AccountsAreWhole
  <1>1. ASSUME IInv, NEW u \in users PROVE Cardinality(IdentityOf(u)) <= 1
    <2>1. CASE IdentityOf(u) = {}
      BY <2>1, FS_EmptySet
    <2>2. ASSUME NEW s \in IdentityOf(u) PROVE Cardinality(IdentityOf(u)) <= 1
      <3>1. IdentityOf(u) = {s}
        BY <1>1, <2>2 DEF IInv, OneIdentity, IdentityOf
      <3> QED
        BY <3>1, FS_Singleton
    <2> QED
      BY <2>1, <2>2
  <1>2. IInv => AccountsAreWhole
    BY <1>1 DEF IInv, OneIdentity, AccountsAreWhole, IdentityIsOneToOne
  <1> QED
    BY InductiveInvariant, <1>2, PTL

\* Notifications (apple_notifications): one that a newer authorization has overtaken ends
\* no session, whatever else is under way.
THEOREM StaleIgnored == Spec => StaleRevocationIgnored
  <1>1. ASSUME IInv, [Next]_vars, NEW e \in Events, e.jti \in receipts' \ receipts, sessions' # sessions
        PROVE  e.at >= identities[e.subject].at
    <2>1. PICK r \in Requests : EventCommits(r)
      <3>1. Next
        BY <1>1 DEF vars
      <3> QED
        BY <1>1, <3>1, Kinds DEF IInv, World, GoesOn, Rotates, RefreshRotates, Revokes, ReplayRevokes,
              LogoutRevokes, Deletes, DeleteCommits, SignsIn
    <2>2. At(r, "event") /\ sessions' = Revoked(req[r].rows) /\ receipts' = receipts \cup {req[r].event.jti}
      BY <2>1 DEF EventCommits
    <2>3. req[r].event = e
      <3>1. req[r].event \in Events /\ req[r].event.jti = e.jti
        BY <1>1, <2>2, HoldingTypes DEF IInv, At, Busy
      <3> QED
        BY <3>1, AccountsAssumption
    <2>4. req[r].rows # {}
      <3>1. ASSUME req[r].rows = {} PROVE sessions' = sessions
        <4>1. sessions = [i \in DOMAIN sessions |-> sessions[i]]
          BY <1>1 DEF IInv, TypeOK
        <4> QED
          BY <2>2, <3>1, <4>1 DEF Revoked
      <3> QED
        BY <1>1, <3>1
    <2> QED
      BY <1>1, <2>2, <2>3, <2>4 DEF IInv, FoundStands
  <1>2. IInv /\ [Next]_vars =>
           [\A e \in Events : e.jti \in receipts' \ receipts /\ sessions' # sessions =>
               e.at >= identities[e.subject].at]_vars
    BY <1>1
  <1> QED
    BY InductiveInvariant, <1>2, PTL DEF Spec, StaleRevocationIgnored

-----------------------------------------------------------------------------
(***************************************************************************)
(* The doors that requests and imports pass (Admission)                    *)
(***************************************************************************)

(***************************************************************************)
(* Counting the tasks inside                                               *)
(***************************************************************************)
TaskStates == {"away", "writing", "asleep", "woken", "paying"}

Doors(names) == [all : Nat, of : [names -> Nat]]

AccountNames == {Account[t] : t \in Tasks}

Credentials == {Credential[t] : t \in Tasks \ Imports}

\* What the tasks and the counters may be.
DoorTypes ==
    /\ task \in [Tasks -> TaskStates]
    /\ slots \in Doors(AccountNames) /\ places \in Doors(Credentials)
    /\ \A t \in Tasks : task[t] = "writing" => t \notin Imports
    /\ \A t \in Tasks : task[t] \in {"asleep", "woken"} => t \in Imports

\* Of all tasks, those in a state.
PayingNow == {t \in Tasks : task[t] = "paying"}

WritingNow == {t \in Tasks \ Imports : task[t] # "away"}

SlotInv == DoorTypes /\ SlotsAreExact /\ NobodySleepsOver

\* There are as many tasks in a state as can be counted.
LEMMA Counts ==
  ASSUME NEW S, S \subseteq Tasks
  PROVE  IsFiniteSet(S) /\ Cardinality(S) \in Nat /\ (Cardinality(S) = 0 <=> S = {})
  <1>1. IsFiniteSet(S)
    BY DoorsAssumption, FS_Subset
  <1> QED
    BY <1>1, FS_CardinalityType, FS_EmptySet

\* A task enters those in a state: one more, and those of the other names stay.
LEMMA OneMore ==
  ASSUME NEW S, S \subseteq Tasks, NEW t \in Tasks, t \notin S
  PROVE  Cardinality(S \cup {t}) = Cardinality(S) + 1
  BY Counts, FS_AddElement

LEMMA OneLess ==
  ASSUME NEW S, S \subseteq Tasks, NEW t \in S
  PROVE  Cardinality(S \ {t}) = LessOne(Cardinality(S))
  <1>1. IsFiniteSet(S) /\ Cardinality(S) \in Nat /\ Cardinality(S) # 0
    BY Counts
  <1>2. Cardinality(S \ {t}) = Cardinality(S) - 1
    BY <1>1, FS_RemoveElement
  <1> QED
    BY <1>1, <1>2 DEF LessOne

\* The counters of a door after one has entered or left.
LEMMA EnteredIs ==
  ASSUME NEW names, NEW door \in Doors(names), NEW n \in names
  PROVE  /\ Entered(door, n) \in Doors(names)
         /\ Entered(door, n).all = door.all + 1
         /\ \A m \in names : Entered(door, n).of[m] = IF m = n THEN door.of[m] + 1 ELSE door.of[m]
  BY DEF Entered, Doors

LEMMA LeftIs ==
  ASSUME NEW names, NEW door \in Doors(names), NEW n \in names
  PROVE  /\ Left(door, n) \in Doors(names)
         /\ Left(door, n).all = LessOne(door.all)
         /\ \A m \in names : Left(door, n).of[m] = IF m = n THEN LessOne(door.of[m]) ELSE door.of[m]
  BY DEF Left, LessOne, Doors

\* Who enters a door finds less room there for everyone, never more.
LEMMA NoRoomMade ==
  ASSUME NEW names, NEW door \in Doors(names), NEW n \in names, NEW m \in names,
         NEW limit \in Nat, NEW each \in Nat,
         HasPlace(Entered(door, n), m, limit, each)
  PROVE  HasPlace(door, m, limit, each)
  <1>1. /\ Entered(door, n).all = door.all + 1 /\ door.all \in Nat /\ door.of[m] \in Nat
        /\ Entered(door, n).of[m] \in {door.of[m], door.of[m] + 1}
    BY EnteredIs DEF Doors
  <1> QED
    BY <1>1 DEF HasPlace

-----------------------------------------------------------------------------
(***************************************************************************)
(* Steps of the doors                                                      *)
(***************************************************************************)
\* A task takes a slot: the counters follow.
LEMMA SlotTaken ==
  ASSUME NEW t \in Tasks, DoorTypes, SlotsAreExact, task[t] # "paying",
         slots' = Entered(slots, Account[t]), task' = [task EXCEPT ![t] = "paying"]
  PROVE  /\ slots' \in Doors(AccountNames)
         /\ \A a \in DOMAIN slots'.of : slots'.of[a] = Cardinality(Payers(a)')
         /\ slots'.all = Cardinality(PayingNow')
  <1> DEFINE n == Account[t]
  <1>1. n \in AccountNames /\ slots \in Doors(AccountNames)
    BY DEF AccountNames, DoorTypes
  <1>2. /\ slots' \in Doors(AccountNames) /\ slots'.all = slots.all + 1
        /\ \A a \in AccountNames : slots'.of[a] = IF a = n THEN slots.of[a] + 1 ELSE slots.of[a]
    BY <1>1, EnteredIs
  <1>3. DOMAIN slots.of = AccountNames /\ DOMAIN slots'.of = AccountNames
    BY <1>1, <1>2 DEF Doors
  <1>4. PayingNow' = PayingNow \cup {t} /\ t \notin PayingNow /\ PayingNow \subseteq Tasks
    BY DEF PayingNow, DoorTypes
  <1>5. slots'.all = Cardinality(PayingNow')
    BY <1>2, <1>4, OneMore DEF SlotsAreExact, PayingNow
  <1>6. ASSUME NEW a \in AccountNames PROVE slots'.of[a] = Cardinality(Payers(a)')
    <2>1. slots.of[a] = Cardinality(Payers(a))
      BY <1>3 DEF SlotsAreExact
    <2>2. CASE a = n
      <3>1. Payers(a)' = Payers(a) \cup {t} /\ t \notin Payers(a) /\ Payers(a) \subseteq Tasks
        BY <2>2 DEF Payers, DoorTypes
      <3> QED
        BY <1>2, <2>1, <2>2, <3>1, OneMore
    <2>3. CASE a # n
      <3>1. Payers(a)' = Payers(a)
        BY <2>3 DEF Payers, DoorTypes
      <3> QED
        BY <1>2, <2>1, <2>3, <3>1
    <2> QED
      BY <2>2, <2>3
  <1> QED
    BY <1>2, <1>3, <1>5, <1>6

\* A task gives its slot back.
LEMMA SlotReturned ==
  ASSUME NEW t \in Tasks, DoorTypes, SlotsAreExact, task[t] = "paying",
         slots' = Left(slots, Account[t]),
         \A s \in Tasks : task'[s] = "paying" <=> task[s] = "paying" /\ s # t
  PROVE  /\ slots' \in Doors(AccountNames)
         /\ \A a \in DOMAIN slots'.of : slots'.of[a] = Cardinality(Payers(a)')
         /\ slots'.all = Cardinality(PayingNow')
  <1> DEFINE n == Account[t]
  <1>1. n \in AccountNames /\ slots \in Doors(AccountNames)
    BY DEF AccountNames, DoorTypes
  <1>2. /\ slots' \in Doors(AccountNames) /\ slots'.all = LessOne(slots.all)
        /\ \A a \in AccountNames : slots'.of[a] = IF a = n THEN LessOne(slots.of[a]) ELSE slots.of[a]
    BY <1>1, LeftIs
  <1>3. DOMAIN slots.of = AccountNames /\ DOMAIN slots'.of = AccountNames
    BY <1>1, <1>2 DEF Doors
  <1>4. PayingNow' = PayingNow \ {t} /\ t \in PayingNow /\ PayingNow \subseteq Tasks
    BY DEF PayingNow
  <1>5. slots'.all = Cardinality(PayingNow')
    BY <1>2, <1>4, OneLess DEF SlotsAreExact, PayingNow
  <1>6. ASSUME NEW a \in AccountNames PROVE slots'.of[a] = Cardinality(Payers(a)')
    <2>1. slots.of[a] = Cardinality(Payers(a))
      BY <1>3 DEF SlotsAreExact
    <2>2. CASE a = n
      <3>1. Payers(a)' = Payers(a) \ {t} /\ t \in Payers(a) /\ Payers(a) \subseteq Tasks
        BY <2>2 DEF Payers
      <3> QED
        BY <1>2, <2>1, <2>2, <3>1, OneLess
    <2>3. CASE a # n
      <3>1. Payers(a)' = Payers(a)
        BY <2>3 DEF Payers
      <3> QED
        BY <1>2, <2>1, <2>3, <3>1
    <2> QED
      BY <2>2, <2>3
  <1> QED
    BY <1>2, <1>3, <1>5, <1>6

\* The writers stay who they are: nobody enters or leaves by the first door.
LEMMA WritersKept ==
  ASSUME SlotsAreExact, places' = places,
         \A s \in Tasks \ Imports : task'[s] = "away" <=> task[s] = "away"
  PROVE  /\ \A c \in DOMAIN places'.of : places'.of[c] = Cardinality(Writers(c)')
         /\ places'.all = Cardinality(WritingNow')
  <1>1. WritingNow' = WritingNow
    BY DEF WritingNow
  <1>2. \A c : Writers(c)' = Writers(c)
    BY DEF Writers
  <1> QED
    BY <1>1, <1>2 DEF SlotsAreExact, WritingNow

\* The payers stay who they are.
LEMMA PayersKept ==
  ASSUME SlotsAreExact, slots' = slots,
         \A s \in Tasks : task'[s] = "paying" <=> task[s] = "paying"
  PROVE  /\ \A a \in DOMAIN slots'.of : slots'.of[a] = Cardinality(Payers(a)')
         /\ slots'.all = Cardinality(PayingNow')
  <1>1. PayingNow' = PayingNow
    BY DEF PayingNow
  <1>2. \A a : Payers(a)' = Payers(a)
    BY DEF Payers
  <1> QED
    BY <1>1, <1>2 DEF SlotsAreExact, PayingNow

\* The properties of the counters in the next state, put together.
LEMMA ExactNext ==
  ASSUME \A a \in DOMAIN slots'.of : slots'.of[a] = Cardinality(Payers(a)'),
         slots'.all = Cardinality(PayingNow'),
         \A c \in DOMAIN places'.of : places'.of[c] = Cardinality(Writers(c)'),
         places'.all = Cardinality(WritingNow')
  PROVE  SlotsAreExact'
  BY DEF SlotsAreExact, PayingNow, WritingNow

\* A request is let in to write.
LEMMA WriteEntered ==
  ASSUME NEW t \in Tasks, SlotInv, EnterWrite(t)
  PROVE  SlotInv'
  <1> DEFINE n == Credential[t]
  <1> USE DEF SlotInv
  <1>1. n \in Credentials /\ places \in Doors(Credentials) /\ t \in Tasks \ Imports
    BY DEF Credentials, DoorTypes, EnterWrite
  <1>2. /\ places' \in Doors(Credentials) /\ places'.all = places.all + 1
        /\ \A c \in Credentials : places'.of[c] = IF c = n THEN places.of[c] + 1 ELSE places.of[c]
    BY <1>1, EnteredIs DEF EnterWrite
  <1>3. DOMAIN places.of = Credentials /\ DOMAIN places'.of = Credentials
    BY <1>1, <1>2 DEF Doors
  <1>4. WritingNow' = WritingNow \cup {t} /\ t \notin WritingNow /\ WritingNow \subseteq Tasks
    BY <1>1 DEF WritingNow, DoorTypes, EnterWrite
  <1>5. places'.all = Cardinality(WritingNow')
    BY <1>2, <1>4, OneMore DEF SlotsAreExact, WritingNow
  <1>6. ASSUME NEW c \in Credentials PROVE places'.of[c] = Cardinality(Writers(c)')
    <2>1. places.of[c] = Cardinality(Writers(c))
      BY <1>3 DEF SlotsAreExact
    <2>2. CASE c = n
      <3>1. Writers(c)' = Writers(c) \cup {t} /\ t \notin Writers(c) /\ Writers(c) \subseteq Tasks
        BY <1>1, <2>2 DEF Writers, DoorTypes, EnterWrite
      <3> QED
        BY <1>2, <2>1, <2>2, <3>1, OneMore
    <2>3. CASE c # n
      <3>1. Writers(c)' = Writers(c)
        BY <2>3 DEF Writers, DoorTypes, EnterWrite
      <3> QED
        BY <1>2, <2>1, <2>3, <3>1
    <2> QED
      BY <2>2, <2>3
  <1>7. DoorTypes'
    BY <1>1, <1>2 DEF DoorTypes, TaskStates, EnterWrite
  <1>8. \A s \in Tasks : task'[s] = "paying" <=> task[s] = "paying"
    BY DEF DoorTypes, EnterWrite
  <1>9. SlotsAreExact'
    BY <1>3, <1>5, <1>6, <1>8, PayersKept, ExactNext DEF EnterWrite
  <1>10. NobodySleepsOver'
    BY DEF NobodySleepsOver, SlotFor, DoorTypes, EnterWrite
  <1> QED
    BY <1>7, <1>9, <1>10

\* A write ends.
LEMMA WriteLeft ==
  ASSUME NEW t \in Tasks, SlotInv, LeaveWrite(t)
  PROVE  SlotInv'
  <1> DEFINE n == Credential[t]
  <1> USE DEF SlotInv
  <1>1. t \in Tasks \ Imports /\ n \in Credentials /\ places \in Doors(Credentials)
    BY DEF Credentials, DoorTypes, LeaveWrite
  <1>2. /\ places' \in Doors(Credentials) /\ places'.all = LessOne(places.all)
        /\ \A c \in Credentials : places'.of[c] = IF c = n THEN LessOne(places.of[c]) ELSE places.of[c]
    BY <1>1, LeftIs DEF LeaveWrite
  <1>3. DOMAIN places.of = Credentials /\ DOMAIN places'.of = Credentials
    BY <1>1, <1>2 DEF Doors
  <1>4. WritingNow' = WritingNow \ {t} /\ t \in WritingNow /\ WritingNow \subseteq Tasks
    BY <1>1 DEF WritingNow, DoorTypes, LeaveWrite
  <1>5. places'.all = Cardinality(WritingNow')
    BY <1>2, <1>4, OneLess DEF SlotsAreExact, WritingNow
  <1>6. ASSUME NEW c \in Credentials PROVE places'.of[c] = Cardinality(Writers(c)')
    <2>1. places.of[c] = Cardinality(Writers(c))
      BY <1>3 DEF SlotsAreExact
    <2>2. CASE c = n
      <3>1. Writers(c)' = Writers(c) \ {t} /\ t \in Writers(c) /\ Writers(c) \subseteq Tasks
        BY <1>1, <2>2 DEF Writers, DoorTypes, LeaveWrite
      <3> QED
        BY <1>2, <2>1, <2>2, <3>1, OneLess
    <2>3. CASE c # n
      <3>1. Writers(c)' = Writers(c)
        BY <2>3 DEF Writers, DoorTypes, LeaveWrite
      <3> QED
        BY <1>2, <2>1, <2>3, <3>1
    <2> QED
      BY <2>2, <2>3
  <1>7. DoorTypes'
    BY <1>1, <1>2 DEF DoorTypes, TaskStates, LeaveWrite
  <1>8. \A s \in Tasks : task'[s] = "paying" <=> task[s] = "paying"
    BY DEF DoorTypes, LeaveWrite
  <1>9. SlotsAreExact'
    BY <1>3, <1>5, <1>6, <1>8, PayersKept, ExactNext DEF LeaveWrite
  <1>10. NobodySleepsOver'
    BY DEF NobodySleepsOver, SlotFor, DoorTypes, LeaveWrite
  <1> QED
    BY <1>7, <1>9, <1>10

\* A request or an import takes a slot: who sleeps has no more room than before.
LEMMA PaidEntered ==
  ASSUME NEW t \in Tasks, SlotInv, task[t] # "paying", task[t] # "away" \/ t \in Imports,
         slots' = Entered(slots, Account[t]), task' = [task EXCEPT ![t] = "paying"],
         places' = places
  PROVE  SlotInv'
  <1> USE DEF SlotInv
  <1>1. /\ slots' \in Doors(AccountNames)
        /\ \A a \in DOMAIN slots'.of : slots'.of[a] = Cardinality(Payers(a)')
        /\ slots'.all = Cardinality(PayingNow')
    BY SlotTaken
  <1>2. DoorTypes'
    BY <1>1 DEF DoorTypes, TaskStates
  <1>3. \A s \in Tasks \ Imports : task'[s] = "away" <=> task[s] = "away"
    BY DEF DoorTypes
  <1>4. SlotsAreExact'
    BY <1>1, <1>3, WritersKept, ExactNext
  <1>5. NobodySleepsOver'
    <2> SUFFICES ASSUME NEW s \in Tasks, task'[s] = "asleep", SlotFor(s)' PROVE FALSE
      BY DEF NobodySleepsOver
    <2>1. task[s] = "asleep"
      BY DEF DoorTypes
    <2>2. HasPlace(Entered(slots, Account[t]), Account[s], SlotLimit, AccountLimit)
      BY DEF SlotFor, HasPlace
    <2>3. SlotFor(s)
      BY <2>2, NoRoomMade, DoorsAssumption DEF SlotFor, AccountNames, DoorTypes
    <2> QED
      BY <2>1, <2>3 DEF NobodySleepsOver
  <1> QED
    BY <1>2, <1>4, <1>5

\* An import falls asleep or stops to wait: nothing is counted.
LEMMA WaitingMoved ==
  ASSUME NEW t \in Imports, SlotInv, task[t] # "paying",
         NEW to \in {"asleep", "away"}, to = "asleep" => ~SlotFor(t),
         task' = [task EXCEPT ![t] = to], UNCHANGED <<places, slots>>
  PROVE  SlotInv'
  <1> USE DEF SlotInv
  <1>1. t \in Tasks
    BY DoorsAssumption
  <1>2. DoorTypes'
    BY <1>1 DEF DoorTypes, TaskStates
  <1>3. /\ \A s \in Tasks \ Imports : task'[s] = "away" <=> task[s] = "away"
        /\ \A s \in Tasks : task'[s] = "paying" <=> task[s] = "paying"
    BY DEF DoorTypes
  <1>4. SlotsAreExact'
    BY <1>3, WritersKept, PayersKept, ExactNext
  <1>5. NobodySleepsOver'
    BY DEF NobodySleepsOver, SlotFor, DoorTypes
  <1> QED
    BY <1>2, <1>4, <1>5

\* A paid call ends: everyone who slept looks again.
LEMMA PaidLeft ==
  ASSUME NEW t \in Tasks, SlotInv, LeavePaid(t)
  PROVE  SlotInv'
  <1> USE DEF SlotInv
  <1>1. task' = [s \in Tasks |->
               IF task[s] = "asleep" THEN "woken"
               ELSE IF s # t THEN task[s]
               ELSE IF t \in Imports THEN "away" ELSE "writing"]
    BY DEF LeavePaid, Woken
  <1>2. task[t] = "paying" /\ slots' = Left(slots, Account[t]) /\ places' = places
    BY DEF LeavePaid
  <1>3. \A s \in Tasks : task'[s] = "paying" <=> task[s] = "paying" /\ s # t
    BY <1>1, <1>2
  <1>4. /\ slots' \in Doors(AccountNames)
        /\ \A a \in DOMAIN slots'.of : slots'.of[a] = Cardinality(Payers(a)')
        /\ slots'.all = Cardinality(PayingNow')
    BY <1>2, <1>3, SlotReturned
  <1>5. DoorTypes'
    BY <1>1, <1>2, <1>4 DEF DoorTypes, TaskStates
  <1>6. \A s \in Tasks \ Imports : task'[s] = "away" <=> task[s] = "away"
    BY <1>1, <1>2
  <1>7. SlotsAreExact'
    BY <1>2, <1>4, <1>6, WritersKept, ExactNext
  <1>8. NobodySleepsOver'
    BY <1>1 DEF NobodySleepsOver
  <1> QED
    BY <1>5, <1>7, <1>8

-----------------------------------------------------------------------------
(***************************************************************************)
(* Windows                                                                 *)
(***************************************************************************)
\* The calls that opened a window: each call is within the limit of one, and they
\* are a period apart.
Opens(s, heads) ==
    /\ heads \subseteq DOMAIN s
    /\ \A n \in DOMAIN s : \E h \in heads : h <= n /\ n < h + CallLimit
    /\ \A g, h \in heads : g < h => s[g] + Period <= s[h]

\* The last of them is that of the window that is kept; if none is, all are over.
Current(c, heads) ==
    LET s == admitted[c]
        last == Len(s) - windows[c].count + 1
    IN  IF windows[c] = Absentee THEN \A h \in heads : s[h] + Period <= time
        ELSE /\ windows[c].count \in 1..CallLimit
             /\ last \in heads /\ s[last] = windows[c].start
             /\ \A h \in heads : h <= last

Ordered(c) ==
    LET s == admitted[c]
    IN  /\ \A m, n \in DOMAIN s : m <= n => s[m] <= s[n]
        /\ \A n \in DOMAIN s : s[n] <= time

WindowTypes ==
    /\ windows \in [Clients -> [start : Nat, count : Nat] \cup {Absentee}]
    /\ admitted \in [Clients -> Seq(Nat)]
    /\ forgotten \subseteq Clients
    /\ time \in Nat

WindowOf(c) == Ordered(c) /\ \E heads : Opens(admitted[c], heads) /\ Current(c, heads)

WindowInv == WindowTypes /\ \A c \in Clients \ forgotten : WindowOf(c)

\* Every window that is open or was dropped at its end is over after a period.
LEMMA AllOver ==
  ASSUME WindowInv, NEW c \in Clients \ forgotten, NEW heads,
         Opens(admitted[c], heads), Current(c, heads),
         windows[c] = Absentee \/ time - windows[c].start >= Period
  PROVE  \A h \in heads : admitted[c][h] + Period <= time
  <1>1. CASE windows[c] = Absentee
    BY <1>1 DEF Current
  <1>2. CASE windows[c] # Absentee
    <2> DEFINE s == admitted[c]
               last == Len(s) - windows[c].count + 1
    <2>1. windows[c] \in [start : Nat, count : Nat] /\ s \in Seq(Nat) /\ time \in Nat /\ Period \in Nat
      BY <1>2, DoorsAssumption DEF WindowInv, WindowTypes
    <2>2. last \in heads /\ s[last] = windows[c].start /\ \A h \in heads : h <= last
      BY <1>2 DEF Current
    <2>3. heads \subseteq DOMAIN s /\ \A g, h \in heads : g < h => s[g] + Period <= s[h]
      BY DEF Opens
    <2>4. ASSUME NEW h \in heads PROVE s[h] + Period <= time
      <3>1. h \in 1..Len(s) /\ last \in 1..Len(s) /\ s[h] \in Nat
        <4>1. h \in DOMAIN s /\ last \in DOMAIN s
          BY <2>2, <2>3
        <4>2. DOMAIN s = 1..Len(s) /\ \A i \in DOMAIN s : s[i] \in Nat
          BY <2>1
        <4> HIDE DEF s, last
        <4> QED
          BY <4>1, <4>2
      <3>2. h = last \/ (h < last /\ s[h] + Period <= s[last])
        BY <2>2, <2>3, <3>1
      <3> HIDE DEF s, last
      <3>3. windows[c].start + Period <= time
        BY <1>2, <2>1
      <3> QED
        BY <2>1, <2>2, <3>1, <3>2, <3>3
    <2> QED
      BY <2>4
  <1> QED
    BY <1>1, <1>2

\* Twice the limit of calls spans a period.
LEMMA FarApart ==
  ASSUME WindowInv, NEW c \in Clients \ forgotten,
         NEW n \in DOMAIN admitted[c], NEW m \in DOMAIN admitted[c], m >= n + 2 * CallLimit - 1
  PROVE  admitted[c][m] - admitted[c][n] >= Period
  <1> DEFINE s == admitted[c]
  <1>1. s \in Seq(Nat) /\ CallLimit \in Nat \ {0} /\ Period \in Nat
    BY DoorsAssumption DEF WindowInv, WindowTypes
  <1>2. PICK heads : Opens(s, heads)
    BY DEF WindowInv, WindowOf
  <1>3. \A i, j \in DOMAIN s : i <= j => s[i] <= s[j]
    BY DEF WindowInv, WindowOf, Ordered
  <1>4. DOMAIN s = 1..Len(s) /\ Len(s) \in Nat /\ m \in DOMAIN s /\ n \in DOMAIN s
    BY <1>1
  <1> HIDE DEF s
  <1>5. PICK h \in heads : h \in DOMAIN s /\ h <= m /\ m < h + CallLimit
    BY <1>2, <1>4 DEF Opens
  <1>6. h-1 \in DOMAIN s /\ h-1 >= n + CallLimit - 1
    <2>1. CallLimit \in Nat /\ CallLimit >= 1 /\ n \in Nat /\ n >= 1 /\ m \in Nat
      BY <1>1, <1>4
    <2>2. h \in Nat /\ h <= Len(s)
      BY <1>4, <1>5
    <2>3. m >= n + CallLimit + CallLimit - 1 /\ m < h + CallLimit
      BY <1>5, <2>1
    <2>4. h-1 >= n + CallLimit - 1 /\ h-1 >= 1 /\ h-1 \in Nat
      BY <2>1, <2>2, <2>3
    <2>5. h-1 \in 1..Len(s)
      BY <1>4, <2>2, <2>4
    <2> QED
      BY <1>4, <2>4, <2>5
  <1>7. PICK g \in heads : g \in DOMAIN s /\ g <= h-1 /\ h-1 < g + CallLimit
    BY <1>2, <1>6 DEF Opens
  <1>8. g >= n /\ g < h
    <2>1. CallLimit \in Nat /\ n \in Nat /\ g \in Nat /\ h \in Nat
      <3>1. CallLimit \in Nat
        BY <1>1
      <3>2. \A i \in DOMAIN s : i \in Nat
        BY <1>4
      <3> QED
        BY <1>4, <1>5, <1>7, <3>1, <3>2
    <2>2. h-1 >= n + CallLimit - 1 /\ g <= h-1 /\ h-1 < g + CallLimit
      BY <1>6, <1>7
    <2> QED
      BY <2>1, <2>2
  <1>9. s[g] + Period <= s[h] /\ s[h] <= s[m] /\ s[n] <= s[g]
    BY <1>2, <1>3, <1>4, <1>5, <1>7, <1>8 DEF Opens
  <1>10. s[n] \in Nat /\ s[m] \in Nat /\ s[g] \in Nat /\ s[h] \in Nat
    <2>1. \A i \in DOMAIN s : s[i] \in Nat
      BY <1>1
    <2> QED
      BY <1>4, <1>5, <1>7, <2>1
  <1>11. s[m] - s[n] >= Period
    <2>1. Period \in Nat
      BY <1>1
    <2> QED
      BY <1>9, <1>10, <2>1
  <1> QED
    BY <1>11 DEF s

\* So that the calls of a period are less than that.
LEMMA LimitFollows ==
  ASSUME WindowInv
  PROVE  CallsAreLimited
  <1> SUFFICES ASSUME NEW c \in Clients \ forgotten, NEW n \in DOMAIN admitted[c]
               PROVE  Cardinality({m \in n..Len(admitted[c]) : admitted[c][m] - admitted[c][n] < Period})
                          < 2 * CallLimit
    BY DEF CallsAreLimited
  <1> DEFINE s == admitted[c]
             near == {m \in n..Len(s) : s[m] - s[n] < Period}
             span == n .. n + 2 * CallLimit - 2
  <1>1. s \in Seq(Nat) /\ CallLimit \in Nat \ {0} /\ n \in 1..Len(s) /\ Len(s) \in Nat /\ Period \in Nat
    BY DoorsAssumption DEF WindowInv, WindowTypes
  <1>2. ASSUME NEW m \in near PROVE m \in span
    <2>1. m \in Nat /\ m \in DOMAIN s /\ m >= n /\ s[m] - s[n] < Period
      BY <1>1
    <2>2. s[m] \in Nat /\ s[n] \in Nat
      BY <1>1, <2>1
    <2>3. ~(s[m] - s[n] >= Period)
      BY <1>1, <2>1, <2>2
    <2>4. ~(m >= n + 2 * CallLimit - 1)
      BY <2>1, <2>3, FarApart
    <2> QED
      BY <1>1, <2>1, <2>4
  <1>3. IsFiniteSet(span) /\ Cardinality(span) = 2 * CallLimit - 1
    <2> DEFINE to == n + 2 * CallLimit - 2
    <2>1. n \in Int /\ to \in Int /\ ~(n > to) /\ to - n + 1 = 2 * CallLimit - 1
      BY <1>1
    <2>2. IsFiniteSet(n..to) /\ Cardinality(n..to) = IF n > to THEN 0 ELSE to - n + 1
      <3> HIDE DEF to
      <3> QED
        BY <2>1, FS_Interval
    <2> QED
      BY <2>1, <2>2
  <1>4. Cardinality(near) <= Cardinality(span)
    <2>1. near \subseteq span
      BY <1>2
    <2> HIDE DEF near, span
    <2> QED
      BY <1>3, <2>1, FS_Subset
  <1>5. IsFiniteSet(near)
    <2>1. near \subseteq span
      BY <1>2
    <2> HIDE DEF near, span
    <2> QED
      BY <1>3, <2>1, FS_Subset
  <1>6. Cardinality(near) \in Nat
    BY <1>5, FS_CardinalityType
  <1> HIDE DEF near, span
  <1>7. Cardinality(near) < 2 * CallLimit
    BY <1>1, <1>3, <1>4, <1>6
  <1> QED
    BY <1>7 DEF near, s

\* What is kept of the windows when there are too many.
LEMMA PruningIs ==
  ASSUME NEW ws, NEW K \in Prunings(ws)
  PROVE  K \subseteq Kept(ws)
  BY DEF Prunings, Expired

\* A client is let in once more: the calls before stay where they are.
LEMMA AppendIs ==
  ASSUME NEW s \in Seq(Nat), NEW at \in Nat
  PROVE  /\ Append(s, at) \in Seq(Nat) /\ Len(Append(s, at)) = Len(s) + 1
         /\ DOMAIN Append(s, at) = 1 .. Len(s)+1 /\ DOMAIN s = 1..Len(s)
         /\ Append(s, at)[Len(s)+1] = at
         /\ \A n \in 1..Len(s) : Append(s, at)[n] = s[n] /\ s[n] \in Nat
  OBVIOUS

\* The call is the latest of its client.
LEMMA OrderKept ==
  ASSUME WindowInv, NEW c \in Clients \ forgotten,
         admitted'[c] = Append(admitted[c], time), time' = time
  PROVE  Ordered(c)'
  <1> DEFINE s == admitted[c]
             u == admitted'[c]
  <1>1. s \in Seq(Nat) /\ time \in Nat
    BY DEF WindowInv, WindowTypes
  <1>2. /\ DOMAIN u = 1 .. Len(s)+1 /\ DOMAIN s = 1..Len(s) /\ u[Len(s)+1] = time
        /\ \A n \in 1..Len(s) : u[n] = s[n] /\ s[n] \in Nat
    BY <1>1, AppendIs
  <1>3. /\ \A m, n \in DOMAIN s : m <= n => s[m] <= s[n]
        /\ \A n \in DOMAIN s : s[n] <= time
    BY DEF WindowInv, WindowOf, Ordered
  <1>4. Len(s) \in Nat
    BY <1>1
  <1> HIDE DEF s, u
  <1>5. \A n \in DOMAIN u : u[n] <= time /\ (n \in 1..Len(s) \/ n = Len(s)+1)
    BY <1>1, <1>2, <1>3, <1>4
  <1>6. \A m, n \in DOMAIN u : m <= n => u[m] <= u[n]
    BY <1>1, <1>2, <1>3, <1>4, <1>5
  <1> QED
    BY <1>5, <1>6 DEF Ordered, u

\* A call opens a window.
LEMMA OpenedBy ==
  ASSUME WindowInv, NEW c \in Clients \ forgotten,
         windows[c] = Absentee \/ time - windows[c].start >= Period,
         admitted'[c] = Append(admitted[c], time), time' = time,
         windows'[c] = [start |-> time, count |-> 1]
  PROVE  WindowOf(c)'
  <1> DEFINE s == admitted[c]
             u == admitted'[c]
  <1>1. s \in Seq(Nat) /\ time \in Nat /\ Period \in Nat /\ CallLimit \in Nat \ {0} /\ Len(s) \in Nat
    BY DoorsAssumption DEF WindowInv, WindowTypes
  <1>2. /\ DOMAIN u = 1 .. Len(s)+1 /\ DOMAIN s = 1..Len(s) /\ u[Len(s)+1] = time /\ Len(u) = Len(s)+1
        /\ \A n \in 1..Len(s) : u[n] = s[n] /\ s[n] \in Nat
    BY <1>1, AppendIs
  <1>3. PICK heads : Opens(s, heads) /\ Current(c, heads)
    BY DEF WindowInv, WindowOf
  <1>4. \A h \in heads : s[h] + Period <= time
    BY <1>3, AllOver
  <1>5. windows'[c] # Absentee /\ windows'[c].count = 1 /\ windows'[c].start = time
    BY <1>1, AbsenteeAssumption
  <1> DEFINE k == Len(s)
  <1>6. PICK more : more = heads \cup {k+1}
    OBVIOUS
  <1>7. heads \subseteq 1..k /\ k \in Nat /\ DOMAIN u = 1..k+1 /\ DOMAIN s = 1..k /\ u[k+1] = time /\ Len(u) = k+1
    BY <1>1, <1>2, <1>3 DEF Opens
  <1>8. CallLimit \in Nat \ {0} /\ \A n \in 1..k : u[n] = s[n] /\ s[n] \in Nat
    BY <1>1, <1>2
  <1> HIDE DEF s, u, k
  <1>9. Opens(u, more)
    <2>1. \A n \in 1..k : \E h \in heads : h <= n /\ n < h + CallLimit
      BY <1>3, <1>7 DEF Opens
    <2>2. ASSUME NEW n \in DOMAIN u PROVE \E h \in more : h <= n /\ n < h + CallLimit
      <3>1. CASE n \in 1..k
        BY <2>1, <3>1, <1>6
      <3>2. CASE n = k+1
        BY <1>7, <1>8, <3>2, <1>6
      <3> QED
        BY <1>7, <3>1, <3>2
    <2>3. ASSUME NEW g \in more, NEW h \in more, g < h PROVE u[g] + Period <= u[h]
      <3>1. g \in heads
        <4>1. \A m \in more : m \in heads \/ m = k+1
          BY <1>6
        <4>2. \A m \in more : m \in Nat /\ m <= k+1
          <5>1. k \in Nat /\ \A m \in heads : m \in 1..k
            BY <1>7
          <5>2. \A m \in 1..k : m \in Nat /\ m <= k+1
            BY <5>1
          <5> QED
            BY <4>1, <5>1, <5>2
        <4>3. g # k+1
          BY <1>7, <2>3, <4>2
        <4> QED
          BY <4>1, <4>3
      <3>2. CASE h \in heads
        BY <1>3, <1>7, <1>8, <2>3, <3>1, <3>2 DEF Opens
      <3>3. CASE h = k+1
        BY <1>4, <1>7, <1>8, <3>1, <3>3, <1>6
      <3> QED
        BY <1>7, <1>6, <3>2, <3>3
    <2>4. \A h \in more : h \in DOMAIN u
      <3>1. \A h \in 1..k : h \in 1..k+1
        BY <1>7
      <3>2. k+1 \in 1..k+1
        BY <1>7
      <3> QED
        BY <1>7, <1>6, <3>1, <3>2, Zenon
    <2> QED
      BY <2>2, <2>3, <2>4 DEF Opens
  <1>10. Current(c, more)'
    <2>1. Len(u) - windows'[c].count + 1 = k+1
      BY <1>5, <1>7
    <2>2. (k+1 \in more) /\ \A h \in more : h <= k+1
      BY <1>7, <1>6
    <2>3. windows'[c].count \in 1..CallLimit
      BY <1>5, <1>8
    <2> QED
      BY <1>5, <1>7, <2>1, <2>2, <2>3 DEF Current, u
  <1>11. Ordered(c)'
    BY OrderKept
  <1> QED
    BY <1>9, <1>10, <1>11 DEF WindowOf, u

\* A call is let in by the window that is open.
LEMMA CalledAgain ==
  ASSUME WindowInv, NEW c \in Clients \ forgotten,
         windows[c] # Absentee, windows[c].count < CallLimit,
         admitted'[c] = Append(admitted[c], time), time' = time,
         windows' = [windows EXCEPT ![c].count = @ + 1]
  PROVE  WindowOf(c)'
  <1> DEFINE s == admitted[c]
             u == admitted'[c]
             w == windows[c]
             last == Len(s) - w.count + 1
  <1>1. /\ s \in Seq(Nat) /\ time \in Nat /\ Period \in Nat /\ CallLimit \in Nat \ {0} /\ Len(s) \in Nat
        /\ w \in [start : Nat, count : Nat]
    BY DoorsAssumption DEF WindowInv, WindowTypes
  <1>2. /\ DOMAIN u = 1 .. Len(s)+1 /\ DOMAIN s = 1..Len(s) /\ u[Len(s)+1] = time /\ Len(u) = Len(s)+1
        /\ \A n \in 1..Len(s) : u[n] = s[n] /\ s[n] \in Nat
    BY <1>1, AppendIs
  <1>3. PICK heads : Opens(s, heads) /\ Current(c, heads)
    BY DEF WindowInv, WindowOf
  <1>4. /\ w.count \in 1..CallLimit /\ last \in heads /\ s[last] = w.start
        /\ \A h \in heads : h <= last
    BY <1>3 DEF Current
  <1>5. /\ windows'[c] \in [start : Nat, count : Nat]
        /\ windows'[c].count = w.count + 1 /\ windows'[c].start = w.start
    BY <1>1 DEF WindowInv, WindowTypes
  <1>6. windows'[c] # Absentee
    BY <1>5, AbsenteeAssumption
  <1>7. w.count \in Nat /\ w.count < CallLimit
    BY <1>1
  <1> HIDE DEF s, u, w
  <1>8. heads \subseteq 1..Len(s)
    BY <1>2, <1>3 DEF Opens
  <1>9. Opens(u, heads)
    <2>1. \A n \in 1..Len(s) : \E h \in heads : h <= n /\ n < h + CallLimit
      BY <1>2, <1>3 DEF Opens
    <2>2. last <= Len(s)+1 /\ Len(s)+1 < last + CallLimit
      BY <1>1, <1>4, <1>7
    <2>3. ASSUME NEW n \in DOMAIN u PROVE \E h \in heads : h <= n /\ n < h + CallLimit
      <3>1. CASE n \in 1..Len(s)
        BY <2>1, <3>1
      <3>2. CASE n = Len(s)+1
        BY <1>4, <2>2, <3>2
      <3> QED
        BY <1>1, <1>2, <3>1, <3>2
    <2>4. \A g, h \in heads : g < h => u[g] + Period <= u[h]
      BY <1>2, <1>3, <1>8 DEF Opens
    <2>5. heads \subseteq DOMAIN u
      BY <1>1, <1>2, <1>8
    <2> QED
      BY <2>3, <2>4, <2>5 DEF Opens
  <1>10. Current(c, heads)'
    <2>1. Len(u) - windows'[c].count + 1 = last
      BY <1>1, <1>2, <1>5, <1>7
    <2>2. u[last] = windows'[c].start
      BY <1>2, <1>4, <1>5, <1>8
    <2>3. windows'[c].count \in 1..CallLimit
      BY <1>1, <1>5, <1>7
    <2> QED
      BY <1>4, <1>6, <2>1, <2>2, <2>3 DEF Current, u
  <1>11. Ordered(c)'
    BY OrderKept
  <1> QED
    BY <1>9, <1>10, <1>11 DEF WindowOf, u

\* The calls of a client that stays away; its window may end and be dropped.
LEMMA StaysAway ==
  ASSUME WindowInv, NEW c \in Clients \ forgotten,
         admitted'[c] = admitted[c], time' \in Nat, time' >= time,
         \/ windows'[c] = windows[c]
         \/ windows'[c] = Absentee /\ (windows[c] = Absentee \/ time - windows[c].start >= Period)
  PROVE  WindowOf(c)'
  <1> DEFINE s == admitted[c]
  <1>1. s \in Seq(Nat) /\ time \in Nat /\ Period \in Nat
    BY DoorsAssumption DEF WindowInv, WindowTypes
  <1>2. PICK heads : Opens(s, heads) /\ Current(c, heads)
    BY DEF WindowInv, WindowOf
  <1>3. \A n \in DOMAIN s : s[n] \in Nat
    BY <1>1
  <1>4. heads \subseteq DOMAIN s
    BY <1>2 DEF Opens
  <1>5. Ordered(c)'
    <2>1. /\ \A m, n \in DOMAIN s : m <= n => s[m] <= s[n]
          /\ \A n \in DOMAIN s : s[n] <= time
      BY DEF WindowInv, WindowOf, Ordered
    <2>2. \A n \in DOMAIN s : s[n] <= time'
      BY <1>1, <1>3, <2>1
    <2> QED
      BY <2>1, <2>2 DEF Ordered
  <1>6. Current(c, heads)'
    <2>1. CASE windows'[c] = Absentee
      <3>1. windows[c] = Absentee \/ time - windows[c].start >= Period
        BY <2>1
      <3>2. \A h \in heads : s[h] + Period <= time
        BY <1>2, <3>1, AllOver
      <3>3. \A h \in heads : s[h] + Period <= time'
        BY <1>1, <1>3, <1>4, <3>2
      <3> QED
        BY <2>1, <3>3 DEF Current
    <2>2. CASE windows'[c] # Absentee
      BY <1>2, <2>2 DEF Current
    <2> QED
      BY <2>1, <2>2
  <1> QED
    BY <1>2, <1>5, <1>6 DEF WindowOf

\* A window is opened, and others are dropped.
LEMMA WindowOpened ==
  ASSUME WindowInv, NEW c \in Clients, OpenWindow(c)
  PROVE  WindowInv'
  <1> DEFINE ws == [windows EXCEPT ![c] = [start |-> time, count |-> 1]]
  <1>1. PICK K \in Prunings(ws) :
            /\ windows' = [d \in Clients |-> IF d \in K THEN ws[d] ELSE Absentee]
            /\ forgotten' = forgotten \cup (Kept(ws) \ (K \cup Expired(ws)))
    BY DEF OpenWindow
  <1>2. K \subseteq Kept(ws)
    BY PruningIs
  <1>3. /\ time \in Nat /\ Period \in Nat \ {0}
        /\ windows \in [Clients -> [start : Nat, count : Nat] \cup {Absentee}]
        /\ admitted \in [Clients -> Seq(Nat)] /\ forgotten \subseteq Clients
    BY DoorsAssumption DEF WindowInv, WindowTypes
  <1>4. time' = time /\ LetIn(c) /\ (windows[c] = Absentee \/ time - windows[c].start >= Period)
    BY DEF OpenWindow, Expired
  <1>5. admitted' = [d \in Clients |-> IF d \in forgotten' THEN << >>
                                   ELSE IF d = c THEN Append(admitted[d], time) ELSE admitted[d]]
    BY <1>4 DEF LetIn
  <1>6. /\ ws \in [Clients -> [start : Nat, count : Nat] \cup {Absentee}]
        /\ ws[c] = [start |-> time, count |-> 1]
        /\ \A d \in Clients : d # c => ws[d] = windows[d]
    BY <1>3
  <1> HIDE DEF ws
  <1>7. WindowTypes'
    <2>1. windows' \in [Clients -> [start : Nat, count : Nat] \cup {Absentee}]
      BY <1>1, <1>6
    <2>2. admitted' \in [Clients -> Seq(Nat)]
      <3>1. << >> \in Seq(Nat)
        OBVIOUS
      <3>2. \A d \in Clients : Append(admitted[d], time) \in Seq(Nat) /\ admitted[d] \in Seq(Nat)
        BY <1>3, AppendIs
      <3> QED
        BY <1>5, <3>1, <3>2
    <2>3. forgotten' \subseteq Clients
      BY <1>1, <1>3 DEF Kept
    <2> QED
      BY <1>3, <1>4, <2>1, <2>2, <2>3 DEF WindowTypes
  <1>8. ASSUME NEW d \in Clients \ forgotten' PROVE WindowOf(d)'
    <2>1. d \in Clients \ forgotten /\ d \notin Kept(ws) \ (K \cup Expired(ws))
      BY <1>1, <1>8
    <2>2. CASE d = c
      <3>1. ws[c] # Absentee
        BY <1>3, <1>6, AbsenteeAssumption
      <3>2. c \in Kept(ws) /\ c \notin Expired(ws)
        BY <1>3, <1>6, <3>1 DEF Kept, Expired
      <3>3. windows'[c] = [start |-> time, count |-> 1]
        BY <1>1, <1>6, <2>1, <2>2, <3>2
      <3>4. admitted'[c] = Append(admitted[c], time)
        BY <1>5, <1>8, <2>2
      <3> QED
        BY <1>4, <2>1, <2>2, <3>3, <3>4, OpenedBy
    <2>3. CASE d # c
      <3>1. admitted'[d] = admitted[d]
        BY <1>5, <1>8, <2>3
      <3>2. \/ windows'[d] = windows[d]
            \/ windows'[d] = Absentee /\ (windows[d] = Absentee \/ time - windows[d].start >= Period)
        BY <1>1, <1>6, <2>1, <2>3 DEF Kept, Expired
      <3>3. time' \in Nat /\ time' >= time
        BY <1>3, <1>4
      <3> QED
        BY <2>1, <3>1, <3>2, <3>3, StaysAway
    <2> QED
      BY <2>2, <2>3
  <1> QED
    BY <1>7, <1>8 DEF WindowInv

\* A call within a window.
LEMMA WindowUsed ==
  ASSUME WindowInv, NEW c \in Clients, CallAgain(c)
  PROVE  WindowInv'
  <1>1. /\ time \in Nat
        /\ windows \in [Clients -> [start : Nat, count : Nat] \cup {Absentee}]
        /\ admitted \in [Clients -> Seq(Nat)] /\ forgotten \subseteq Clients
    BY DEF WindowInv, WindowTypes
  <1>2. /\ windows[c] # Absentee /\ windows[c].count < CallLimit
        /\ windows' = [windows EXCEPT ![c].count = @ + 1]
        /\ forgotten' = forgotten /\ time' = time
    BY DEF CallAgain
  <1>3. admitted' = [d \in Clients |-> IF d \in forgotten THEN << >>
                                   ELSE IF d = c THEN Append(admitted[d], time) ELSE admitted[d]]
    BY <1>2 DEF CallAgain, LetIn
  <1>4. WindowTypes'
    <2>1. windows' \in [Clients -> [start : Nat, count : Nat] \cup {Absentee}]
      <3>1. windows[c] \in [start : Nat, count : Nat]
        BY <1>1, <1>2
      <3> QED
        BY <1>1, <1>2, <3>1
    <2>2. admitted' \in [Clients -> Seq(Nat)]
      <3>1. << >> \in Seq(Nat)
        OBVIOUS
      <3>2. \A d \in Clients : Append(admitted[d], time) \in Seq(Nat) /\ admitted[d] \in Seq(Nat)
        BY <1>1, AppendIs
      <3> QED
        BY <1>3, <3>1, <3>2
    <2> QED
      BY <1>1, <1>2, <2>1, <2>2 DEF WindowTypes
  <1>5. ASSUME NEW d \in Clients \ forgotten' PROVE WindowOf(d)'
    <2>1. d \in Clients \ forgotten
      BY <1>2
    <2>2. CASE d = c
      <3>1. admitted'[c] = Append(admitted[c], time)
        BY <1>3, <2>1, <2>2
      <3> QED
        BY <1>2, <2>1, <2>2, <3>1, CalledAgain
    <2>3. CASE d # c
      <3>1. admitted'[d] = admitted[d] /\ windows'[d] = windows[d] /\ time' \in Nat /\ time' >= time
        BY <1>1, <1>2, <1>3, <2>1, <2>3
      <3> QED
        BY <2>1, <3>1, StaysAway
    <2> QED
      BY <2>2, <2>3
  <1> QED
    BY <1>4, <1>5 DEF WindowInv

\* The clock goes on, or nothing happens to the windows.
LEMMA WindowsKept ==
  ASSUME WindowInv, UNCHANGED <<windows, admitted, forgotten>>, time' \in {time, time + 1}
  PROVE  WindowInv'
  <1>1. time \in Nat /\ time' \in Nat /\ time' >= time
    BY DEF WindowInv, WindowTypes
  <1>2. \A c \in Clients \ forgotten' : WindowOf(c)'
    BY <1>1, StaysAway
  <1>3. WindowTypes'
    BY <1>1 DEF WindowInv, WindowTypes
  <1> QED
    BY <1>2, <1>3 DEF WindowInv

\* Nothing happens to the doors.
LEMMA SlotsKept ==
  ASSUME SlotInv, UNCHANGED <<task, places, slots>>
  PROVE  SlotInv'
  <1> USE DEF SlotInv
  <1>1. DoorTypes'
    BY DEF DoorTypes
  <1>2. SlotsAreExact'
    BY PayersKept, WritersKept, ExactNext
  <1>3. NobodySleepsOver'
    BY DEF NobodySleepsOver, SlotFor
  <1> QED
    BY <1>1, <1>2, <1>3

-----------------------------------------------------------------------------
(***************************************************************************)
(* Theorems                                                                *)
(***************************************************************************)
\* The counters count nobody, and no window is open.
LEMMA DoorsOpen ==
  ASSUME DoorInit
  PROVE  SlotInv /\ WindowInv
  <1> USE DEF DoorInit
  <1>1. DoorTypes
    BY DEF DoorTypes, TaskStates, Doors, Empty, AccountNames, Credentials
  <1>2. SlotsAreExact
    <2>1. \A a : Payers(a) = {}
      BY DEF Payers
    <2>2. \A c : Writers(c) = {}
      BY DEF Writers
    <2>3. PayingNow = {} /\ WritingNow = {}
      BY DEF PayingNow, WritingNow
    <2>4. Cardinality({}) = 0
      BY FS_EmptySet
    <2>5. \A a \in DOMAIN slots.of : slots.of[a] = 0
      BY DEF Empty
    <2>6. \A c \in DOMAIN places.of : places.of[c] = 0
      BY DEF Empty
    <2>7. slots.all = 0 /\ places.all = 0
      BY DEF Empty
    <2> QED
      BY <2>1, <2>2, <2>3, <2>4, <2>5, <2>6, <2>7 DEF SlotsAreExact, PayingNow, WritingNow
  <1>3. NobodySleepsOver
    BY DEF NobodySleepsOver
  <1>4. WindowTypes
    BY DEF WindowTypes
  <1>5. ASSUME NEW c \in Clients PROVE WindowOf(c)
    <2>1. admitted[c] = << >> /\ windows[c] = Absentee
      OBVIOUS
    <2>2. Opens(admitted[c], {})
      BY <2>1 DEF Opens
    <2>3. Current(c, {})
      BY <2>1 DEF Current
    <2>4. Ordered(c)
      BY <2>1 DEF Ordered
    <2> QED
      BY <2>2, <2>3, <2>4 DEF WindowOf
  <1> QED
    BY <1>1, <1>2, <1>3, <1>4, <1>5 DEF SlotInv, WindowInv

\* Every step of a request or an import keeps the counters.
LEMMA SlotStep ==
  ASSUME SlotInv, SlotNext
  PROVE  SlotInv' /\ UNCHANGED <<windows, admitted, forgotten, time>>
  <1>1. PICK t \in Tasks :
            EnterWrite(t) \/ EnterPaid(t) \/ LeaveWrite(t) \/ WaitPaid(t) \/ StopWaiting(t) \/ LeavePaid(t)
    BY DEF SlotNext
  <1>2. UNCHANGED <<windows, admitted, forgotten, time>>
    BY <1>1 DEF EnterWrite, EnterPaid, LeaveWrite, WaitPaid, StopWaiting, LeavePaid
  <1>3. CASE EnterWrite(t)
    BY <1>2, <1>3, WriteEntered
  <1>4. CASE EnterPaid(t)
    BY <1>2, <1>4, PaidEntered DEF EnterPaid
  <1>5. CASE LeaveWrite(t)
    BY <1>2, <1>5, WriteLeft
  <1>6. CASE WaitPaid(t)
    <2>1. t \in Imports /\ task[t] # "paying" /\ places' = places
      BY <1>6 DEF WaitPaid
    <2>2. CASE SlotFor(t)
      BY <1>2, <1>6, <2>1, <2>2, PaidEntered DEF WaitPaid
    <2>3. CASE ~SlotFor(t)
      BY <1>2, <1>6, <2>1, <2>3, WaitingMoved DEF WaitPaid
    <2> QED
      BY <2>2, <2>3
  <1>7. CASE StopWaiting(t)
    <2>1. t \in Imports /\ task[t] # "paying"
      BY <1>7 DEF StopWaiting, SlotInv, DoorTypes
    <2> QED
      BY <1>2, <1>7, <2>1, WaitingMoved DEF StopWaiting
  <1>8. CASE LeavePaid(t)
    BY <1>2, <1>8, PaidLeft
  <1> QED
    BY <1>1, <1>3, <1>4, <1>5, <1>6, <1>7, <1>8

\* Every call, and the clock, keeps the windows.
LEMMA WindowStep ==
  ASSUME WindowInv, WindowNext
  PROVE  WindowInv' /\ UNCHANGED <<task, places, slots>>
  <1>1. CASE Wait
    <2>1. time' \in {time, time + 1} /\ UNCHANGED <<windows, admitted, forgotten, task, places, slots>>
      BY <1>1 DEF Wait
    <2> QED
      BY <2>1, WindowsKept
  <1>2. ASSUME NEW c \in Clients, OpenWindow(c) PROVE WindowInv' /\ UNCHANGED <<task, places, slots>>
    BY <1>2, WindowOpened DEF OpenWindow
  <1>3. ASSUME NEW c \in Clients, CallAgain(c) PROVE WindowInv' /\ UNCHANGED <<task, places, slots>>
    BY <1>3, WindowUsed DEF CallAgain
  <1> QED
    BY <1>1, <1>2, <1>3 DEF WindowNext

\* The counters and the windows are right in every state (ProviderAdmission,
\* FixedWindowLimiter).
THEOREM DoorsInvariant == DoorsSpec => [](SlotInv /\ WindowInv)
  <1>1. DoorInit => SlotInv /\ WindowInv
    BY DoorsOpen
  <1>2. SlotInv /\ WindowInv /\ [SlotNext \/ WindowNext]_doorVars => SlotInv' /\ WindowInv'
    <2> SUFFICES ASSUME SlotInv, WindowInv, [SlotNext \/ WindowNext]_doorVars
                 PROVE  SlotInv' /\ WindowInv'
      OBVIOUS
    <2>1. CASE SlotNext
      BY <2>1, SlotStep, WindowsKept
    <2>2. CASE WindowNext
      BY <2>2, WindowStep, SlotsKept
    <2>3. CASE UNCHANGED doorVars
      BY <2>3, SlotsKept, WindowsKept DEF doorVars
    <2> QED
      BY <2>1, <2>2, <2>3
  <1> QED
    BY <1>1, <1>2, PTL DEF DoorsSpec

\* No place or slot is lost or given away twice, no import sleeps on a free slot, and
\* no client is let in twice the limit within a period (services/abuse.py).
THEOREM DoorsAreSound == DoorsSpec => []DoorsHold
  <1>1. SlotInv /\ WindowInv => DoorsHold
    BY LimitFollows DEF SlotInv, DoorsHold
  <1> QED
    BY <1>1, DoorsInvariant, PTL

===============================================================================
