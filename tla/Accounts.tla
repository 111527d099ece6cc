------------------------------- MODULE Accounts -------------------------------
(***************************************************************************)
(* Sign-in, sessions and account deletion                                  *)
(* (src/api/app/services/authentication.py, routers/authentication.py,     *)
(* auth.py).                                                               *)
(*                                                                         *)
(* A request is a transaction: what it has locked or read is its record in *)
(* "req", what it writes is visible when it commits.  It waits for rows    *)
(* another request has locked, and may at any point before its commit be   *)
(* rolled back: Apple refuses or cannot be reached, the client or the      *)
(* process goes away, or the database breaks a cycle of waiting requests.  *)
(***************************************************************************)
EXTENDS Naturals, Sequences, FiniteSets, SequencesExt

CONSTANTS
    None, Requests, Nonces, Subjects,
    Founder, NewUsers,
    Events,        \* [jti, subject, at]: an Apple notification that access ended
    ClaimFirst,    \* the founder claim is open at the start
    MaxSessions, MaxClock

ASSUME AccountsAssumption ==
    /\ Founder \notin NewUsers
    /\ \A e \in Events : e.subject \in Subjects /\ e.at \in Nat
    /\ \A e, f \in Events : e.jti = f.jti => e = f   \* it identifies a notification
    /\ ClaimFirst \in BOOLEAN /\ MaxClock \in Nat /\ MaxSessions \in Nat

VARIABLES
    users,       \* User rows
    identities,  \* by subject: the account and when Apple last authorized it
    sessions,    \* AuthSession rows, in the order of their issue
    nonces,      \* AuthNonce rows: "none", "fresh", "used"
    receipts,    \* jtis of AppleNotificationReceipt rows
    claimOpen,   \* founder_claim_token is configured
    minted,      \* new user ids given out
    clock,       \* in seconds
    req          \* what a request holds, None between requests

vars == <<users, identities, sessions, nonces, receipts, claimOpen, minted, clock, req>>

Accounts == {Founder} \cup NewUsers

Authorizations == [user : Accounts, at : 0..MaxClock, token : BOOLEAN]

SessionRows ==
    [user : Accounts, family : Nat, nonce : Nonces \cup {None},
     row : BOOLEAN, live : BOOLEAN, age : {"fresh", "stale", "expired"}]

\* What a request has locked, read or found between two of its statements.
Holdings ==
         [op : {"consumed", "claim", "founder", "binding"}, subject : Subjects, nonce : Nonces]
    \cup [op : {"create", "signing"}, subject : Subjects, nonce : Nonces, user : Accounts]
    \cup [op : {"rotate", "replay"}, session : Nat]
    \cup [op : {"seen"}, session : Nat, rows : SUBSET Nat]
    \cup [op : {"logout"}, rows : SUBSET Nat]
    \cup [op : {"revoke", "delete"}, user : Accounts]
    \cup [op : {"event"}, subject : Subjects, event : Events, applied : BOOLEAN, rows : SUBSET Nat]

ASSUME NoneAssumption == None \notin Holdings \cup Authorizations \cup Nonces

(***************************************************************************)
(* Rows and locks                                                          *)
(***************************************************************************)
Live(i) == sessions[i].row /\ sessions[i].live

\* A live session that could still be used: its tokens are not past their time.
Usable(i) == Live(i) /\ sessions[i].age # "expired"

Busy == {r \in Requests : req[r] # None}

At(r, op) == r \in Busy /\ req[r].op = op

Locks(r, i) == r \in Busy /\ req[r].op \in {"rotate", "replay", "seen"} /\ req[r].session = i

RowLocked(i) == \E r \in Requests : Locks(r, i)

\* A claim that found no identity has locked none.
IdentityLocked(s) ==
    /\ identities[s] # None
    /\ \E r \in Busy :
          /\ req[r].op \in {"signing", "binding", "event"} /\ req[r].subject = s
          /\ req[r].op = "binding" => identities[s].user = Founder

UserLocked(u) ==
    \E r \in Busy : \/ req[r].op \in {"founder", "binding"} /\ u = Founder
                    \/ At(r, "delete") /\ req[r].user = u

\* FOR UPDATE of a nonce: whoever holds it either uses it or rolls back.
NonceFree(n) == \A r \in Busy : req[r].op \in {"consumed", "create", "signing", "claim", "founder", "binding"}
                                  => req[r].nonce # n

\* A foreign key to a user: its row exists and nobody is about to delete it.
UserStays(u) == u \in users /\ ~UserLocked(u)

IdentityOf(u) == {s \in Subjects : identities[s] # None /\ identities[s].user = u}

NotUnique(s, u) == TRUE   \* mutant

\* The unique indexes of AppleIdentity.
Unique(s, u) == identities[s] = None /\ IdentityOf(u) = {}

Ends(r) == req' = [req EXCEPT ![r] = None]
Holds(r, rec) == req' = [req EXCEPT ![r] = rec]

(***************************************************************************)
(* Issuing                                                                 *)
(***************************************************************************)
\* cleanup_auth_rows: a session goes when both of its tokens are past their time.
Cleanup(s) == s.age = "expired"

CleanedUp(rows) == [i \in DOMAIN rows |-> IF Cleanup(rows[i]) THEN [rows[i] EXCEPT !.row = FALSE] ELSE rows[i]]

NewSession(u, family, nonce) ==
    [user |-> u, family |-> family, nonce |-> nonce, row |-> TRUE, live |-> TRUE, age |-> "fresh"]

\* issue_session, with the cleanup it starts with.
Issued(rows, new) == Append(CleanedUp(rows), new)

\* The cleanup waits for a row that one of the others has locked.
CleanupFree(others) ==
    \A i \in DOMAIN sessions : sessions[i].row /\ Cleanup(sessions[i]) =>
        \A q \in others : ~Locks(q, i)

CanIssue(r) == Len(sessions) < MaxSessions /\ CleanupFree(Requests \ {r})

NewFamily == Len(sessions) + 1

IssueNonce(n) ==
    /\ nonces[n] = "none" /\ CleanupFree(Requests)
    /\ nonces' = [nonces EXCEPT ![n] = "fresh"]
    /\ sessions' = CleanedUp(sessions)
    /\ UNCHANGED <<users, identities, receipts, claimOpen, minted, clock, req>>

\* Apple's answer to a code it accepts may hold a refresh token.  Any other answer
\* ends the request.
Exchanges == BOOLEAN

AuthorizedAhead(u, sent) == [user |-> u, at |-> clock + 1, token |-> sent]   \* mutant

\* _apply_apple_authorization
Authorized(u, sent) == [user |-> u, at |-> clock, token |-> sent]

(***************************************************************************)
(* POST /auth/apple and POST /auth/founder/apple-claim                     *)
(***************************************************************************)
\* Any identity token that names the nonce; _consume_nonce locks it and marks it
\* used.
Consume(r, s, n, op) ==
    /\ req[r] = None
    /\ nonces[n] = "fresh" /\ NonceFree(n)
    /\ Holds(r, [op |-> op, subject |-> s, nonce |-> n])
    /\ UNCHANGED <<users, identities, sessions, nonces, receipts, claimOpen, minted, clock>>

\* The identity is read FOR UPDATE: a lock if there is a row, nothing otherwise.
SignInReads(r) ==
    LET s == req[r].subject
    IN  /\ At(r, "consumed") /\ ~IdentityLocked(s)
        /\ IF identities[s] = None
           THEN /\ ~claimOpen
                /\ \E u \in NewUsers \ minted :
                      /\ Holds(r, [op |-> "create", subject |-> s, nonce |-> req[r].nonce, user |-> u])
                      /\ minted' = minted \cup {u}
           ELSE /\ Holds(r, [op |-> "signing", subject |-> s, nonce |-> req[r].nonce,
                             user |-> identities[s].user])
                /\ UNCHANGED minted
        /\ UNCHANGED <<users, identities, sessions, nonces, receipts, claimOpen, clock>>

Signs(r, u, new, sent) ==
    LET s == req[r].subject
    IN  /\ CanIssue(r)
        /\ users' = IF new THEN users \cup {u} ELSE users
        /\ identities' = [identities EXCEPT ![s] =
               Authorized(u, sent \/ (identities[s] # None /\ identities[s].token))]
        /\ sessions' = Issued(sessions, NewSession(u, NewFamily, req[r].nonce))
        /\ nonces' = [nonces EXCEPT ![req[r].nonce] = "used"]
        /\ Ends(r)
        /\ UNCHANGED <<receipts, claimOpen, minted, clock>>

\* An account is only created with the token Apple sends for its revocation.
SignUp(r) ==
    /\ At(r, "create") /\ Unique(req[r].subject, req[r].user)
    /\ Signs(r, req[r].user, TRUE, TRUE)

SignInAgain(r, sent) ==
    /\ At(r, "signing") /\ UserStays(req[r].user)
    /\ Signs(r, req[r].user, FALSE, sent)

\* The claim is refused when the founder row is gone.
ClaimLocksFounder(r) ==
    /\ At(r, "claim") /\ claimOpen
    /\ UserStays(Founder)
    /\ Holds(r, [req[r] EXCEPT !.op = "founder"])
    /\ UNCHANGED <<users, identities, sessions, nonces, receipts, claimOpen, minted, clock>>

\* Both identities are locked: the founder has none and the subject has none, or
\* they are the same.
ClaimLocksIdentities(r) ==
    LET s == req[r].subject
    IN  /\ At(r, "founder")
        /\ \A t \in IdentityOf(Founder) \cup {s} : ~IdentityLocked(t)
        /\ IF IdentityOf(Founder) = {} THEN identities[s] = None ELSE IdentityOf(Founder) = {s}
        /\ Holds(r, [op |-> "binding", subject |-> s, nonce |-> req[r].nonce])
        /\ UNCHANGED <<users, identities, sessions, nonces, receipts, claimOpen, minted, clock>>

ClaimCommits(r) ==
    /\ At(r, "binding")
    /\ IdentityOf(Founder) = {req[r].subject} \/ Unique(req[r].subject, Founder)
    /\ \E sent \in Exchanges :
          /\ sent \/ IdentityOf(Founder) # {}
          /\ Signs(r, Founder, FALSE, sent)

(***************************************************************************)
(* POST /auth/refresh                                                      *)
(***************************************************************************)
RowFreeUnlocked(i) == TRUE   \* mutant

RowFree(i) == ~RowLocked(i)

\* The row of the presented token is locked, if it is still there; a token past its
\* time is revoked at once.
RefreshLocks(r, i) ==
    /\ req[r] = None
    /\ sessions[i].row /\ RowFree(i)
    /\ IF sessions[i].live /\ sessions[i].age = "expired"
       THEN sessions' = [sessions EXCEPT ![i].live = FALSE] /\ UNCHANGED req
       ELSE /\ Holds(r, [op |-> IF sessions[i].live THEN "rotate" ELSE "replay", session |-> i])
            /\ UNCHANGED sessions
    /\ UNCHANGED <<users, identities, nonces, receipts, claimOpen, minted, clock>>

RefreshRotates(r) ==
    LET i == req[r].session
    IN  /\ At(r, "rotate") /\ CanIssue(r) /\ UserStays(sessions[i].user)
        /\ sessions' = Issued([sessions EXCEPT ![i].live = FALSE],
                              NewSession(sessions[i].user, sessions[i].family, None))
        /\ Ends(r)
        /\ UNCHANGED <<users, identities, nonces, receipts, claimOpen, minted, clock>>

FamilyOf(i) == {j \in DOMAIN sessions : sessions[j].family = sessions[i].family}

\* A rotated token was presented: its family is read, and then revoked row by row.
ReplayReads(r) ==
    /\ At(r, "replay")
    /\ Holds(r, [op |-> "seen", session |-> req[r].session,
                 rows |-> {j \in FamilyOf(req[r].session) : Live(j)}])
    /\ UNCHANGED <<users, identities, sessions, nonces, receipts, claimOpen, minted, clock>>

\* The rows were read without locks, so that an update waits for theirs.
Revoked(read) == [i \in DOMAIN sessions |->
                     IF i \in read THEN [sessions[i] EXCEPT !.live = FALSE] ELSE sessions[i]]

Updatable(read) == \A i \in read : sessions[i].row /\ ~RowLocked(i)

ReplayRevokes(r) ==
    /\ At(r, "seen") /\ Updatable(req[r].rows \ {req[r].session})
    /\ sessions' = Revoked(req[r].rows)
    /\ Ends(r)
    /\ UNCHANGED <<users, identities, nonces, receipts, claimOpen, minted, clock>>

(***************************************************************************)
(* Requests that need an access token: POST /auth/logout, DELETE           *)
(* /auth/account                                                           *)
(***************************************************************************)
\* user_for_access_token
HasAccess(i) == Live(i) /\ sessions[i].age = "fresh" /\ sessions[i].user \in users

\* require_user: no transaction is open when the handler starts.
Authenticated(r, i) == req[r] = None /\ HasAccess(i)

LogoutReads(r, i) ==
    /\ Authenticated(r, i)
    /\ Holds(r, [op |-> "logout", rows |-> {i}])
    /\ UNCHANGED <<users, identities, sessions, nonces, receipts, claimOpen, minted, clock>>

LogoutRevokes(r) ==
    /\ At(r, "logout") /\ Updatable(req[r].rows)
    /\ sessions' = Revoked(req[r].rows)
    /\ Ends(r)
    /\ UNCHANGED <<users, identities, nonces, receipts, claimOpen, minted, clock>>

\* The credential is read and revoked at Apple with nothing locked; a failure ends
\* the request with the account intact.
DeleteStarts(r, i) ==
    /\ Authenticated(r, i)
    /\ Holds(r, [op |-> "revoke", user |-> sessions[i].user])
    /\ UNCHANGED <<users, identities, sessions, nonces, receipts, claimOpen, minted, clock>>

\* lock_user_boundary: another deletion may have completed in the meantime.
DeleteLocks(r) ==
    LET u == req[r].user
    IN  /\ At(r, "revoke") /\ ~UserLocked(u)
        /\ IF u \in users THEN Holds(r, [op |-> "delete", user |-> u]) ELSE Ends(r)
        /\ UNCHANGED <<users, identities, sessions, nonces, receipts, claimOpen, minted, clock>>

SessionsWithout(u) == [i \in DOMAIN sessions |->
                          IF sessions[i].user = u THEN [sessions[i] EXCEPT !.row = FALSE] ELSE sessions[i]]

\* The row goes with everything that refers to it, each row when it is free.
DeleteCommits(r) ==
    LET u == req[r].user
    IN  /\ At(r, "delete")
        /\ \A s \in IdentityOf(u) : ~IdentityLocked(s)
        /\ \A i \in DOMAIN sessions : sessions[i].user = u /\ sessions[i].row => ~RowLocked(i)
        /\ users' = users \ {u}
        /\ sessions' = SessionsWithout(u)
        /\ identities' = [s \in Subjects |-> IF s \in IdentityOf(u) THEN None ELSE identities[s]]
        /\ receipts' = {j \in receipts :
              \A e \in Events : e.jti = j => e.subject \notin IdentityOf(u)}
        /\ Ends(r)
        /\ UNCHANGED <<nonces, claimOpen, minted, clock>>

(***************************************************************************)
(* POST /auth/apple/notifications                                          *)
(***************************************************************************)
Receipted(e) == e.jti \in receipts

IdentityReadable(s) == TRUE   \* mutant

IdentityFree(s) == ~IdentityLocked(s)

\* Neither the fast path nor, with the identity locked, the second read finds a
\* receipt; the live sessions are read.
EventLocks(r, e) ==
    LET id == identities[e.subject]
    IN  /\ req[r] = None
        /\ e.at <= clock /\ ~Receipted(e)
        /\ id # None /\ IdentityFree(e.subject)
        /\ Holds(r, [op |-> "event", subject |-> e.subject, event |-> e, applied |-> e.at >= id.at,
                     rows |-> IF e.at < id.at THEN {}
                              ELSE {i \in DOMAIN sessions : Live(i) /\ sessions[i].user = id.user}])
        /\ UNCHANGED <<users, identities, sessions, nonces, receipts, claimOpen, minted, clock>>

EventCommits(r) ==
    LET s == req[r].subject
    IN  /\ At(r, "event")
        /\ Updatable(req[r].rows) /\ identities[s] # None /\ ~Receipted(req[r].event)
        /\ sessions' = Revoked(req[r].rows)
        /\ identities' = IF req[r].applied THEN [identities EXCEPT ![s].token = FALSE] ELSE identities
        /\ receipts' = receipts \cup {req[r].event.jti}
        /\ Ends(r)
        /\ UNCHANGED <<users, nonces, claimOpen, minted, clock>>

(***************************************************************************)
(* The world                                                               *)
(***************************************************************************)
RollBack(r) ==
    /\ req[r] # None
    /\ Ends(r)
    /\ UNCHANGED <<users, identities, sessions, nonces, receipts, claimOpen, minted, clock>>

\* The operator removes the claim secret.
CloseClaim ==
    /\ claimOpen
    /\ claimOpen' = FALSE
    /\ UNCHANGED <<users, identities, sessions, nonces, receipts, minted, clock, req>>

Tick ==
    /\ clock < MaxClock
    /\ clock' = clock + 1
    /\ UNCHANGED <<users, identities, sessions, nonces, receipts, claimOpen, minted, req>>

\* The access token's time ends first, then the refresh token's.
Age(i) ==
    /\ sessions[i].row /\ sessions[i].age # "expired"
    /\ sessions' = [sessions EXCEPT ![i].age = IF @ = "fresh" THEN "stale" ELSE "expired"]
    /\ UNCHANGED <<users, identities, nonces, receipts, claimOpen, minted, clock, req>>

Init ==
    /\ users = {Founder}
    /\ identities = [s \in Subjects |-> None]
    /\ sessions = << >>
    /\ nonces = [n \in Nonces |-> "none"]
    /\ receipts = {}
    /\ claimOpen = ClaimFirst
    /\ minted = {}
    /\ clock = 0
    /\ req = [r \in Requests |-> None]

SignIn(r) ==
    \/ \E s \in Subjects, n \in Nonces : Consume(r, s, n, "consumed")
    \/ SignInReads(r) \/ SignUp(r)
    \/ \E sent \in Exchanges : SignInAgain(r, sent)

Claim(r) ==
    \/ claimOpen /\ \E s \in Subjects, n \in Nonces : Consume(r, s, n, "claim")
    \/ ClaimLocksFounder(r) \/ ClaimLocksIdentities(r) \/ ClaimCommits(r)

Refresh(r) ==
    \/ \E i \in DOMAIN sessions : RefreshLocks(r, i)
    \/ RefreshRotates(r) \/ ReplayReads(r) \/ ReplayRevokes(r)

Logout(r) == LogoutRevokes(r) \/ \E i \in DOMAIN sessions : LogoutReads(r, i)

Delete(r) == DeleteLocks(r) \/ DeleteCommits(r) \/ \E i \in DOMAIN sessions : DeleteStarts(r, i)

Notification(r) == EventCommits(r) \/ \E e \in Events : EventLocks(r, e)

Next ==
    \/ \E r \in Requests :
          SignIn(r) \/ Claim(r) \/ Refresh(r) \/ Logout(r) \/ Delete(r) \/ Notification(r) \/ RollBack(r)
    \/ \E n \in Nonces : IssueNonce(n)
    \/ CloseClaim \/ Tick
    \/ \E i \in DOMAIN sessions : Age(i)

Spec == Init /\ [][Next]_vars

-----------------------------------------------------------------------------
(***************************************************************************)
(* Properties                                                              *)
(***************************************************************************)
\* The type invariant of the rows and of what the requests hold.
TypeOK ==
    /\ users \subseteq Accounts
    /\ identities \in [Subjects -> Authorizations \cup {None}]
    /\ sessions \in Seq(SessionRows)
    /\ \A i \in DOMAIN sessions : sessions[i].family \in 1..i
    /\ nonces \in [Nonces -> {"none", "fresh", "used"}]
    /\ receipts \subseteq {e.jti : e \in Events}
    /\ claimOpen \in BOOLEAN /\ minted \subseteq NewUsers /\ clock \in 0..MaxClock
    /\ req \in [Requests -> Holdings \cup {None}]

\* However refreshes, their retries and sign-ins interleave, a token family has at
\* most one session that can be used (rotate_refresh_token).
OneLiveSessionPerFamily ==
    \A i, j \in DOMAIN sessions :
        Usable(i) /\ Usable(j) /\ sessions[i].family = sessions[j].family => i = j

\* A nonce signs in once, also when a sign-in that used it is retried while it runs
\* (_consume_nonce).
NonceSignsInOnce ==
    \A i, j \in DOMAIN sessions :
        sessions[i].nonce = sessions[j].nonce /\ sessions[i].nonce # None => i = j

\* Two sign-ins of a new subject, or a sign-up beside the founder's claim, never
\* leave an account without its identity or with two (sign_in_with_apple,
\* claim_founder_with_apple).
IdentityIsOneToOne ==
    /\ \A u \in users : Cardinality(IdentityOf(u)) <= 1
    /\ \A u \in users \ {Founder} : IdentityOf(u) # {}

\* While a rotated refresh token is within its time its row is there, so that its
\* reuse is seen and not taken for an unknown token (cleanup_auth_rows).
ReplayIsDetectable ==
    \A i \in DOMAIN sessions :
        ~sessions[i].row /\ sessions[i].user \in users => sessions[i].age = "expired"

\* Whatever was signing in, refreshing or being notified, a deleted account leaves
\* no identity and no session (delete_account).
DeletedLeavesNothing ==
    /\ \A s \in Subjects : identities[s] # None => identities[s].user \in users
    /\ \A i \in DOMAIN sessions : sessions[i].row => sessions[i].user \in users

\* Credentials: one usable session per token family, one sign-in per nonce, and
\* reuse of a rotated token is seen.
TokensAreSingle == OneLiveSessionPerFamily /\ NonceSignsInOnce /\ ReplayIsDetectable

\* An account is there with its identity, or gone with everything.
AccountsAreWhole == IdentityIsOneToOne /\ DeletedLeavesNothing

\* A notification that was overtaken by a newer authorization ends no session, also
\* when the two were under way together (apple_notifications).
StaleRevocationIgnored ==
    [][\A e \in Events :
          e.jti \in receipts' \ receipts /\ sessions' # sessions =>
              e.at >= identities[e.subject].at]_vars
=============================================================================
