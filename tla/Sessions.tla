------------------------------ MODULE Sessions ------------------------------
(***************************************************************************)
(* Sign-in sessions: the refresh tokens of internal/auth and the password  *)
(* lockout of internal/platform/ratelimit/lockout.go.                      *)
(*                                                                         *)
(* A sign-in starts a login, which lives on through a chain of refresh     *)
(* tokens: each refresh revokes the presented token and inserts the next.  *)
(* The statements of a request are separate steps, in no transaction.      *)
(* Rows are never deleted, so a login is named by its first token.         *)
(*                                                                         *)
(* Whether a presented password is right is the caller's choice.  Checking *)
(* a one-time code (VerifyOTP before loginByPhone) is not modelled, and    *)
(* neither are access tokens, which nothing revokes.                       *)
(***************************************************************************)
EXTENDS Naturals, Sequences, FiniteSets

CONSTANTS
    Users,         \* accounts; an account's user name is its lockout key
    Tokens,        \* refresh token ids; bounds the tokens ever issued
    Reqs,          \* concurrently running requests
    NoToken,       \* a token that has not been issued
    NoEntry,       \* a user name without a lockout entry
    MaxFailures,   \* NewLockout(maxFailures, duration)
    LockDuration,
    MaxEntries,    \* the lockout map is swept when it holds more (10000)
    MaxClock,      \* bound on time
    MaxFails       \* bound on the failures between two successes

ASSUME LockoutAssumption ==
    /\ MaxFailures \in Nat \ {0} /\ LockDuration \in Nat \ {0}
    /\ MaxEntries \in Nat /\ MaxClock \in Nat /\ MaxFails \in Nat

ASSUME AbsentAssumption == NoToken \notin [user : Users, login : Tokens,
                                           revoked : BOOLEAN, expired : BOOLEAN]
ASSUME NoEntryAssumption == NoEntry \notin [failures : Nat, lastFailure : Nat,
                                            lockedUntil : Nat]

VARIABLES
    token,    \* table refresh_tokens, with the login each token continues
    entries,  \* Lockout.entries
    clock,
    pc,       \* where each request stands
    job,      \* what each request is doing
    ended,    \* logins whose live token a logout or a password change revoked
    fails     \* times of the failures of each user name since its last success

vars == <<token, entries, clock, pc, job, ended, fails>>

TokenRow == [user : Users, login : Tokens, revoked : BOOLEAN, expired : BOOLEAN]

Idle == [kind |-> "none"]

Job ==
         [kind : {"login", "change", "reset", "everywhere"}, user : Users]
    \cup [kind : {"refresh", "logout"}, user : Users, token : Tokens]

Live(t) == token[t] # NoToken /\ ~token[t].revoked

(* FindActiveRefreshTokenByHash finds the row. *)
FindActive(t) == Live(t) /\ ~token[t].expired

Revoked(S) ==
    [t \in Tokens |-> IF t \in S THEN [token[t] EXCEPT !.revoked = TRUE] ELSE token[t]]

LoginsOf(S) == {token[t].login : t \in S}

Init ==
    /\ token = [t \in Tokens |-> NoToken]
    /\ entries = [u \in Users |-> NoEntry]
    /\ clock = 0
    /\ pc = [r \in Reqs |-> "idle"]
    /\ job = [r \in Reqs |-> Idle]
    /\ ended = {}
    /\ fails = [u \in Users |-> <<>>]

Begin(r, j, step) ==
    /\ pc[r] = "idle"
    /\ job' = [job EXCEPT ![r] = j]
    /\ pc' = [pc EXCEPT ![r] = step]

Finish(r) ==
    /\ job' = [job EXCEPT ![r] = Idle]
    /\ pc' = [pc EXCEPT ![r] = "idle"]

-----------------------------------------------------------------------------
(* The lockout.  Each method runs under the map's mutex: one step. *)

Locked(u) == entries[u] # NoEntry /\ clock < entries[u].lockedUntil

(* An entry that neither locks nor counts any more. *)
MutStaleWhenUnlocked(e) == clock >= e.lockedUntil

Stale(e) == clock >= e.lockedUntil /\ clock - e.lastFailure >= LockDuration

Present == {u \in Users : entries[u] # NoEntry}

Swept ==
    IF Cardinality(Present) > MaxEntries
    THEN [u \in Users |-> IF u \in Present /\ Stale(entries[u]) THEN NoEntry ELSE entries[u]]
    ELSE entries

FailedEntry(u) ==
    LET fresh    == Swept[u] = NoEntry \/ Stale(Swept[u])
        failures == (IF fresh THEN 0 ELSE entries[u].failures) + 1
        until    == IF fresh THEN 0 ELSE entries[u].lockedUntil
    IN  IF failures >= MaxFailures
        THEN [failures |-> 0, lastFailure |-> clock, lockedUntil |-> clock + LockDuration]
        ELSE [failures |-> failures, lastFailure |-> clock, lockedUntil |-> until]

Fail(u) ==
    /\ entries' = [Swept EXCEPT ![u] = FailedEntry(u)]
    /\ fails' = [fails EXCEPT ![u] = Append(@, clock)]

Reset(u) ==
    /\ entries' = [entries EXCEPT ![u] = NoEntry]
    /\ fails' = [fails EXCEPT ![u] = <<>>]

-----------------------------------------------------------------------------
(* Signing in *)

(* LoginWithPassword passes the lockout check; a locked name gets 429. *)
LoginWithPassword(r, u) ==
    /\ ~Locked(u)
    /\ Begin(r, [kind |-> "login", user |-> u], "compare")
    /\ UNCHANGED <<token, entries, clock, ended, fails>>

(* ... and later finds the account and compares the password. *)
RightPassword(r) ==
    /\ pc[r] = "compare"
    /\ Reset(job[r].user)
    /\ pc' = [pc EXCEPT ![r] = "issue"]
    /\ UNCHANGED <<token, clock, job, ended>>

WrongPassword(r) ==
    /\ pc[r] = "compare"
    /\ Len(fails[job[r].user]) < MaxFails
    /\ Fail(job[r].user)
    /\ Finish(r)
    /\ UNCHANGED <<token, clock, ended>>

(* loginByPhone, once the one-time code is accepted. *)
LoginByPhone(r, u) ==
    /\ Begin(r, [kind |-> "login", user |-> u], "issue")
    /\ UNCHANGED <<token, entries, clock, ended, fails>>

(* issueTokenPair: a refresh continues its token's login. *)
IssueTokenPair(r, t) ==
    /\ pc[r] = "issue" /\ token[t] = NoToken
    /\ token' = [token EXCEPT ![t] =
                    [user |-> job[r].user,
                     login |-> IF job[r].kind = "refresh" THEN token[job[r].token].login ELSE t,
                     revoked |-> FALSE, expired |-> FALSE]]
    /\ Finish(r)
    /\ UNCHANGED <<entries, clock, ended, fails>>

-----------------------------------------------------------------------------
(* Refreshing *)

Refresh(r, t) ==
    /\ FindActive(t)
    /\ Begin(r, [kind |-> "refresh", user |-> token[t].user, token |-> t], "rotate")
    /\ UNCHANGED <<token, entries, clock, ended, fails>>

(* RevokeRefreshTokenIfActive: only the request whose UPDATE changed the   *)
(* row goes on to issue the next token.                                    *)
MutRotateAlways(r) ==
    /\ pc[r] = "rotate"
    /\ token' = Revoked({job[r].token})
    /\ pc' = [pc EXCEPT ![r] = "issue"]
    /\ UNCHANGED <<entries, clock, job, ended, fails>>

RevokeRefreshTokenIfActive(r) ==
    /\ pc[r] = "rotate"
    /\ \/ /\ Live(job[r].token)
          /\ token' = Revoked({job[r].token})
          /\ pc' = [pc EXCEPT ![r] = "issue"]
          /\ UNCHANGED job
       \/ ~Live(job[r].token) /\ Finish(r) /\ UNCHANGED token
    /\ UNCHANGED <<entries, clock, ended, fails>>

-----------------------------------------------------------------------------
(* Ending sessions *)

(* Logout with a token of the caller's own; a foreign one is a no-op. *)
Logout(r, t) ==
    /\ FindActive(t)
    /\ Begin(r, [kind |-> "logout", user |-> token[t].user, token |-> t], "revoke")
    /\ UNCHANGED <<token, entries, clock, ended, fails>>

RevokeRefreshToken(r) ==
    LET hit == {t \in {job[r].token} : Live(t)}
    IN  /\ pc[r] = "revoke"
        /\ token' = Revoked(hit)
        /\ ended' = ended \cup LoginsOf(hit)
        /\ Finish(r)
        /\ UNCHANGED <<entries, clock, fails>>

(* Logout without a token, ChangePassword and an administrator's reset of  *)
(* a point's credentials, up to the statement that revokes every token.    *)
EndSessions(r, u, kind) ==
    /\ Begin(r, [kind |-> kind, user |-> u], "revokeall")
    /\ UNCHANGED <<token, entries, clock, ended, fails>>

(* RevokeAllRefreshTokensForUser; a password change then issues a pair.    *)
RevokeAllRefreshTokensForUser(r) ==
    LET hit == {t \in Tokens : Live(t) /\ token[t].user = job[r].user}
    IN  /\ pc[r] = "revokeall"
        /\ token' = Revoked(hit)
        /\ ended' = ended \cup LoginsOf(hit)
        /\ \/ job[r].kind = "change" /\ pc' = [pc EXCEPT ![r] = "issue"] /\ UNCHANGED job
           \/ job[r].kind # "change" /\ Finish(r)
        /\ UNCHANGED <<entries, clock, fails>>

-----------------------------------------------------------------------------
(* A statement fails, or the client goes away: the request ends where it is. *)
Abort(r) ==
    /\ pc[r] # "idle"
    /\ Finish(r)
    /\ UNCHANGED <<token, entries, clock, ended, fails>>

(* expires_at of a token passes. *)
Expire(t) ==
    /\ FindActive(t)
    /\ token' = [token EXCEPT ![t].expired = TRUE]
    /\ UNCHANGED <<entries, clock, pc, job, ended, fails>>

Tick ==
    /\ clock < MaxClock
    /\ clock' = clock + 1
    /\ UNCHANGED <<token, entries, pc, job, ended, fails>>

Arrive(r) ==
    \/ \E u \in Users :
          \/ LoginWithPassword(r, u)
          \/ LoginByPhone(r, u)
          \/ \E kind \in {"change", "reset", "everywhere"} : EndSessions(r, u, kind)
    \/ \E t \in Tokens : Refresh(r, t) \/ Logout(r, t)

Step(r) ==
    \/ RightPassword(r)
    \/ WrongPassword(r)
    \/ \E t \in Tokens : IssueTokenPair(r, t)
    \/ RevokeRefreshTokenIfActive(r)
    \/ RevokeRefreshToken(r)
    \/ RevokeAllRefreshTokensForUser(r)
    \/ Abort(r)

Next ==
    \/ \E r \in Reqs : Arrive(r) \/ Step(r)
    \/ \E t \in Tokens : Expire(t)
    \/ Tick

Spec == Init /\ [][Next]_vars

-----------------------------------------------------------------------------
(* Properties *)

(* Every variable stays within its type; a request that works on a token   *)
(* works on an issued one.                                                 *)
TypeOK ==
    /\ token \in [Tokens -> TokenRow \cup {NoToken}]
    /\ entries \in [Users -> [failures : Nat, lastFailure : Nat, lockedUntil : Nat]
                             \cup {NoEntry}]
    /\ clock \in Nat
    /\ pc \in [Reqs -> {"idle", "compare", "issue", "rotate", "revoke", "revokeall"}]
    /\ job \in [Reqs -> Job \cup {Idle}]
    /\ \A r \in Reqs : pc[r] = "idle" <=> job[r] = Idle
    /\ \A r \in Reqs : job[r].kind \in {"refresh", "logout"} => token[job[r].token] # NoToken
    /\ ended \subseteq Tokens
    /\ fails \in [Users -> Seq(Nat)]

(* A refresh that has revoked its token and has yet to insert the next.    *)
Continues(r, l) ==
    pc[r] = "issue" /\ job[r].kind = "refresh" /\ token[job[r].token].login = l

(* At any time at most one token of a login can be used or is about to be  *)
(* issued, however many requests refresh, log out or change the password   *)
(* at once: rotation never forks a session ("of two concurrent rotations   *)
(* of the same token exactly one gets true", RevokeRefreshTokenIfActive).  *)
OneTokenPerLogin ==
    /\ \A t1, t2 \in Tokens :
          Live(t1) /\ Live(t2) /\ token[t1].login = token[t2].login => t1 = t2
    /\ \A r \in Reqs, t \in Tokens : Live(t) => ~Continues(r, token[t].login)
    /\ \A r1, r2 \in Reqs, l \in Tokens :
          Continues(r1, l) /\ Continues(r2, l) => r1 = r2

(* A login whose live token was revoked by Logout, ChangePassword or a     *)
(* reset of credentials is over: no refresh that is under way or comes     *)
(* later gives it a usable token again.                                    *)
EndedLoginsStayEnded ==
    \A l \in ended :
        /\ \A t \in Tokens : Live(t) => token[t].login # l
        /\ \A r \in Reqs : ~Continues(r, l)

(* A token that still gives its login another: one that has expired does   *)
(* so only for a refresh that found it active in time.                     *)
Usable(t) ==
    /\ Live(t)
    /\ token[t].expired => \E r \in Reqs : pc[r] = "rotate" /\ job[r].token = t

Started(l) == \E t \in Tokens : token[t] # NoToken /\ token[t].login = l

Open(l) ==
    \/ \E t \in Tokens : Usable(t) /\ token[t].login = l
    \/ \E r \in Reqs : Continues(r, l)

LoginState ==
    [l \in Tokens |-> IF ~Started(l) THEN "none" ELSE IF Open(l) THEN "open" ELSE "over"]

Login == INSTANCE Logins WITH Names <- Tokens, state <- LoginState

(* Seen from outside, sessions behave as Logins says: rotating tokens,     *)
(* however many requests do it at once and fail on the way, neither ends a *)
(* login that goes on nor reopens one that is over (Refresh, Logout,       *)
(* ChangePassword; token statements in no transaction).                    *)
LoginsSpec == Login!Spec

(* The failure at position i of h is the last of a multiple of MaxFailures *)
(* failures in a row, none LockDuration or more after the one before it.   *)
RunStart(h, i) ==
    CHOOSE s \in 1 .. i :
        /\ s = 1 \/ h[s] - h[s - 1] >= LockDuration
        /\ \A k \in s + 1 .. i : h[k] - h[k - 1] < LockDuration

CompletesRun(h, i) == (i - RunStart(h, i) + 1) % MaxFailures = 0

(* A user name is locked exactly when, within the last LockDuration, it    *)
(* completed a run of MaxFailures failures with no success and no long gap *)
(* between them, although the entry keeps only a counter and two times,    *)
(* logins overlap, and the map is swept when it is full.  A gap of exactly *)
(* LockDuration is long: Fail starts anew from there on (lockout.go:74),   *)
(* where NewLockout's comment asks for a longer one.                       *)
LockedIffEarned ==
    \A u \in Users :
        Locked(u) <=> \E i \in DOMAIN fails[u] :
                          clock < fails[u][i] + LockDuration /\ CompletesRun(fails[u], i)
=============================================================================
