---------------------------- MODULE SessionsProof ----------------------------
(***************************************************************************)
(* Rotation never forks a session, an ended session stays ended, sessions  *)
(* implement Logins, and a name is locked exactly when its failures earned *)
(* it, for any number of accounts, tokens and concurrent requests.         *)
(***************************************************************************)
EXTENDS Sessions, TLAPS

(* What a request is doing where it stands. *)
JobsOK ==
    \A r \in Reqs :
        /\ pc[r] = "compare" => job[r].kind = "login"
        /\ pc[r] = "rotate" => job[r].kind = "refresh"
        /\ pc[r] = "revoke" => job[r].kind = "logout"
        /\ pc[r] = "revokeall" => job[r].kind \in {"change", "reset", "everywhere"}
        /\ pc[r] = "issue" => job[r].kind \in {"login", "refresh", "change"}

(* The first token of a login exists, so that a new login is a new name.   *)
LoginsIssued ==
    /\ \A t \in Tokens : token[t] # NoToken => token[token[t].login] # NoToken
    /\ \A l \in ended : token[l] # NoToken

IInv == TypeOK /\ JobsOK /\ LoginsIssued /\ OneTokenPerLogin /\ EndedLoginsStayEnded

(* A row of the table has all its fields. *)
LEMMA RowShape ==
    ASSUME NEW q \in TokenRow \cup {NoToken}, q # NoToken
    PROVE  /\ q \in TokenRow /\ q.user \in Users /\ q.login \in Tokens
           /\ q.revoked \in BOOLEAN /\ q.expired \in BOOLEAN
  BY DEF TokenRow

(* A request that works on a token names an issued one. *)
LEMMA JobShape ==
    ASSUME TypeOK, NEW s \in Reqs, job[s].kind \in {"refresh", "logout"}
    PROVE  job[s].token \in Tokens /\ token[job[s].token] # NoToken
  BY SMTT(30) DEF TypeOK, Job, Idle

(* Nothing has been issued at the start. *)
LEMMA InitIInv == Init => IInv
<1> SUFFICES ASSUME Init PROVE IInv
  OBVIOUS
<1>1. TypeOK
  BY DEF Init, TypeOK, Idle
<1>2. JobsOK /\ LoginsIssued /\ OneTokenPerLogin /\ EndedLoginsStayEnded
  BY DEF Init, JobsOK, LoginsIssued, OneTokenPerLogin, EndedLoginsStayEnded, Live, Continues
<1>. QED
  BY <1>1, <1>2 DEF IInv

(* Revoking rows keeps the table a table and changes nothing but revoked.  *)
LEMMA RevokedShape ==
    ASSUME token \in [Tokens -> TokenRow \cup {NoToken}],
           NEW S \in SUBSET Tokens, \A t \in S : token[t] # NoToken
    PROVE  /\ Revoked(S) \in [Tokens -> TokenRow \cup {NoToken}]
           /\ \A t \in Tokens : Revoked(S)[t] = NoToken <=> token[t] = NoToken
           /\ \A t \in Tokens : token[t] # NoToken =>
                 /\ Revoked(S)[t].login = token[t].login
                 /\ Revoked(S)[t].user = token[t].user
           /\ \A t \in S : Revoked(S)[t].revoked
           /\ \A t \in Tokens \ S : Revoked(S)[t] = token[t]
  BY AbsentAssumption DEF Revoked, TokenRow

(* A lockout entry keeps its type. *)
LEMMA FailShape ==
    ASSUME TypeOK, NEW u \in Users, Fail(u)
    PROVE  /\ entries' \in [Users -> [failures : Nat, lastFailure : Nat, lockedUntil : Nat]
                                     \cup {NoEntry}]
           /\ fails' \in [Users -> Seq(Nat)]
<1> DEFINE E == [failures : Nat, lastFailure : Nat, lockedUntil : Nat]
<1>1. Swept \in [Users -> E \cup {NoEntry}]
  BY DEF TypeOK, Swept
<1>2. Swept[u] = NoEntry \/ Swept[u] = entries[u]
  BY DEF Swept, TypeOK
<1>3. FailedEntry(u) \in E
  <2>1. CASE Swept[u] = NoEntry \/ Stale(Swept[u])
    BY <2>1, LockoutAssumption DEF FailedEntry, TypeOK
  <2>2. CASE ~(Swept[u] = NoEntry \/ Stale(Swept[u]))
    <3>1. entries[u] = NoEntry => Swept[u] = NoEntry
      BY DEF Swept, Present, TypeOK
    <3>2. entries[u] \in E
      BY <3>1, <2>2 DEF TypeOK
    <3>3. entries[u].failures \in Nat /\ entries[u].lockedUntil \in Nat
      BY <3>2
    <3>. QED
      BY <2>2, <3>3, LockoutAssumption DEF FailedEntry, TypeOK
  <2>. QED
    BY <2>1, <2>2
<1>4. fails' \in [Users -> Seq(Nat)]
  BY DEF Fail, TypeOK
<1>. QED
  BY <1>1, <1>3, <1>4 DEF Fail

(* A step that leaves the table and the ended logins alone and starts no   *)
(* continuation of a login keeps what is said of logins.                   *)
LEMMA QuietStep ==
    ASSUME IInv, UNCHANGED <<token, ended>>,
           \A r \in Reqs, l \in Tokens : Continues(r, l)' => Continues(r, l)
    PROVE  LoginsIssued' /\ OneTokenPerLogin' /\ EndedLoginsStayEnded'
<1> USE DEF IInv
<1>1. LoginsIssued'
  BY DEF LoginsIssued
<1>2. \A t \in Tokens : Live(t)' = Live(t)
  BY DEF Live
<1>3. OneTokenPerLogin'
  <2>1. \A t \in Tokens : Live(t) => token[t].login \in Tokens
    BY RowShape DEF Live, TypeOK
  <2>. QED
    BY <1>2, <2>1 DEF OneTokenPerLogin
<1>4. EndedLoginsStayEnded'
  BY <1>2 DEF EndedLoginsStayEnded, TypeOK
<1>. QED
  BY <1>1, <1>3, <1>4

(* A request that begins, fails or ends continues no login. *)
LEMMA BeginStep ==
    ASSUME IInv, NEW r \in Reqs, UNCHANGED <<token, ended>>,
           NEW j \in Job, NEW step \in {"compare", "issue", "rotate", "revoke", "revokeall"},
           Begin(r, j, step), step = "issue" => j.kind # "refresh",
           j.kind \in {"refresh", "logout"} => token[j.token] # NoToken,
           UNCHANGED <<entries, clock, fails>>,
           /\ step = "compare" => j.kind = "login"
           /\ step = "rotate" => j.kind = "refresh"
           /\ step = "revoke" => j.kind = "logout"
           /\ step = "revokeall" => j.kind \in {"change", "reset", "everywhere"}
           /\ step = "issue" => j.kind \in {"login", "change"}
    PROVE  IInv'
<1>1. j # Idle
  BY DEF Job, Idle
<1>2. TypeOK'
  BY <1>1 DEF IInv, TypeOK, Begin
<1>3. JobsOK'
  BY DEF IInv, JobsOK, Begin, TypeOK
<1>4. \A s \in Reqs, l \in Tokens : Continues(s, l)' => Continues(s, l)
  BY DEF IInv, TypeOK, Begin, Continues
<1>. QED
  BY <1>2, <1>3, <1>4, QuietStep DEF IInv

LEMMA FinishStep ==
    ASSUME IInv, NEW r \in Reqs, Finish(r), UNCHANGED <<token, ended>>,
           entries' \in [Users -> [failures : Nat, lastFailure : Nat, lockedUntil : Nat]
                                     \cup {NoEntry}],
           clock' = clock, fails' \in [Users -> Seq(Nat)]
    PROVE  IInv'
<1>1. TypeOK'
  BY DEF IInv, TypeOK, Finish, Idle
<1>2. JobsOK'
  BY DEF IInv, JobsOK, Finish, Idle, TypeOK
<1>3. \A s \in Reqs, l \in Tokens : Continues(s, l)' => Continues(s, l)
  BY DEF IInv, TypeOK, Finish, Continues
<1>. QED
  BY <1>1, <1>2, <1>3, QuietStep DEF IInv

(* The next token of a login whose last one is revoked, or the first token *)
(* of a login nobody has heard of.                                         *)
LEMMA IssueStep ==
    ASSUME IInv, NEW r \in Reqs, NEW t \in Tokens, IssueTokenPair(r, t)
    PROVE  IInv'
<1> DEFINE l == IF job[r].kind = "refresh" THEN token[job[r].token].login ELSE t
           row == [user |-> job[r].user, login |-> l, revoked |-> FALSE, expired |-> FALSE]
<1> USE DEF IInv
<1>1. job[r] \in Job /\ job[r].user \in Users
  BY DEF IssueTokenPair, TypeOK, Job, Idle
<1>2. job[r].kind = "refresh" => job[r].token \in Tokens /\ token[job[r].token] # NoToken
  BY <1>1 DEF TypeOK, Job
<1>3. l \in Tokens
  BY <1>2, RowShape DEF TypeOK
<1>4. row \in TokenRow /\ row # NoToken
  <2> HIDE DEF l
  <2>1. row \in TokenRow
    BY <1>1, <1>3 DEF TokenRow
  <2>2. NoToken \notin TokenRow
    BY AbsentAssumption DEF TokenRow
  <2>. QED
    BY <2>1, <2>2
<1>5. token' = [token EXCEPT ![t] = row] /\ token[t] = NoToken
  BY DEF IssueTokenPair
<1>6. \A s \in Tokens : token[s] # NoToken => s # t /\ token'[s] = token[s]
  BY <1>5 DEF TypeOK
<1>7. TypeOK'
  <2>1. token' \in [Tokens -> TokenRow \cup {NoToken}]
    BY <1>4, <1>5 DEF TypeOK
  <2>2. \A s \in Reqs : job'[s].kind \in {"refresh", "logout"} => token'[job'[s].token] # NoToken
    BY <1>4, <1>5, <1>6 DEF TypeOK, IssueTokenPair, Finish, Idle, Job
  <2>. QED
    BY <2>1, <2>2 DEF TypeOK, IssueTokenPair, Finish, Idle
<1>8. JobsOK'
  BY DEF JobsOK, IssueTokenPair, Finish, Idle, TypeOK
<1>9. LoginsIssued'
  <2>1. token[l] # NoToken \/ l = t
    BY <1>2 DEF LoginsIssued
  <2>2. \A s \in Tokens : token'[s] # NoToken => token'[token'[s].login] # NoToken
    <3>1. ASSUME NEW s \in Tokens, token'[s] # NoToken, s # t PROVE token'[token'[s].login] # NoToken
      BY <3>1, <1>5, <1>6, RowShape DEF LoginsIssued, TypeOK
    <3>2. token'[t] = row /\ token'[l] # NoToken
      BY <1>3, <1>4, <1>5, <1>6, <2>1 DEF TypeOK
    <3>. QED
      BY <3>1, <3>2
  <2>. QED
    BY <2>2, <1>6 DEF LoginsIssued, IssueTokenPair, TypeOK
<1>10. \A s \in Reqs, k \in Tokens : Continues(s, k)' => s # r /\ Continues(s, k)
  BY <1>6 DEF Continues, IssueTokenPair, Finish, TypeOK, JobsOK, Job, Idle
<1>11. \A s \in Tokens : Live(s)' => s = t \/ (s # t /\ Live(s) /\ token'[s] = token[s])
  BY <1>5 DEF Live, TypeOK
<1>12. token'[t].login = l
  BY <1>5 DEF TypeOK
(* No live token and no other request has the login of the new token.      *)
<1>13. \A s \in Tokens : Live(s) => token[s].login # l
  <2>1. CASE job[r].kind = "refresh"
    BY <2>1 DEF OneTokenPerLogin, Continues, IssueTokenPair
  <2>2. CASE job[r].kind # "refresh"
    BY <2>2, <1>5 DEF LoginsIssued, Live
  <2>. QED
    BY <2>1, <2>2
<1>14. \A s \in Reqs : Continues(s, l) => s = r
  <2>1. CASE job[r].kind = "refresh"
    BY <2>1, <1>3 DEF OneTokenPerLogin, Continues, IssueTokenPair
  <2>2. CASE job[r].kind # "refresh"
    <3>1. \A s \in Reqs : Continues(s, l) => token[l] # NoToken
      BY DEF Continues, LoginsIssued, TypeOK, Job, Idle
    <3>. QED
      BY <3>1, <2>2, <1>5
  <2>. QED
    BY <2>1, <2>2
<1>15. l \notin ended
  <2>1. CASE job[r].kind = "refresh"
    BY <2>1 DEF EndedLoginsStayEnded, Continues, IssueTokenPair
  <2>2. CASE job[r].kind # "refresh"
    BY <2>2, <1>5 DEF LoginsIssued
  <2>. QED
    BY <2>1, <2>2
<1>16. OneTokenPerLogin'
  <2>1. \A t1, t2 \in Tokens :
           Live(t1)' /\ Live(t2)' /\ token'[t1].login = token'[t2].login => t1 = t2
    BY <1>11, <1>12, <1>13 DEF OneTokenPerLogin
  <2>2. \A s \in Reqs, t1 \in Tokens : Live(t1)' => ~Continues(s, token[t1].login)'
    <3>1. \A t1 \in Tokens : Live(t1)' => token'[t1].login \in Tokens
      BY <1>7, RowShape DEF Live, TypeOK
    <3>. QED
      BY <3>1, <1>10, <1>11, <1>12, <1>14 DEF OneTokenPerLogin
  <2>3. \A r1, r2 \in Reqs, k \in Tokens : Continues(r1, k)' /\ Continues(r2, k)' => r1 = r2
    BY <1>10 DEF OneTokenPerLogin
  <2>. QED
    BY <2>1, <2>2, <2>3 DEF OneTokenPerLogin
<1>17. EndedLoginsStayEnded'
  BY <1>10, <1>11, <1>12, <1>15 DEF EndedLoginsStayEnded, IssueTokenPair, TypeOK
<1>. QED
  BY <1>7, <1>8, <1>9, <1>16, <1>17

(* Revoking live tokens, with the requests' progress left to the caller of *)
(* the lemma: rot is the request that goes on to continue the login.       *)
LEMMA RevokeStep ==
    ASSUME IInv, NEW hit \in SUBSET Tokens, \A t \in hit : Live(t),
           token' = Revoked(hit)
    PROVE  /\ token' \in [Tokens -> TokenRow \cup {NoToken}]
           /\ \A t \in Tokens : token'[t] = NoToken <=> token[t] = NoToken
           /\ \A t \in Tokens : token[t] # NoToken => token'[t].login = token[t].login
           /\ \A t \in Tokens : Live(t)' <=> Live(t) /\ t \notin hit
           /\ \A t \in Tokens : token'[t] # NoToken => token'[token'[t].login] # NoToken
<1> USE DEF IInv
<1>1. \A t \in hit : token[t] # NoToken
  BY DEF Live
<1>2. token \in [Tokens -> TokenRow \cup {NoToken}]
  BY DEF TypeOK
<1>3. /\ token' \in [Tokens -> TokenRow \cup {NoToken}]
      /\ \A t \in Tokens : token'[t] = NoToken <=> token[t] = NoToken
      /\ \A t \in Tokens : token[t] # NoToken => token'[t].login = token[t].login
      /\ \A t \in hit : token'[t].revoked
      /\ \A t \in Tokens \ hit : token'[t] = token[t]
  BY <1>1, <1>2, RevokedShape
<1>4. \A t \in Tokens : Live(t)' <=> Live(t) /\ t \notin hit
  BY <1>3 DEF Live
<1>5. \A t \in Tokens : token'[t] # NoToken => token'[token'[t].login] # NoToken
  BY <1>2, <1>3, RowShape DEF LoginsIssued
<1>. QED
  BY <1>3, <1>4, <1>5

(* A refresh revokes its token and becomes the one that continues it.      *)
LEMMA RotateStep ==
    ASSUME IInv, NEW r \in Reqs, RevokeRefreshTokenIfActive(r)
    PROVE  IInv'
<1> USE DEF IInv
<1>1. CASE ~Live(job[r].token) /\ Finish(r) /\ UNCHANGED token
  BY <1>1, FinishStep DEF RevokeRefreshTokenIfActive, TypeOK
<1>2. CASE /\ Live(job[r].token)
           /\ token' = Revoked({job[r].token})
           /\ pc' = [pc EXCEPT ![r] = "issue"]
           /\ UNCHANGED job
  <2> DEFINE o == job[r].token
  <2> USE <1>2
  <2>0. pc[r] = "rotate" /\ UNCHANGED <<entries, clock, ended, fails>>
    BY DEF RevokeRefreshTokenIfActive
  <2>1. job[r].kind = "refresh" /\ o \in Tokens /\ token[o] # NoToken
    BY <2>0 DEF JobsOK, TypeOK, Job, Idle
  <2>2. /\ token' \in [Tokens -> TokenRow \cup {NoToken}]
        /\ \A t \in Tokens : token'[t] = NoToken <=> token[t] = NoToken
        /\ \A t \in Tokens : token[t] # NoToken => token'[t].login = token[t].login
        /\ \A t \in Tokens : Live(t)' <=> Live(t) /\ t # o
        /\ \A t \in Tokens : token'[t] # NoToken => token'[token'[t].login] # NoToken
    <3> HIDE DEF o
    <3>1. {o} \in SUBSET Tokens /\ (\A t \in {o} : Live(t)) /\ token' = Revoked({o})
      BY <2>1 DEF o
    <3>2. \A t \in Tokens : t \notin {o} <=> t # o
      OBVIOUS
    <3> HIDE DEF IInv
    <3>. QED
      BY <3>1, <3>2, RevokeStep
  <2>3. TypeOK'
    <3>1. \A s \in Reqs : job'[s].kind \in {"refresh", "logout"} => token'[job'[s].token] # NoToken
      BY <2>2, JobShape
    <3>2. pc' \in [Reqs -> {"idle", "compare", "issue", "rotate", "revoke", "revokeall"}]
      BY DEF TypeOK
    <3>3. \A s \in Reqs : pc'[s] = "idle" <=> job'[s] = Idle
      BY <2>0 DEF TypeOK
    <3>. QED
      BY <2>0, <2>2, <3>1, <3>2, <3>3 DEF TypeOK
  <2>4. JobsOK'
    BY <2>0, <2>1 DEF JobsOK, TypeOK
  <2>5. LoginsIssued'
    BY <2>0, <2>2 DEF LoginsIssued, TypeOK
  <2>6. \A s \in Reqs, k \in Tokens :
           Continues(s, k)' => Continues(s, k) \/ (s = r /\ k = token[o].login)
    BY <2>0, <2>1, <2>2 DEF Continues, TypeOK, Job, Idle
  <2>7. \A t \in Tokens : Live(t) => token[t].login \in Tokens
    BY RowShape DEF Live, TypeOK
  <2>l. \A t \in Tokens : Live(t)' => Live(t) /\ t # o /\ token'[t].login = token[t].login
    <3>1. \A t \in Tokens : Live(t) => token[t] # NoToken
      BY DEF Live
    <3>. QED
      BY <3>1, <2>2
  <2>8. OneTokenPerLogin'
    <3>1. \A t1, t2 \in Tokens :
             Live(t1)' /\ Live(t2)' /\ token'[t1].login = token'[t2].login => t1 = t2
      BY <2>l DEF OneTokenPerLogin
    <3>2. \A s \in Reqs, t \in Tokens : Live(t)' => ~Continues(s, token[t].login)'
      <4>1. \A t \in Tokens : Live(t)' => token'[t].login = token[t].login /\ token[t].login # token[o].login
        BY <2>1, <2>l DEF OneTokenPerLogin
      <4>. QED
        BY ZenonT(30), <4>1, <2>2, <2>6, <2>7 DEF OneTokenPerLogin
    <3>3. \A r1, r2 \in Reqs, k \in Tokens : Continues(r1, k)' /\ Continues(r2, k)' => r1 = r2
      BY <2>1, <2>6 DEF OneTokenPerLogin
    <3>. QED
      BY <3>1, <3>2, <3>3 DEF OneTokenPerLogin
  <2>9. EndedLoginsStayEnded'
    <3>1. \A k \in ended : k \in Tokens /\ k # token[o].login
      BY <2>1 DEF EndedLoginsStayEnded, TypeOK
    <3>. QED
      BY <3>1, <2>0, <2>l, <2>6 DEF EndedLoginsStayEnded
  <2>. QED
    BY <2>3, <2>4, <2>5, <2>8, <2>9
<1>. QED
  BY <1>1, <1>2 DEF RevokeRefreshTokenIfActive

(* A logout or a password change ends the logins of the tokens it revokes. *)
LEMMA EndStep ==
    ASSUME IInv, NEW r \in Reqs, NEW hit \in SUBSET Tokens, \A t \in hit : Live(t),
           token' = Revoked(hit), ended' = ended \cup LoginsOf(hit),
           UNCHANGED <<entries, clock, fails>>,
           \/ Finish(r)
           \/ /\ job[r].kind = "change" /\ pc[r] # "idle"
              /\ pc' = [pc EXCEPT ![r] = "issue"] /\ UNCHANGED job
    PROVE  IInv'
<1> USE DEF IInv
<1>1. /\ token' \in [Tokens -> TokenRow \cup {NoToken}]
      /\ \A t \in Tokens : token'[t] = NoToken <=> token[t] = NoToken
      /\ \A t \in Tokens : token[t] # NoToken => token'[t].login = token[t].login
      /\ \A t \in Tokens : Live(t)' <=> Live(t) /\ t \notin hit
      /\ \A t \in Tokens : token'[t] # NoToken => token'[token'[t].login] # NoToken
  BY RevokeStep
<1>2. \A t \in Tokens : Live(t) => token[t] # NoToken /\ token[t].login \in Tokens
  BY RowShape DEF Live, TypeOK
<1>3. \A l \in LoginsOf(hit) : \E t \in hit : Live(t) /\ l = token[t].login
  BY DEF LoginsOf
<1>4. \A s \in Reqs : (pc'[s] = pc[s] /\ job'[s] = job[s])
                     \/ (pc'[s] = "idle" /\ job'[s] = Idle)
                     \/ (pc'[s] = "issue" /\ job'[s] = job[s] /\ job[s].kind = "change" /\ pc[s] # "idle")
  BY DEF Finish, TypeOK
<1>5. TypeOK'
  <2>1. ended' \subseteq Tokens
    BY <1>2, <1>3 DEF TypeOK
  <2>2. \A s \in Reqs : job'[s].kind \in {"refresh", "logout"} => token'[job'[s].token] # NoToken
    BY <1>1, <1>4, JobShape DEF Idle
  <2>3. pc' \in [Reqs -> {"idle", "compare", "issue", "rotate", "revoke", "revokeall"}]
    BY DEF Finish, TypeOK
  <2>4. job' \in [Reqs -> Job \cup {Idle}]
    BY DEF Finish, TypeOK
  <2>5. \A s \in Reqs : pc'[s] = "idle" <=> job'[s] = Idle
    BY <1>4 DEF TypeOK
  <2>. QED
    BY <1>1, <2>1, <2>2, <2>3, <2>4, <2>5 DEF TypeOK
<1>6. JobsOK'
  BY <1>4 DEF JobsOK, Idle
<1>7. LoginsIssued'
  <2>1. \A l \in ended' : l \in Tokens /\ token[l] # NoToken
    BY <1>2, <1>3 DEF LoginsIssued, TypeOK
  <2>. QED
    BY <1>1, <2>1 DEF LoginsIssued
<1>8. \A s \in Reqs, k \in Tokens : Continues(s, k)' => Continues(s, k)
  <2>1. \A s \in Reqs : job[s].kind = "refresh" => job[s].token \in Tokens /\ token[job[s].token] # NoToken
    BY JobShape
  <2>. QED
    BY <2>1, <1>1, <1>4 DEF Continues, Idle
<1>9. \A t \in Tokens : Live(t)' => Live(t) /\ t \notin hit /\ token'[t].login = token[t].login
  BY <1>1, <1>2
<1>10. OneTokenPerLogin'
  BY <1>2, <1>8, <1>9 DEF OneTokenPerLogin
<1>11. EndedLoginsStayEnded'
  <2>1. ASSUME NEW l \in ended PROVE (\A t \in Tokens : Live(t)' => token'[t].login # l)
                                    /\ (\A s \in Reqs : ~Continues(s, l)')
    BY <1>8, <1>9 DEF EndedLoginsStayEnded, TypeOK
  <2>2. ASSUME NEW l \in LoginsOf(hit) PROVE (\A t \in Tokens : Live(t)' => token'[t].login # l)
                                    /\ (\A s \in Reqs : ~Continues(s, l)')
    <3>1. PICK h \in hit : Live(h) /\ l = token[h].login
      BY <1>3
    <3>. QED
      BY <3>1, <1>2, <1>8, <1>9 DEF OneTokenPerLogin
  <2>. QED
    BY <2>1, <2>2 DEF EndedLoginsStayEnded
<1>. QED
  BY <1>5, <1>6, <1>7, <1>10, <1>11

(* A right password lets a sign-in go on to a login of its own. *)
LEMMA RightStep ==
    ASSUME IInv, NEW r \in Reqs, RightPassword(r)
    PROVE  IInv'
<1> USE DEF IInv
<1>1. job[r].kind = "login" /\ pc[r] = "compare"
  BY DEF RightPassword, JobsOK
<1>2. TypeOK'
  <2>1. entries' \in [Users -> [failures : Nat, lastFailure : Nat, lockedUntil : Nat]
                               \cup {NoEntry}]
    BY DEF RightPassword, Reset, TypeOK
  <2>3. fails' \in [Users -> Seq(Nat)]
    <3>1. <<>> \in Seq(Nat)
      OBVIOUS
    <3>. QED
      BY <3>1 DEF RightPassword, Reset, TypeOK
  <2>2. \A s \in Reqs : pc'[s] = "idle" <=> job'[s] = Idle
    BY <1>1 DEF RightPassword, TypeOK
  <2>. QED
    BY <2>1, <2>2, <2>3 DEF RightPassword, TypeOK
<1>3. JobsOK'
  BY <1>1 DEF RightPassword, JobsOK, TypeOK
<1>4. \A s \in Reqs, l \in Tokens : Continues(s, l)' => Continues(s, l)
  BY <1>1 DEF RightPassword, Continues, TypeOK
<1>. QED
  BY <1>2, <1>3, <1>4, QuietStep DEF RightPassword

(* Expiry leaves a token as live, for what is said here, as it was. *)
LEMMA ExpireStep ==
    ASSUME IInv, NEW t \in Tokens, Expire(t)
    PROVE  IInv'
<1> USE DEF IInv
<1>1. token[t] # NoToken /\ token[t] \in TokenRow
  BY RowShape DEF Expire, FindActive, Live, TypeOK
<1>2. /\ token'[t] \in TokenRow /\ token'[t].login = token[t].login
      /\ token'[t].revoked = token[t].revoked
  BY <1>1 DEF Expire, TypeOK, TokenRow
<1>3. NoToken \notin TokenRow
  BY AbsentAssumption DEF TokenRow
<1>4. \A s \in Tokens : s # t => token'[s] = token[s]
  BY DEF Expire, TypeOK
<1>5. /\ token' \in [Tokens -> TokenRow \cup {NoToken}]
      /\ \A s \in Tokens : token'[s] = NoToken <=> token[s] = NoToken
      /\ \A s \in Tokens : token[s] # NoToken => token'[s].login = token[s].login
  BY <1>1, <1>2, <1>3, <1>4 DEF Expire, TypeOK
<1>6. \A s \in Tokens : Live(s)' => Live(s) /\ token'[s].login = token[s].login
  BY <1>1, <1>2, <1>4 DEF Live
<1>7. TypeOK'
  <2>1. \A s \in Reqs : job'[s].kind \in {"refresh", "logout"} => token'[job'[s].token] # NoToken
    BY <1>5, JobShape DEF Expire
  <2>. QED
    BY <1>5, <2>1 DEF Expire, TypeOK
<1>8. JobsOK'
  BY DEF Expire, JobsOK
<1>9. \A s \in Tokens : token[s] # NoToken => token[s].login \in Tokens
  BY RowShape DEF TypeOK
<1>10. LoginsIssued'
  BY <1>5, <1>9 DEF LoginsIssued, Expire, TypeOK
<1>11. \A s \in Reqs, l \in Tokens : Continues(s, l)' => Continues(s, l)
  <2>1. \A s \in Reqs : job[s].kind = "refresh" => job[s].token \in Tokens /\ token[job[s].token] # NoToken
    BY JobShape
  <2>. QED
    BY <2>1, <1>5 DEF Continues, Expire
<1>12. \A s \in Tokens : Live(s) => token[s].login \in Tokens
  BY <1>9 DEF Live
<1>13. OneTokenPerLogin'
  BY <1>6, <1>11, <1>12 DEF OneTokenPerLogin
<1>14. EndedLoginsStayEnded'
  BY <1>6, <1>11 DEF EndedLoginsStayEnded, Expire, TypeOK
<1>. QED
  BY <1>7, <1>8, <1>10, <1>13, <1>14

(* Every step of the specification keeps the invariant. *)
LEMMA NextIInv == IInv /\ [Next]_vars => IInv'
<1> SUFFICES ASSUME IInv, [Next]_vars PROVE IInv'
  OBVIOUS
<1>t. \A t \in Tokens : FindActive(t) => token[t] # NoToken /\ token[t].user \in Users
  BY RowShape DEF IInv, TypeOK, FindActive, Live
<1>1. ASSUME NEW r \in Reqs, NEW u \in Users, LoginWithPassword(r, u) PROVE IInv'
  BY <1>1, BeginStep DEF LoginWithPassword, Job
<1>2. ASSUME NEW r \in Reqs, NEW u \in Users, LoginByPhone(r, u) PROVE IInv'
  BY <1>2, BeginStep DEF LoginByPhone, Job
<1>3. ASSUME NEW r \in Reqs, NEW u \in Users, NEW kind \in {"change", "reset", "everywhere"},
             EndSessions(r, u, kind)
      PROVE  IInv'
  BY <1>3, BeginStep DEF EndSessions, Job
<1>4. ASSUME NEW r \in Reqs, NEW t \in Tokens, Refresh(r, t) PROVE IInv'
  BY <1>4, <1>t, BeginStep DEF Refresh, Job
<1>5. ASSUME NEW r \in Reqs, NEW t \in Tokens, Logout(r, t) PROVE IInv'
  BY <1>5, <1>t, BeginStep DEF Logout, Job
<1>6. ASSUME NEW r \in Reqs, WrongPassword(r) PROVE IInv'
  <2>1. job[r].user \in Users
    BY <1>6 DEF WrongPassword, IInv, TypeOK, Job, Idle
  <2>. QED
    BY <1>6, <2>1, FailShape, FinishStep DEF WrongPassword, IInv
<1>7. ASSUME NEW r \in Reqs, RevokeRefreshToken(r) PROVE IInv'
  <2>1. job[r].token \in Tokens
    BY <1>7, JobShape DEF RevokeRefreshToken, IInv, JobsOK
  <2> DEFINE hit == {t \in {job[r].token} : Live(t)}
  <2>2. hit \in SUBSET Tokens /\ \A t \in hit : Live(t)
    BY <2>1
  <2>3. /\ token' = Revoked(hit) /\ ended' = ended \cup LoginsOf(hit) /\ Finish(r)
        /\ UNCHANGED <<entries, clock, fails>>
    BY <1>7 DEF RevokeRefreshToken
  <2> HIDE DEF hit
  <2>. QED
    BY <2>2, <2>3, EndStep
<1>8. ASSUME NEW r \in Reqs, RevokeAllRefreshTokensForUser(r) PROVE IInv'
  <2> DEFINE hit == {t \in Tokens : Live(t) /\ token[t].user = job[r].user}
  <2>1. hit \in SUBSET Tokens /\ \A t \in hit : Live(t)
    OBVIOUS
  <2>2. /\ token' = Revoked(hit) /\ ended' = ended \cup LoginsOf(hit)
        /\ UNCHANGED <<entries, clock, fails>>
        /\ \/ Finish(r)
           \/ /\ job[r].kind = "change" /\ pc[r] # "idle"
              /\ pc' = [pc EXCEPT ![r] = "issue"] /\ UNCHANGED job
    BY <1>8 DEF RevokeAllRefreshTokensForUser
  <2> HIDE DEF hit
  <2>. QED
    BY <2>1, <2>2, EndStep
<1>9. ASSUME NEW r \in Reqs, Abort(r) PROVE IInv'
  BY <1>9, FinishStep DEF Abort, IInv, TypeOK
<1>10. CASE Tick
  <2>1. TypeOK' /\ JobsOK'
    BY <1>10 DEF Tick, IInv, TypeOK, JobsOK
  <2>2. \A s \in Reqs, l \in Tokens : Continues(s, l)' => Continues(s, l)
    BY <1>10 DEF Tick, Continues
  <2>. QED
    BY <1>10, <2>1, <2>2, QuietStep DEF Tick, IInv
<1>11. CASE UNCHANGED vars
  <2>1. TypeOK' /\ JobsOK'
    BY <1>11 DEF vars, IInv, TypeOK, JobsOK
  <2>2. \A s \in Reqs, l \in Tokens : Continues(s, l)' => Continues(s, l)
    BY <1>11 DEF vars, Continues
  <2>. QED
    BY <1>11, <2>1, <2>2, QuietStep DEF vars, IInv
<1>. QED
  BY <1>1, <1>2, <1>3, <1>4, <1>5, <1>6, <1>7, <1>8, <1>9, <1>10, <1>11,
     RightStep, IssueStep, RotateStep, ExpireStep
  DEF Next, Arrive, Step

(* The inductive invariant of the sessions holds throughout. *)
THEOREM Invariance == Spec => []IInv
  BY InitIInv, NextIInv, PTL DEF Spec

(* Rotation never forks a session: a login has at most one usable token,   *)
(* or one refresh about to issue it, whatever requests overlap.            *)
THEOREM RotationSafety == Spec => []OneTokenPerLogin
<1>1. IInv => OneTokenPerLogin
  BY DEF IInv
<1>. QED
  BY <1>1, Invariance, PTL

(* A login ended while its token was live gets no usable token again.      *)
THEOREM EndSafety == Spec => []EndedLoginsStayEnded
<1>1. IInv => EndedLoginsStayEnded
  BY DEF IInv
<1>. QED
  BY <1>1, Invariance, PTL

-----------------------------------------------------------------------------
(* Sessions implement Logins *)

(* The rows of the table keep their logins. *)
SameLogins ==
    \A t \in Tokens : /\ token'[t] = NoToken <=> token[t] = NoToken
                      /\ token[t] # NoToken => token'[t].login = token[t].login

(* A step that opens nothing ends some logins, or none. *)
LEMMA Narrows ==
    ASSUME \A l \in Tokens : Started(l)' <=> Started(l),
           \A l \in Tokens : Open(l)' => Open(l),
           \A l \in Tokens : Open(l) => Started(l)
    PROVE  [Login!Next]_LoginState
<1> DEFINE S == {l \in Tokens : Open(l) /\ ~Open(l)'}
<1>1. \A l \in S : LoginState[l] = "open"
  BY DEF LoginState
<1>2. LoginState' = [l \in Tokens |-> IF l \in S THEN "over" ELSE LoginState[l]]
  <2>1. ASSUME NEW l \in Tokens
        PROVE  LoginState'[l] = IF l \in S THEN "over" ELSE LoginState[l]
    BY DEF LoginState
  <2>. QED
    BY <2>1 DEF LoginState
<1>3. Login!End(S)
  BY <1>1, <1>2 DEF Login!End
<1>. QED
  BY <1>3 DEF Login!Next

(* A login that is open has begun. *)
LEMMA OpenStarted ==
    ASSUME TypeOK, NEW l \in Tokens, Open(l) PROVE Started(l)
<1>1. ASSUME NEW t \in Tokens, Usable(t), token[t].login = l PROVE Started(l)
  BY <1>1 DEF Usable, Live, Started
<1>2. ASSUME NEW r \in Reqs, Continues(r, l) PROVE Started(l)
  BY <1>2, JobShape DEF Continues, Started
<1>. QED
  BY <1>1, <1>2 DEF Open

LEMMA StartedSame ==
    ASSUME SameLogins, NEW l \in Tokens PROVE Started(l)' <=> Started(l)
  BY DEF SameLogins, Started

(* A step that issues nothing and lets no token, and no refresh of a login *)
(* that was over, come to life.                                            *)
LEMMA NarrowStep ==
    ASSUME TypeOK, SameLogins,
           \A t \in Tokens : Usable(t)' => Usable(t),
           \A r \in Reqs, l \in Tokens : Continues(r, l)' => Open(l)
    PROVE  [Login!Next]_LoginState
<1>1. \A t \in Tokens : Usable(t)' => token'[t].login = token[t].login
  BY DEF Usable, Live, SameLogins
<1>2. ASSUME NEW l \in Tokens, Open(l)' PROVE Open(l)
  <2>1. ASSUME NEW t \in Tokens, Usable(t)', token'[t].login = l PROVE Open(l)
    BY <2>1, <1>1 DEF Open
  <2>. QED
    BY <1>2, <2>1 DEF Open
<1>. QED
  BY <1>2, StartedSame, OpenStarted, Narrows

(* A step that leaves the table alone and continues no login anew; only a  *)
(* token found active may be presented for rotation.                       *)
LEMMA StillTable ==
    ASSUME IInv, UNCHANGED token,
           \A r \in Reqs : pc'[r] = "rotate" =>
               \/ pc[r] = "rotate" /\ job'[r] = job[r]
               \/ ~token[job'[r].token].expired,
           \A r \in Reqs, l \in Tokens : Continues(r, l)' => Continues(r, l)
    PROVE  [Login!Next]_LoginState
<1>1. SameLogins
  BY DEF SameLogins
<1>2. \A t \in Tokens : Usable(t)' => Usable(t)
  BY DEF Usable, Live
<1>3. \A r \in Reqs, l \in Tokens : Continues(r, l)' => Open(l)
  BY DEF Open
<1>. QED
  BY <1>1, <1>2, <1>3, NarrowStep DEF IInv

(* Revoking tokens, after which a refresh may be about to continue the     *)
(* login of the token it presented.                                        *)
LEMMA RevokingStep ==
    ASSUME IInv, NEW r \in Reqs, NEW hit \in SUBSET Tokens, \A t \in hit : Live(t),
           token' = Revoked(hit),
           \/ Finish(r)
           \/ /\ pc' = [pc EXCEPT ![r] = "issue"] /\ UNCHANGED job
              /\ job[r].kind = "refresh" => pc[r] = "rotate" /\ job[r].token \in hit
    PROVE  [Login!Next]_LoginState
<1>1. /\ \A t \in Tokens : token'[t] = NoToken <=> token[t] = NoToken
      /\ \A t \in Tokens : token[t] # NoToken => token'[t].login = token[t].login
      /\ \A t \in hit : token'[t].revoked
      /\ \A t \in Tokens \ hit : token'[t] = token[t]
  <2>1. token \in [Tokens -> TokenRow \cup {NoToken}] /\ \A t \in hit : token[t] # NoToken
    BY DEF IInv, TypeOK, Live
  <2>. QED
    BY <2>1, RevokedShape
<1>2. SameLogins
  BY <1>1 DEF SameLogins
<1>3. ASSUME NEW q \in Reqs, pc'[q] = "rotate" PROVE pc[q] = "rotate" /\ job'[q] = job[q]
  BY <1>3 DEF Finish, IInv, TypeOK
<1>4. \A t \in Tokens : Usable(t)' => Usable(t)
  BY <1>1, <1>3 DEF Usable, Live
<1>5. ASSUME NEW q \in Reqs, NEW l \in Tokens, Continues(q, l)' PROVE Open(l)
  <2>1. pc'[q] = "issue" /\ job'[q] = job[q] /\ job[q].kind = "refresh"
    BY <1>5 DEF Continues, Finish, IInv, TypeOK, Idle
  <2>2. job[q].token \in Tokens /\ token[job[q].token] # NoToken
    BY <2>1, JobShape DEF IInv
  <2>3. token[job[q].token].login = l
    BY <1>1, <1>5, <2>1, <2>2 DEF Continues
  <2>4. CASE pc[q] = "issue"
    BY <2>1, <2>3, <2>4 DEF Continues, Open
  <2>5. CASE pc[q] # "issue"
    <3>1. q = r /\ pc[q] = "rotate" /\ job[q].token \in hit
      BY <2>1, <2>5 DEF Finish, IInv, TypeOK
    <3>2. Usable(job[q].token)
      BY <3>1 DEF Usable
    <3>. QED
      BY <2>2, <2>3, <3>2 DEF Open
  <2>. QED
    BY <2>4, <2>5
<1>. QED
  BY <1>2, <1>4, <1>5, NarrowStep DEF IInv

(* Issuing a token continues an open login, or opens a new one. *)
LEMMA IssuingStep ==
    ASSUME IInv, NEW r \in Reqs, NEW t \in Tokens, IssueTokenPair(r, t)
    PROVE  [Login!Next]_LoginState
<1> DEFINE L == IF job[r].kind = "refresh" THEN token[job[r].token].login ELSE t
<1>1. /\ pc[r] = "issue" /\ token[t] = NoToken /\ Finish(r)
      /\ token' = [token EXCEPT ![t] = [user |-> job[r].user, login |-> L,
                                        revoked |-> FALSE, expired |-> FALSE]]
  BY DEF IssueTokenPair
<1>2. job[r].kind = "refresh" => /\ job[r].token \in Tokens /\ token[job[r].token] # NoToken
                                 /\ L \in Tokens
  BY JobShape, RowShape DEF IInv, TypeOK
<1>3. L \in Tokens
  BY <1>2
<1>4. job[r].user \in Users
  BY <1>1 DEF IInv, TypeOK, Job, Idle
<1> HIDE DEF L
<1>5. /\ token'[t] = [user |-> job[r].user, login |-> L, revoked |-> FALSE, expired |-> FALSE]
      /\ token'[t] # NoToken /\ token'[t].login = L /\ ~token'[t].revoked /\ ~token'[t].expired
      /\ \A s \in Tokens : s # t => token'[s] = token[s]
  <2>1. [user |-> job[r].user, login |-> L, revoked |-> FALSE, expired |-> FALSE] # NoToken
    <3>1. [user |-> job[r].user, login |-> L, revoked |-> FALSE, expired |-> FALSE] \in TokenRow
      BY <1>3, <1>4 DEF TokenRow
    <3>2. NoToken \notin TokenRow
      BY AbsentAssumption DEF TokenRow
    <3>. QED
      BY <3>1, <3>2
  <2>2. /\ token'[t] = [user |-> job[r].user, login |-> L, revoked |-> FALSE, expired |-> FALSE]
        /\ \A s \in Tokens : s # t => token'[s] = token[s]
    BY <1>1 DEF IInv, TypeOK
  <2>. QED
    BY <2>1, <2>2
<1>6. Usable(t)'
  BY <1>5 DEF Usable, Live
<1>7. \A s \in Tokens : s # t => (Usable(s)' <=> Usable(s))
  <2>1. \A q \in Reqs : pc'[q] = "rotate" <=> pc[q] = "rotate"
    BY <1>1 DEF Finish, IInv, TypeOK
  <2>2. \A q \in Reqs : pc[q] = "rotate" => job'[q] = job[q]
    BY <1>1 DEF Finish, IInv, TypeOK
  <2>. QED
    BY <1>5, <2>1, <2>2 DEF Usable, Live
<1>8. \A q \in Reqs, l \in Tokens : q # r => (Continues(q, l)' <=> Continues(q, l))
  <2>1. \A q \in Reqs : q # r => pc'[q] = pc[q] /\ job'[q] = job[q]
    BY <1>1 DEF Finish, IInv, TypeOK
  <2>2. \A q \in Reqs : job[q].kind = "refresh" => job[q].token \in Tokens /\ job[q].token # t
    BY <1>1, JobShape DEF IInv
  <2>. QED
    BY <1>5, <2>1, <2>2 DEF Continues
<1>9. \A l \in Tokens : ~Continues(r, l)'
  BY <1>1 DEF Finish, IInv, TypeOK, Continues
<1>10. \A l \in Tokens : Started(l)' <=> Started(l) \/ l = L
  BY <1>1, <1>3, <1>5 DEF Started
<1>11. \A s \in Tokens : Usable(s) => s # t
  BY <1>1 DEF Usable, Live
<1>12. CASE job[r].kind = "refresh"
  <2>1. Continues(r, L) /\ Started(L)
    BY <1>1, <1>2, <1>12 DEF Continues, L, Started
  <2>2. ASSUME NEW l \in Tokens, Open(l)' PROVE Open(l)
    <3>1. CASE l = L
      BY <2>1, <3>1 DEF Open
    <3>2. CASE l # L
      BY <1>5, <1>7, <1>8, <1>9, <2>2, <3>2 DEF Open
    <3>. QED
      BY <3>1, <3>2
  <2>3. \A l \in Tokens : Open(l) => Started(l)
    BY OpenStarted DEF IInv
  <2>. QED
    BY <1>10, <2>1, <2>2, <2>3, Narrows
<1>13. CASE job[r].kind # "refresh"
  <2>1. L = t
    BY <1>13 DEF L
  <2>2. ~Started(t)
    BY <1>1 DEF Started, IInv, LoginsIssued
  <2>3. Started(t)' /\ Open(t)'
    BY <1>5, <1>6, <1>10, <2>1 DEF Open
  <2>4. ASSUME NEW l \in Tokens, l # t PROVE (Started(l)' <=> Started(l)) /\ (Open(l)' <=> Open(l))
    <3>1. \A q \in Reqs : ~Continues(r, l)
      BY <1>13 DEF Continues
    <3>2. \A s \in Tokens : Usable(s)' /\ token'[s].login = l <=> Usable(s) /\ token[s].login = l
      BY <1>5, <1>7, <1>11, <2>1, <2>4
    <3>. QED
      BY <1>8, <1>9, <1>10, <2>1, <2>4, <3>1, <3>2 DEF Open
  <2>5. LoginState[t] = "none"
    BY <2>2 DEF LoginState
  <2>6. LoginState' = [LoginState EXCEPT ![t] = "open"]
    <3>1. \A l \in Tokens : LoginState'[l] = IF l = t THEN "open" ELSE LoginState[l]
      BY <2>3, <2>4 DEF LoginState
    <3>. QED
      BY <3>1 DEF LoginState
  <2>7. Login!SignIn(t)
    BY <2>5, <2>6 DEF Login!SignIn
  <2>. QED
    BY <2>7 DEF Login!Next
<1>. QED
  BY <1>12, <1>13

(* A token that expires ends its login unless a refresh already holds it. *)
LEMMA ExpiringStep ==
    ASSUME IInv, NEW t \in Tokens, Expire(t)
    PROVE  [Login!Next]_LoginState
<1>1. token[t] \in TokenRow /\ token[t] # NoToken /\ ~token[t].expired
  BY RowShape DEF Expire, FindActive, Live, IInv, TypeOK
<1>2. /\ token'[t].login = token[t].login /\ token'[t].revoked = token[t].revoked
      /\ token'[t] # NoToken
      /\ \A s \in Tokens : s # t => token'[s] = token[s]
  BY <1>1, AbsentAssumption DEF Expire, IInv, TypeOK, TokenRow
<1>3. SameLogins
  BY <1>1, <1>2 DEF SameLogins
<1>4. \A s \in Tokens : Usable(s)' => Usable(s)
  BY <1>1, <1>2 DEF Usable, Live, Expire
<1>5. \A q \in Reqs, l \in Tokens : Continues(q, l)' => Continues(q, l)
  BY <1>3, JobShape DEF SameLogins, Continues, Expire, IInv
<1>. QED
  BY <1>3, <1>4, <1>5, NarrowStep DEF IInv, Open

(* The first state maps to the first state. *)
LEMMA InitLogins == Init => Login!Init
  BY DEF Init, Login!Init, LoginState, Started

(* Every step signs in, ends logins or leaves them as they are. *)
LEMMA NextLogins == IInv /\ [Next]_vars => [Login!Next]_LoginState
<1> SUFFICES ASSUME IInv, [Next]_vars PROVE [Login!Next]_LoginState
  OBVIOUS
<1> DEFINE Goal == [Login!Next]_LoginState
<1>1. ASSUME NEW r \in Reqs, NEW j \in Job, NEW step \in {"compare", "issue", "rotate", "revoke", "revokeall"},
             Begin(r, j, step), UNCHANGED token, step = "issue" => j.kind # "refresh",
             step = "rotate" => ~token[j.token].expired
      PROVE  Goal
  <2>1. \A q \in Reqs : pc'[q] = "rotate" => \/ pc[q] = "rotate" /\ job'[q] = job[q]
                                             \/ ~token[job'[q].token].expired
    BY <1>1 DEF Begin, IInv, TypeOK
  <2>2. \A q \in Reqs, l \in Tokens : Continues(q, l)' => Continues(q, l)
    BY <1>1 DEF Begin, Continues, IInv, TypeOK
  <2>. QED
    BY <1>1, <2>1, <2>2, StillTable
<1>2. ASSUME NEW r \in Reqs, Finish(r), UNCHANGED token PROVE Goal
  <2>1. \A q \in Reqs : pc'[q] = "rotate" => pc[q] = "rotate" /\ job'[q] = job[q]
    BY <1>2 DEF Finish, IInv, TypeOK
  <2>2. \A q \in Reqs, l \in Tokens : Continues(q, l)' => Continues(q, l)
    BY <1>2 DEF Finish, Continues, IInv, TypeOK
  <2>. QED
    BY <1>2, <2>1, <2>2, StillTable
<1>t. \A t \in Tokens : FindActive(t) => ~token[t].expired /\ token[t].user \in Users
  BY RowShape DEF IInv, TypeOK, FindActive, Live
<1>3. ASSUME NEW r \in Reqs, Arrive(r) PROVE Goal
  <2>1. ASSUME NEW u \in Users, LoginWithPassword(r, u) PROVE Goal
    BY <2>1, <1>1 DEF LoginWithPassword, Job
  <2>2. ASSUME NEW u \in Users, LoginByPhone(r, u) PROVE Goal
    BY <2>2, <1>1 DEF LoginByPhone, Job
  <2>3. ASSUME NEW u \in Users, NEW kind \in {"change", "reset", "everywhere"},
               EndSessions(r, u, kind)
        PROVE  Goal
    BY <2>3, <1>1 DEF EndSessions, Job
  <2>4. ASSUME NEW t \in Tokens, Refresh(r, t) PROVE Goal
    BY <2>4, <1>1, <1>t DEF Refresh, Job
  <2>5. ASSUME NEW t \in Tokens, Logout(r, t) PROVE Goal
    BY <2>5, <1>1, <1>t DEF Logout, Job
  <2>. QED
    BY <1>3, <2>1, <2>2, <2>3, <2>4, <2>5 DEF Arrive
<1>4. ASSUME NEW r \in Reqs, RightPassword(r) PROVE Goal
  <2>1. job[r].kind = "login" /\ pc' = [pc EXCEPT ![r] = "issue"] /\ UNCHANGED <<job, token>>
    BY <1>4 DEF RightPassword, IInv, JobsOK
  <2>2. \A q \in Reqs : pc'[q] = "rotate" => pc[q] = "rotate" /\ job'[q] = job[q]
    BY <2>1 DEF IInv, TypeOK
  <2>3. \A q \in Reqs, l \in Tokens : Continues(q, l)' => Continues(q, l)
    BY <2>1 DEF Continues, IInv, TypeOK
  <2>. QED
    BY <2>1, <2>2, <2>3, StillTable
<1>5. ASSUME NEW r \in Reqs, RevokeRefreshTokenIfActive(r) PROVE Goal
  <2>1. CASE Finish(r) /\ UNCHANGED token
    BY <2>1, <1>2
  <2>2. CASE /\ Live(job[r].token) /\ token' = Revoked({job[r].token})
             /\ pc' = [pc EXCEPT ![r] = "issue"] /\ UNCHANGED job
    <3>1. pc[r] = "rotate" /\ job[r].token \in Tokens
      BY <1>5, JobShape DEF RevokeRefreshTokenIfActive, IInv, JobsOK
    <3>2. {job[r].token} \in SUBSET Tokens /\ \A t \in {job[r].token} : Live(t)
      BY <2>2, <3>1
    <3>. QED
      BY <2>2, <3>1, <3>2, RevokingStep
  <2>. QED
    BY <1>5, <2>1, <2>2 DEF RevokeRefreshTokenIfActive
<1>6. ASSUME NEW r \in Reqs, RevokeRefreshToken(r) PROVE Goal
  <2> DEFINE hit == {t \in {job[r].token} : Live(t)}
  <2>1. hit \in SUBSET Tokens /\ \A t \in hit : Live(t)
    BY <1>6, JobShape DEF RevokeRefreshToken, IInv, JobsOK
  <2>2. token' = Revoked(hit) /\ Finish(r)
    BY <1>6 DEF RevokeRefreshToken
  <2> HIDE DEF hit
  <2>. QED
    BY <2>1, <2>2, RevokingStep
<1>7. ASSUME NEW r \in Reqs, RevokeAllRefreshTokensForUser(r) PROVE Goal
  <2> DEFINE hit == {t \in Tokens : Live(t) /\ token[t].user = job[r].user}
  <2>1. hit \in SUBSET Tokens /\ \A t \in hit : Live(t)
    OBVIOUS
  <2>2. /\ token' = Revoked(hit)
        /\ \/ Finish(r)
           \/ /\ job[r].kind = "change"
              /\ pc' = [pc EXCEPT ![r] = "issue"] /\ UNCHANGED job
    BY <1>7 DEF RevokeAllRefreshTokensForUser
  <2> HIDE DEF hit
  <2>. QED
    BY <2>1, <2>2, RevokingStep
<1>8. ASSUME NEW r \in Reqs, Step(r) PROVE Goal
  BY <1>8, <1>2, <1>4, <1>5, <1>6, <1>7, IssuingStep DEF Step, WrongPassword, Abort
<1>9. CASE Tick \/ UNCHANGED vars
  <2>1. UNCHANGED <<token, pc, job>>
    BY <1>9 DEF Tick, vars
  <2>2. \A q \in Reqs, l \in Tokens : Continues(q, l)' => Continues(q, l)
    BY <2>1 DEF Continues
  <2>. QED
    BY <2>1, <2>2, StillTable
<1>. QED
  BY <1>3, <1>8, <1>9, ExpiringStep DEF Next

(* Refreshes, logouts and changes of password, statement by statement and  *)
(* however they overlap or fail, implement the promise that a login, once  *)
(* over, is over (auth Refresh, Logout, ChangePassword).                   *)
THEOREM Implementation == Spec => LoginsSpec
<1>1. IInv /\ [Next]_vars => [Login!Next]_LoginState
  BY NextLogins
<1>. QED
  BY <1>1, InitLogins, Invariance, PTL DEF Spec, LoginsSpec, Login!Spec

-----------------------------------------------------------------------------
(* The lockout *)

(* s is where the run of failures that the i-th of h belongs to starts. *)
IsStart(h, i, s) ==
    /\ s \in 1 .. i
    /\ s = 1 \/ h[s] - h[s - 1] >= LockDuration
    /\ \A k \in s + 1 .. i : h[k] - h[k - 1] < LockDuration

Ordered(h, t) ==
    \A i \in DOMAIN h : h[i] <= t /\ \A j \in i .. Len(h) : h[i] <= h[j]

Runs(h) == \A i \in DOMAIN h : \E s \in 1 .. i : IsStart(h, i, s)

(* The locks that h has earned are over by t or by the time in the entry. *)
Covered(h, until, t) ==
    \A i \in DOMAIN h :
        CompletesRun(h, i) => h[i] + LockDuration <= until \/ h[i] + LockDuration <= t

(* The time in an entry is none, or a lock that h has earned. *)
Earned(h, until) ==
    until = 0 \/ \E i \in DOMAIN h : CompletesRun(h, i) /\ until = h[i] + LockDuration

(***************************************************************************)
(* What the entry e of a name remembers of its failures h: the last, how   *)
(* many of the run are over and above the last lock, and that lock.  There *)
(* is no entry only when the next failure starts a run.                    *)
(***************************************************************************)
EntryOK(h, e, t) ==
    IF e = NoEntry THEN Len(h) > 0 => t >= h[Len(h)] + LockDuration
    ELSE /\ Len(h) > 0 /\ e.lastFailure = h[Len(h)]
         /\ e.failures = (Len(h) - RunStart(h, Len(h)) + 1) % MaxFailures
         /\ Earned(h, e.lockedUntil) /\ Covered(h, e.lockedUntil, t)

NameOK(u) ==
    Ordered(fails[u], clock) /\ Runs(fails[u]) /\ EntryOK(fails[u], entries[u], clock)

LockoutOK == \A u \in Users : NameOK(u)

Entry == [failures : Nat, lastFailure : Nat, lockedUntil : Nat]

(* Division with remainder is unique. *)
LEMMA RemainderUnique ==
    ASSUME NEW m \in Nat \ {0}, NEW p \in Nat, NEW q \in Nat,
           NEW r \in 0 .. m - 1, NEW s \in 0 .. m - 1, m * p + r = m * q + s
    PROVE  r = s
<1>1. ASSUME NEW a \in Nat, NEW b \in Nat, a < b PROVE m * a + m <= m * b
  <2>1. PICK d \in Nat : b = a + 1 + d
    <3>1. b - a - 1 \in Nat /\ b = a + 1 + (b - a - 1)
      BY <1>1
    <3> QED
      BY <3>1
  <2>2. m * b = m * a + m + m * d
    BY <2>1
  <2>3. m * d \in Nat /\ m * a \in Nat
    OBVIOUS
  <2> QED
    BY <2>2, <2>3
<1>2. m * p \in Nat /\ m * q \in Nat
  OBVIOUS
<1>3. ~(p < q) /\ ~(q < p)
  BY <1>1, <1>2
<1> QED
  BY <1>2, <1>3

LEMMA Remainder ==
    ASSUME NEW m \in Nat \ {0}, NEW x \in Nat
    PROVE  x % m \in 0 .. m - 1 /\ x \div m \in Nat /\ x = m * (x \div m) + (x % m)
  OBVIOUS

(* Counting on, the remainder counts on too, or starts again. *)
LEMMA RemainderNext ==
    ASSUME NEW m \in Nat \ {0}, NEW x \in Nat
    PROVE  (x + 1) % m = IF (x % m) + 1 >= m THEN 0 ELSE (x % m) + 1
<1> DEFINE q == x \div m
           r == x % m
           p == (x + 1) \div m
           s == (x + 1) % m
<1>0. x + 1 \in Nat
  OBVIOUS
<1>1. q \in Nat /\ r \in 0 .. m - 1 /\ x = m * q + r
  BY Remainder
<1>2. p \in Nat /\ s \in 0 .. m - 1 /\ x + 1 = m * p + s
  BY <1>0, Remainder
<1> HIDE DEF q, r, p, s
<1>3. CASE r + 1 >= m
  <2>1. m * (q + 1) = m * q + m /\ m * q \in Nat /\ r + 1 = m
    BY <1>1, <1>3
  <2>2. m * (q + 1) + 0 = m * p + s
    BY <1>1, <1>2, <2>1
  <2>3. q + 1 \in Nat /\ 0 \in 0 .. m - 1
    BY <1>1
  <2>4. s = 0
    BY <1>2, <2>2, <2>3, RemainderUnique
  <2> QED
    BY <1>3, <2>4 DEF s, r
<1>4. CASE ~(r + 1 >= m)
  <2>1. m * q + (r + 1) = m * p + s /\ r + 1 \in 0 .. m - 1
    BY <1>1, <1>2, <1>4
  <2>2. s = r + 1
    BY <1>1, <1>2, <2>1, RemainderUnique
  <2> QED
    BY <1>4, <2>2 DEF s, r
<1> QED
  BY <1>3, <1>4

LEMMA OneIsFirst ==
    ASSUME NEW m \in Nat \ {0} PROVE 1 % m = IF 1 >= m THEN 0 ELSE 1
<1>1. CASE m = 1
  BY <1>1
<1>2. CASE m # 1
  BY <1>2
<1> QED
  BY <1>1, <1>2

LEMMA TimesOf ==
    ASSUME NEW h \in Seq(Nat)
    PROVE  Len(h) \in Nat /\ DOMAIN h = 1 .. Len(h) /\ \A i \in 1 .. Len(h) : h[i] \in Nat
  OBVIOUS

(* A run has one start, and RunStart finds it. *)
LEMMA StartFound ==
    ASSUME NEW h \in Seq(Nat), NEW i \in DOMAIN h, NEW s, IsStart(h, i, s)
    PROVE  RunStart(h, i) = s
<1>0. Len(h) \in Nat /\ i \in 1 .. Len(h) /\ LockDuration \in Nat \ {0}
  BY TimesOf, LockoutAssumption
<1>T. \A k \in 1 .. Len(h) : h[k] \in Nat
  BY TimesOf
<1>1. \A x \in 1 .. i : IsStart(h, i, x) <=>
        /\ x = 1 \/ h[x] - h[x - 1] >= LockDuration
        /\ \A k \in x + 1 .. i : h[k] - h[k - 1] < LockDuration
  BY DEF IsStart
<1>2. RunStart(h, i) \in 1 .. i /\ IsStart(h, i, RunStart(h, i))
  <2>1. s \in 1 .. i
    BY DEF IsStart
  <2> DEFINE P(x) == /\ x = 1 \/ h[x] - h[x - 1] >= LockDuration
                     /\ \A k \in x + 1 .. i : h[k] - h[k - 1] < LockDuration
  <2>2. P(s)
    BY <1>1, <2>1
  <2>3. RunStart(h, i) = CHOOSE x \in 1 .. i : P(x)
    BY DEF RunStart
  <2> HIDE DEF P
  <2>4. RunStart(h, i) \in 1 .. i /\ P(RunStart(h, i))
    BY <2>1, <2>2, <2>3
  <2> QED
    BY <1>1, <2>4 DEF P
<1>3. ASSUME NEW x \in 1 .. i, NEW y \in 1 .. i, IsStart(h, i, x), IsStart(h, i, y), x < y
      PROVE  FALSE
  <2>1. y \in x + 1 .. i /\ y # 1
    BY <1>0, <1>3
  <2>2. h[y] - h[y - 1] < LockDuration /\ h[y] - h[y - 1] >= LockDuration
    BY <1>3, <2>1 DEF IsStart
  <2>3. y - 1 \in 1 .. Len(h) /\ y \in 1 .. Len(h)
    BY <1>0, <2>1
  <2>4. h[y] \in Nat /\ h[y - 1] \in Nat
    BY <1>T, <2>3
  <2> QED
    BY SMTT(30), <1>0, <2>2, <2>4
<1>4. s \in 1 .. i
  BY DEF IsStart
<1>5. ~(s < RunStart(h, i)) /\ ~(RunStart(h, i) < s)
  BY <1>2, <1>3, <1>4
<1> QED
  BY <1>0, <1>2, <1>4, <1>5

(* One failure more, with its run's start s: the runs before it are as they were. *)
LEMMA OneMore ==
    ASSUME NEW h \in Seq(Nat), NEW t \in Nat, Ordered(h, t), Runs(h), NEW s,
           IsStart(Append(h, t), Len(h) + 1, s)
    PROVE  LET g == Append(h, t)
           IN  /\ g \in Seq(Nat) /\ Len(g) = Len(h) + 1 /\ DOMAIN g = 1 .. Len(h) + 1
               /\ g[Len(h) + 1] = t /\ \A i \in 1 .. Len(h) : g[i] = h[i]
               /\ Ordered(g, t) /\ Runs(g) /\ RunStart(g, Len(h) + 1) = s
               /\ \A i \in 1 .. Len(h) : CompletesRun(g, i) <=> CompletesRun(h, i)
<1> DEFINE n == Len(h)
           g == Append(h, t)
<1>0. n \in Nat /\ DOMAIN h = 1 .. n
  BY TimesOf
<1>T. \A i \in 1 .. n : h[i] \in Nat
  BY TimesOf
<1>1. /\ g \in Seq(Nat) /\ Len(g) = n + 1 /\ DOMAIN g = 1 .. n + 1
      /\ g[n + 1] = t /\ \A i \in 1 .. n : g[i] = h[i]
  OBVIOUS
<1>2. IsStart(g, n + 1, s)
  OBVIOUS
<1> HIDE DEF g, n
<1>3. ASSUME NEW i \in 1 .. n, NEW x, IsStart(h, i, x) PROVE IsStart(g, i, x)
  <2>1. /\ x \in 1 .. i /\ (x = 1 \/ h[x] - h[x - 1] >= LockDuration)
        /\ \A k \in x + 1 .. i : h[k] - h[k - 1] < LockDuration
    BY <1>3 DEF IsStart
  <2>2. g[x] = h[x] /\ (x # 1 => g[x - 1] = h[x - 1])
    BY <1>0, <1>1, <2>1
  <2>3. \A k \in x + 1 .. i : g[k] = h[k] /\ g[k - 1] = h[k - 1]
    BY <1>0, <1>1, <2>1
  <2> QED
    BY <2>1, <2>2, <2>3 DEF IsStart
<1>4. \A i \in 1 .. n : \E x \in 1 .. i : IsStart(h, i, x)
  BY <1>0 DEF Runs
<1>5. Runs(g)
  <2>1. ASSUME NEW i \in 1 .. n + 1 PROVE \E x \in 1 .. i : IsStart(g, i, x)
    <3>1. CASE i = n + 1
      BY <1>2, <3>1 DEF IsStart
    <3>2. CASE i \in 1 .. n
      BY <1>3, <1>4, <3>2
    <3> QED
      BY <1>0, <3>1, <3>2
  <2> QED
    BY <1>1, <2>1 DEF Runs
<1>6. Ordered(g, t)
  <2>1. \A i \in 1 .. n : h[i] <= t /\ \A j \in i .. n : h[i] <= h[j]
    BY <1>0 DEF Ordered, n
  <2>2. ASSUME NEW i \in 1 .. n + 1 PROVE g[i] <= t /\ \A j \in i .. n + 1 : g[i] <= g[j]
    <3>1. CASE i = n + 1
      BY <1>0, <1>1, <3>1
    <3>2. CASE i \in 1 .. n
      <4>1. g[i] = h[i] /\ h[i] <= t
        BY <1>1, <2>1, <3>2
      <4>2. ASSUME NEW j \in i .. n PROVE h[i] <= g[j]
        <5>1. j \in 1 .. n
          BY <1>0, <3>2
        <5> QED
          BY <1>1, <2>1, <3>2, <5>1
      <4>3. \A j \in i .. n + 1 : j = n + 1 \/ j \in i .. n
        BY <1>0, <3>2
      <4> QED
        BY <1>1, <4>1, <4>2, <4>3
    <3> QED
      BY <1>0, <3>1, <3>2
  <2> QED
    BY <1>1, <2>2 DEF Ordered
<1>7. RunStart(g, n + 1) = s
  <2>1. n + 1 \in DOMAIN g
    BY <1>0, <1>1
  <2> QED
    BY <1>1, <1>2, <2>1, StartFound
<1>8. \A i \in 1 .. n : CompletesRun(g, i) <=> CompletesRun(h, i)
  <2> TAKE i \in 1 .. n
  <2>1. PICK x \in 1 .. i : IsStart(h, i, x)
    BY <1>4
  <2>2. IsStart(g, i, x) /\ i \in DOMAIN g /\ i \in DOMAIN h
    BY <1>0, <1>1, <1>3, <2>1
  <2>3. RunStart(g, i) = x /\ RunStart(h, i) = x
    BY <1>1, <2>1, <2>2, StartFound
  <2> QED
    BY <2>3 DEF CompletesRun
<1> QED
  BY <1>1, <1>5, <1>6, <1>7, <1>8 DEF g, n

(* The times of h come before t, the last of them last. *)
LEMMA LastIsLast ==
    ASSUME NEW h \in Seq(Nat), NEW t \in Nat, Ordered(h, t), NEW i \in DOMAIN h
    PROVE  /\ h[i] \in Nat /\ h[i] <= t /\ h[i] <= h[Len(h)] /\ h[Len(h)] \in Nat
           /\ Len(h) \in DOMAIN h /\ i \in 1 .. Len(h)
<1>1. Len(h) \in Nat /\ DOMAIN h = 1 .. Len(h)
  BY TimesOf
<1>2. Len(h) \in 1 .. Len(h) /\ Len(h) \in i .. Len(h)
  BY <1>1
<1> QED
  BY <1>1, <1>2, TimesOf DEF Ordered

(* A failure long after the last starts a run, and no lock is left. *)
LEMMA StartsRun ==
    ASSUME NEW h \in Seq(Nat), NEW t \in Nat, Ordered(h, t),
           Len(h) > 0 => t >= h[Len(h)] + LockDuration
    PROVE  /\ IsStart(Append(h, t), Len(h) + 1, Len(h) + 1)
           /\ Earned(h, 0) /\ Covered(h, 0, t)
<1> DEFINE n == Len(h)
           g == Append(h, t)
<1>0. n \in Nat /\ DOMAIN h = 1 .. n /\ LockDuration \in Nat
  BY TimesOf, LockoutAssumption
<1>1. g[n + 1] = t /\ \A i \in 1 .. n : g[i] = h[i]
  OBVIOUS
<1> HIDE DEF g
<1>2. n + 1 = 1 \/ g[n + 1] - g[n + 1 - 1] >= LockDuration
  <2> SUFFICES ASSUME n # 0 PROVE g[n + 1] - g[n + 1 - 1] >= LockDuration
    BY <1>0
  <2>1. n \in DOMAIN h /\ n + 1 - 1 = n
    BY <1>0
  <2>2. g[n + 1] = t /\ g[n + 1 - 1] = h[n] /\ h[n] \in Nat /\ t >= h[n] + LockDuration
    BY <1>0, <1>1, <2>1, LastIsLast
  <2> QED
    BY <1>0, <2>2
<1>3. IsStart(g, n + 1, n + 1)
  BY <1>0, <1>2 DEF IsStart
<1>4. ASSUME NEW i \in DOMAIN h PROVE h[i] + LockDuration <= t
  <2>1. h[i] \in Nat /\ h[i] <= h[n] /\ h[n] \in Nat /\ t >= h[n] + LockDuration
    BY <1>0, LastIsLast
  <2> QED
    BY <1>0, <2>1
<1> QED
  BY <1>3, <1>4 DEF g, Earned, Covered

(* A failure soon after the last belongs to its run. *)
LEMMA GoesOn ==
    ASSUME NEW h \in Seq(Nat), NEW t \in Nat, Ordered(h, t), Runs(h),
           Len(h) > 0, t < h[Len(h)] + LockDuration
    PROVE  /\ RunStart(h, Len(h)) \in 1 .. Len(h)
           /\ IsStart(Append(h, t), Len(h) + 1, RunStart(h, Len(h)))
<1> DEFINE n == Len(h)
           g == Append(h, t)
<1>0. n \in Nat /\ n \in DOMAIN h /\ n \in 1 .. n /\ LockDuration \in Nat
  BY TimesOf, LockoutAssumption
<1>1. g[n + 1] = t /\ \A i \in 1 .. n : g[i] = h[i]
  OBVIOUS
<1> HIDE DEF g
<1>2. PICK s \in 1 .. n : IsStart(h, n, s)
  BY <1>0 DEF Runs
<1>3. RunStart(h, n) = s
  BY <1>0, <1>2, StartFound
<1>4. /\ s = 1 \/ h[s] - h[s - 1] >= LockDuration
      /\ \A k \in s + 1 .. n : h[k] - h[k - 1] < LockDuration
  BY <1>2 DEF IsStart
<1>5. s = 1 \/ g[s] - g[s - 1] >= LockDuration
  <2>1. s = 1 \/ s - 1 \in 1 .. n
    BY <1>0
  <2> QED
    BY <1>1, <1>4, <2>1
<1>6. ASSUME NEW k \in s + 1 .. n + 1 PROVE g[k] - g[k - 1] < LockDuration
  <2>1. CASE k = n + 1
    <3>1. k - 1 = n
      BY <1>0, <2>1
    <3>2. g[k] = t /\ g[k - 1] = h[n] /\ h[n] \in Nat
      BY <1>0, <1>1, <2>1, <3>1, LastIsLast
    <3> QED
      BY <1>0, <3>2
  <2>2. CASE k # n + 1
    <3>1. k \in s + 1 .. n /\ k \in 1 .. n /\ k - 1 \in 1 .. n
      BY <1>0, <2>2
    <3>2. g[k] = h[k] /\ g[k - 1] = h[k - 1]
      BY <1>1, <3>1
    <3> QED
      BY <1>4, <3>1, <3>2
  <2> QED
    BY <2>1, <2>2
<1>7. IsStart(g, n + 1, s)
  BY <1>0, <1>5, <1>6 DEF IsStart
<1> QED
  BY <1>3, <1>7 DEF g

(* An entry that still locks or counts remembers a recent failure. *)
LEMMA NotStale ==
    ASSUME NEW h \in Seq(Nat), NEW t \in Nat, NEW e \in Entry, e # NoEntry,
           Ordered(h, t), EntryOK(h, e, t),
           t < e.lockedUntil \/ t - e.lastFailure < LockDuration
    PROVE  Len(h) > 0 /\ t < h[Len(h)] + LockDuration
<1> DEFINE n == Len(h)
<1>0. n \in Nat /\ LockDuration \in Nat \ {0}
  BY TimesOf, LockoutAssumption
<1>1. n > 0 /\ e.lastFailure = h[n] /\ Earned(h, e.lockedUntil)
  BY DEF EntryOK
<1>2. n \in DOMAIN h
  BY <1>0, <1>1, TimesOf
<1>3. h[n] \in Nat
  BY <1>2, LastIsLast
<1>4. CASE t < e.lockedUntil
  <2>1. PICK i \in DOMAIN h : e.lockedUntil = h[i] + LockDuration
    BY <1>1, <1>4 DEF Earned
  <2>2. h[i] \in Nat /\ h[i] <= h[n]
    BY LastIsLast
  <2> HIDE DEF n
  <2>3. t < h[n] + LockDuration
    BY <1>0, <1>3, <1>4, <2>1, <2>2
  <2> QED
    BY <1>1, <2>3 DEF n
<1>5. CASE t - e.lastFailure < LockDuration
  BY <1>0, <1>1, <1>3, <1>5
<1> QED
  BY <1>4, <1>5

(* What an entry has to remember after a failure at time t. *)
LEMMA FailedOK ==
    ASSUME NEW h \in Seq(Nat), NEW t \in Nat, Ordered(h, t), Runs(h),
           NEW s \in 1 .. Len(h) + 1, IsStart(Append(h, t), Len(h) + 1, s),
           NEW f, f # NoEntry, f.lastFailure = t,
           f.failures = (Len(h) + 1 - s + 1) % MaxFailures,
           \/ f.failures = 0 /\ f.lockedUntil = t + LockDuration
           \/ f.failures # 0 /\ Earned(h, f.lockedUntil) /\ Covered(h, f.lockedUntil, t)
    PROVE  Ordered(Append(h, t), t) /\ Runs(Append(h, t)) /\ EntryOK(Append(h, t), f, t)
<1> DEFINE n == Len(h)
           g == Append(h, t)
           m == n + 1
<1>0. n \in Nat /\ m \in Nat /\ DOMAIN h = 1 .. n /\ LockDuration \in Nat
  BY TimesOf, LockoutAssumption
<1>1. /\ g \in Seq(Nat) /\ Len(g) = m /\ DOMAIN g = 1 .. m
      /\ g[m] = t /\ \A i \in 1 .. n : g[i] = h[i]
      /\ Ordered(g, t) /\ Runs(g) /\ RunStart(g, m) = s
      /\ \A i \in 1 .. n : CompletesRun(g, i) <=> CompletesRun(h, i)
  BY OneMore
<1>2. CompletesRun(g, m) <=> (m - RunStart(g, m) + 1) % MaxFailures = 0
  BY DEF CompletesRun
<1>3. f.failures = (m - RunStart(g, m) + 1) % MaxFailures
  BY <1>1
<1>4. m \in DOMAIN g /\ m > 0 /\ \A i \in 1 .. m : i = m \/ i \in 1 .. n
  BY <1>0, <1>1
<1> HIDE DEF n, g, m
<1>5. CASE f.failures = 0 /\ f.lockedUntil = t + LockDuration
  <2>1. Earned(g, f.lockedUntil)
    BY <1>1, <1>2, <1>3, <1>4, <1>5 DEF Earned
  <2>2. \A i \in DOMAIN g : g[i] + LockDuration <= f.lockedUntil
    <3> TAKE i \in DOMAIN g
    <3>1. g[i] \in Nat /\ g[i] <= t
      BY <1>1, LastIsLast
    <3> QED
      BY <1>0, <1>5, <3>1
  <2> QED
    BY <1>1, <1>3, <1>4, <2>1, <2>2 DEF EntryOK, Covered, g
<1>6. CASE f.failures # 0 /\ Earned(h, f.lockedUntil) /\ Covered(h, f.lockedUntil, t)
  <2>1. ~CompletesRun(g, m)
    BY <1>2, <1>3, <1>6
  <2>2. Earned(g, f.lockedUntil)
    <3>1. CASE f.lockedUntil = 0
      BY <3>1 DEF Earned
    <3>2. ASSUME NEW i \in 1 .. n, CompletesRun(h, i), f.lockedUntil = h[i] + LockDuration
          PROVE  Earned(g, f.lockedUntil)
      <4>1. i \in DOMAIN g
        BY <1>0, <1>1 DEF m
      <4> QED
        BY <1>1, <3>2, <4>1 DEF Earned
    <3> QED
      BY <1>0, <1>6, <3>1, <3>2 DEF Earned
  <2>3. Covered(g, f.lockedUntil, t)
    BY <1>0, <1>1, <1>4, <1>6, <2>1 DEF Covered
  <2> QED
    BY <1>1, <1>3, <1>4, <2>2, <2>3 DEF EntryOK, g
<1> QED
  BY <1>5, <1>6

(* What the lockout invariant says of one name, typed. *)
LEMMA NameShape ==
    ASSUME TypeOK, NEW u \in Users
    PROVE  /\ fails[u] \in Seq(Nat) /\ clock \in Nat
           /\ entries[u] # NoEntry => entries[u] \in Entry
           /\ Swept \in [Users -> Entry \cup {NoEntry}]
           /\ \/ Swept[u] = entries[u]
              \/ Swept[u] = NoEntry /\ entries[u] # NoEntry /\ Stale(entries[u])
<1>1. fails[u] \in Seq(Nat) /\ clock \in Nat /\ entries[u] \in Entry \cup {NoEntry}
  BY DEF TypeOK, Entry
<1>2. Swept \in [Users -> Entry \cup {NoEntry}]
  BY DEF TypeOK, Entry, Swept
<1>3. \/ Swept[u] = entries[u]
      \/ Swept[u] = NoEntry /\ u \in Present /\ Stale(entries[u])
  BY DEF Swept
<1>4. u \in Present => entries[u] # NoEntry
  BY DEF Present
<1> QED
  BY <1>1, <1>2, <1>3, <1>4

(* A stale entry remembers nothing that matters. *)
LEMMA StaleIsOld ==
    ASSUME NEW h \in Seq(Nat), NEW t \in Nat, NEW e \in Entry, e # NoEntry,
           EntryOK(h, e, t), t - e.lastFailure >= LockDuration
    PROVE  EntryOK(h, NoEntry, t) /\ t >= h[Len(h)] + LockDuration
<1>1. Len(h) > 0 /\ e.lastFailure = h[Len(h)]
  BY DEF EntryOK
<1>2. h[Len(h)] \in Nat
  BY <1>1, TimesOf
<1>3. t >= h[Len(h)] + LockDuration
  BY <1>1, <1>2, LockoutAssumption
<1> QED
  BY <1>3 DEF EntryOK

(* The swept map says the same of every name. *)
LEMMA SweptOK ==
    ASSUME TypeOK, NEW u \in Users, NameOK(u)
    PROVE  EntryOK(fails[u], Swept[u], clock)
<1>1. fails[u] \in Seq(Nat) /\ clock \in Nat /\ EntryOK(fails[u], entries[u], clock)
  BY NameShape DEF NameOK
<1>2. CASE Swept[u] = entries[u]
  BY <1>1, <1>2
<1>3. CASE Swept[u] = NoEntry /\ entries[u] # NoEntry /\ Stale(entries[u])
  <2>1. entries[u] \in Entry /\ clock - entries[u].lastFailure >= LockDuration
    BY <1>3, NameShape DEF Stale
  <2> QED
    BY <1>1, <1>3, <2>1, StaleIsOld
<1> QED
  BY <1>2, <1>3, NameShape

(* The first failure after a long gap. *)
LEMMA FreshFailure ==
    ASSUME TypeOK, NEW u \in Users, NameOK(u), Swept[u] = NoEntry \/ Stale(Swept[u])
    PROVE  LET g == Append(fails[u], clock)
           IN  Ordered(g, clock) /\ Runs(g) /\ EntryOK(g, FailedEntry(u), clock)
<1> DEFINE h == fails[u]
           n == Len(h)
           f == FailedEntry(u)
<1>1. /\ h \in Seq(Nat) /\ clock \in Nat /\ n \in Nat
      /\ Ordered(h, clock) /\ Runs(h) /\ EntryOK(h, Swept[u], clock)
      /\ Swept[u] # NoEntry => Swept[u] \in Entry
  BY NameShape, SweptOK, TimesOf DEF NameOK
<1>2. n > 0 => clock >= h[n] + LockDuration
  <2>1. CASE Swept[u] = NoEntry
    BY <1>1, <2>1 DEF EntryOK
  <2>2. CASE Swept[u] # NoEntry
    <3>1. clock - Swept[u].lastFailure >= LockDuration
      BY <2>2 DEF Stale
    <3> QED
      BY <1>1, <2>2, <3>1, StaleIsOld
  <2> QED
    BY <2>1, <2>2
<1>3. IsStart(Append(h, clock), n + 1, n + 1) /\ Earned(h, 0) /\ Covered(h, 0, clock)
  BY <1>1, <1>2, StartsRun
<1>4. f = IF 1 >= MaxFailures
          THEN [failures |-> 0, lastFailure |-> clock, lockedUntil |-> clock + LockDuration]
          ELSE [failures |-> 1, lastFailure |-> clock, lockedUntil |-> 0]
  BY DEF FailedEntry
<1>5. f # NoEntry
  BY <1>1, <1>4, NoEntryAssumption, LockoutAssumption
<1>6. f.lastFailure = clock
  BY <1>4
<1>7. n + 1 - (n + 1) + 1 = 1 /\ n + 1 \in 1 .. n + 1
  BY <1>1
<1>8. f.failures = 1 % MaxFailures
  BY <1>4, OneIsFirst, LockoutAssumption
<1>9. \/ f.failures = 0 /\ f.lockedUntil = clock + LockDuration
      \/ f.failures # 0 /\ f.lockedUntil = 0
  BY <1>4
<1> HIDE DEF f
<1>10. f.failures = (n + 1 - (n + 1) + 1) % MaxFailures
  BY <1>7, <1>8
<1>11. \/ f.failures = 0 /\ f.lockedUntil = clock + LockDuration
       \/ f.failures # 0 /\ Earned(h, f.lockedUntil) /\ Covered(h, f.lockedUntil, clock)
  BY <1>3, <1>9
<1> HIDE DEF h
<1>12. Ordered(Append(h, clock), clock) /\ Runs(Append(h, clock))
       /\ EntryOK(Append(h, clock), f, clock)
  BY <1>1, <1>3, <1>5, <1>6, <1>7, <1>10, <1>11, FailedOK
<1> QED
  BY <1>12 DEF f, h

(* A failure soon after the last counts on from the entry. *)
LEMMA NextFailure ==
    ASSUME TypeOK, NEW u \in Users, NameOK(u), Swept[u] # NoEntry, ~Stale(Swept[u])
    PROVE  LET g == Append(fails[u], clock)
           IN  Ordered(g, clock) /\ Runs(g) /\ EntryOK(g, FailedEntry(u), clock)
<1> DEFINE h == fails[u]
           n == Len(h)
           e == entries[u]
           f == FailedEntry(u)
           s == RunStart(h, n)
           x == n - s + 1
<1>1. Swept[u] = e
  BY NameShape
<1>2. /\ h \in Seq(Nat) /\ clock \in Nat /\ n \in Nat /\ e \in Entry /\ e # NoEntry
      /\ Ordered(h, clock) /\ Runs(h) /\ EntryOK(h, e, clock)
  BY <1>1, NameShape, TimesOf DEF NameOK
<1>E. e.failures \in Nat /\ e.lastFailure \in Nat /\ e.lockedUntil \in Nat
  BY <1>2 DEF Entry
<1>M. MaxFailures \in Nat \ {0} /\ LockDuration \in Nat \ {0}
  BY LockoutAssumption
<1>3. clock < e.lockedUntil \/ clock - e.lastFailure < LockDuration
  BY <1>1, <1>2, <1>E, <1>M DEF Stale
<1>4. n > 0 /\ clock < h[n] + LockDuration
  BY <1>2, <1>3, NotStale
<1>5. s \in 1 .. n /\ IsStart(Append(h, clock), n + 1, s)
  BY <1>2, <1>4, GoesOn
<1>6. e.failures = x % MaxFailures /\ Earned(h, e.lockedUntil) /\ Covered(h, e.lockedUntil, clock)
  BY <1>2 DEF EntryOK
<1>7. f = IF e.failures + 1 >= MaxFailures
          THEN [failures |-> 0, lastFailure |-> clock, lockedUntil |-> clock + LockDuration]
          ELSE [failures |-> e.failures + 1, lastFailure |-> clock, lockedUntil |-> e.lockedUntil]
  BY <1>1 DEF FailedEntry
<1> HIDE DEF h, n, e, f, s
<1>8. f # NoEntry
  BY <1>2, <1>7, <1>E, <1>M, NoEntryAssumption
<1>9. f.lastFailure = clock
  BY <1>7
<1>10. f.failures = IF e.failures + 1 >= MaxFailures THEN 0 ELSE e.failures + 1
  BY <1>7
<1>11. x \in Nat /\ n + 1 - s + 1 = x + 1 /\ s \in 1 .. n + 1
  BY <1>2, <1>5
<1>12. \/ f.failures = 0 /\ f.lockedUntil = clock + LockDuration
       \/ f.failures # 0 /\ f.lockedUntil = e.lockedUntil
  <2>1. e.failures + 1 # 0
    BY <1>E
  <2> QED
    BY <1>7, <2>1
<1> HIDE DEF x
<1>13. f.failures = (n + 1 - s + 1) % MaxFailures
  BY <1>6, <1>10, <1>11, <1>M, RemainderNext
<1>14. \/ f.failures = 0 /\ f.lockedUntil = clock + LockDuration
       \/ f.failures # 0 /\ Earned(h, f.lockedUntil) /\ Covered(h, f.lockedUntil, clock)
  BY <1>6, <1>12
<1>15. Ordered(Append(h, clock), clock) /\ Runs(Append(h, clock))
       /\ EntryOK(Append(h, clock), f, clock)
  BY <1>2, <1>5, <1>8, <1>9, <1>11, <1>13, <1>14, FailedOK DEF n
<1> QED
  BY <1>15 DEF f, h

LEMMA FailStep ==
    ASSUME TypeOK, LockoutOK, NEW u \in Users, Fail(u), UNCHANGED clock
    PROVE  LockoutOK'
<1> SUFFICES ASSUME NEW v \in Users PROVE NameOK(v)'
  BY DEF LockoutOK
<1>1. NameOK(u) /\ NameOK(v)
  BY DEF LockoutOK
<1>2. Swept \in [Users -> Entry \cup {NoEntry}] /\ fails \in [Users -> Seq(Nat)]
  BY NameShape DEF TypeOK
<1>3. CASE v = u
  <2>1. entries'[v] = FailedEntry(v) /\ fails'[v] = Append(fails[v], clock)
    BY <1>2, <1>3 DEF Fail
  <2>2. LET g == Append(fails[v], clock)
        IN  Ordered(g, clock) /\ Runs(g) /\ EntryOK(g, FailedEntry(v), clock)
    BY <1>1, FreshFailure, NextFailure
  <2> QED
    BY <2>1, <2>2 DEF NameOK
<1>4. CASE v # u
  <2>1. entries'[v] = Swept[v] /\ fails'[v] = fails[v]
    BY <1>2, <1>4 DEF Fail
  <2>2. EntryOK(fails[v], Swept[v], clock)
    BY <1>1, SweptOK
  <2> QED
    BY <1>1, <2>1, <2>2 DEF NameOK
<1> QED
  BY <1>3, <1>4

LEMMA ResetStep ==
    ASSUME TypeOK, LockoutOK, NEW u \in Users, Reset(u), UNCHANGED clock
    PROVE  LockoutOK'
<1> SUFFICES ASSUME NEW v \in Users PROVE NameOK(v)'
  BY DEF LockoutOK
<1>1. CASE v = u
  <2>1. entries'[v] = NoEntry /\ fails'[v] = <<>>
    BY <1>1 DEF Reset, TypeOK
  <2>2. Len(<<>>) = 0 /\ DOMAIN <<>> = {}
    OBVIOUS
  <2> QED
    BY <2>1, <2>2 DEF NameOK, Ordered, Runs, EntryOK
<1>2. CASE v # u
  <2>1. entries'[v] = entries[v] /\ fails'[v] = fails[v]
    BY <1>2 DEF Reset, TypeOK
  <2> QED
    BY <2>1 DEF NameOK, LockoutOK
<1> QED
  BY <1>1, <1>2

LEMMA TickStep ==
    ASSUME TypeOK, LockoutOK, Tick PROVE LockoutOK'
<1> SUFFICES ASSUME NEW u \in Users PROVE NameOK(u)'
  BY DEF LockoutOK
<1> DEFINE h == fails[u]
           e == entries[u]
           t == clock
           n == Len(h)
<1>1. /\ clock' = t + 1 /\ entries'[u] = e /\ fails'[u] = h
      /\ h \in Seq(Nat) /\ t \in Nat /\ (e # NoEntry => e \in Entry)
      /\ Ordered(h, t) /\ Runs(h) /\ EntryOK(h, e, t)
  BY NameShape DEF Tick, LockoutOK, NameOK
<1>0. LockDuration \in Nat /\ n \in Nat /\ DOMAIN h = 1 .. n /\ \A i \in 1 .. n : h[i] \in Nat
  BY <1>1, LockoutAssumption, TimesOf
<1> HIDE DEF h, e, t
<1>2. Ordered(h, t + 1)
  BY <1>0, <1>1 DEF Ordered
<1>3. CASE e = NoEntry
  <2>1. n > 0 => t >= h[n] + LockDuration /\ h[n] \in Nat
    BY <1>0, <1>1, <1>3 DEF EntryOK
  <2>2. n > 0 => t + 1 >= h[n] + LockDuration
    BY <1>0, <1>1, <2>1
  <2>3. EntryOK(h, e, t + 1)
    BY <1>3, <2>2 DEF EntryOK
  <2> QED
    BY <1>1, <1>2, <2>3 DEF NameOK, h, e
<1>4. CASE e # NoEntry
  <2>1. Covered(h, e.lockedUntil, t)
    BY <1>1, <1>4 DEF EntryOK
  <2>2. Covered(h, e.lockedUntil, t + 1)
    BY <1>0, <1>1, <2>1 DEF Covered
  <2>3. EntryOK(h, e, t + 1)
    BY <1>1, <1>4, <2>2 DEF EntryOK
  <2> QED
    BY <1>1, <1>2, <2>3 DEF NameOK, h, e
<1> QED
  BY <1>3, <1>4

LEMMA InitLockout == Init => LockoutOK
<1>1. Len(<<>>) = 0 /\ DOMAIN <<>> = {}
  OBVIOUS
<1> QED
  BY <1>1 DEF Init, LockoutOK, NameOK, Ordered, Runs, EntryOK

LEMMA NextLockout == IInv /\ LockoutOK /\ [Next]_vars => LockoutOK'
<1> SUFFICES ASSUME IInv, LockoutOK, [Next]_vars PROVE LockoutOK'
  OBVIOUS
<1>0. TypeOK
  BY DEF IInv
<1>1. ASSUME NEW r \in Reqs, WrongPassword(r) PROVE LockoutOK'
  <2>1. job[r].user \in Users
    BY <1>1, <1>0 DEF WrongPassword, TypeOK, Job, Idle
  <2> QED
    BY <1>0, <1>1, <2>1, FailStep DEF WrongPassword
<1>2. ASSUME NEW r \in Reqs, RightPassword(r) PROVE LockoutOK'
  <2>1. job[r].user \in Users
    BY <1>2, <1>0 DEF RightPassword, TypeOK, Job, Idle
  <2> QED
    BY <1>0, <1>2, <2>1, ResetStep DEF RightPassword
<1>3. CASE Tick
  BY <1>0, <1>3, TickStep
<1>4. ASSUME UNCHANGED <<entries, clock, fails>> PROVE LockoutOK'
  BY <1>4 DEF LockoutOK, NameOK
<1>5. ASSUME NEW r \in Reqs, Arrive(r) PROVE UNCHANGED <<entries, clock, fails>>
  BY <1>5 DEF Arrive, LoginWithPassword, LoginByPhone, EndSessions, Refresh, Logout
<1>6. ASSUME NEW r \in Reqs, Step(r), ~RightPassword(r), ~WrongPassword(r)
      PROVE UNCHANGED <<entries, clock, fails>>
  BY <1>6 DEF Step, IssueTokenPair, RevokeRefreshTokenIfActive, RevokeRefreshToken,
              RevokeAllRefreshTokensForUser, Abort
<1>7. ASSUME NEW t \in Tokens, Expire(t) PROVE UNCHANGED <<entries, clock, fails>>
  BY <1>7 DEF Expire
<1>8. UNCHANGED vars => UNCHANGED <<entries, clock, fails>>
  BY DEF vars
<1> QED
  BY <1>1, <1>2, <1>3, <1>4, <1>5, <1>6, <1>7, <1>8 DEF Next

(* What an entry remembers of a name's failures holds throughout.          *)
THEOREM LockoutInvariance == Spec => [](IInv /\ LockoutOK)
<1>1. Init => IInv /\ LockoutOK
  BY InitIInv, InitLockout
<1>2. IInv /\ LockoutOK /\ [Next]_vars => (IInv /\ LockoutOK)'
  BY NextIInv, NextLockout
<1>. QED
  BY <1>1, <1>2, PTL DEF Spec

(* An entry that is right locks when the failures say so. *)
LEMMA RightEntryLocks ==
    ASSUME TypeOK, NEW u \in Users, NameOK(u)
    PROVE  Locked(u) <=> \E i \in DOMAIN fails[u] :
                            clock < fails[u][i] + LockDuration /\ CompletesRun(fails[u], i)
<1> DEFINE h == fails[u]
           e == entries[u]
           t == clock
<1>1. /\ h \in Seq(Nat) /\ t \in Nat /\ (e # NoEntry => e \in Entry)
      /\ Ordered(h, t) /\ EntryOK(h, e, t) /\ LockDuration \in Nat
  BY NameShape, LockoutAssumption DEF NameOK
<1>2. e # NoEntry => e.lockedUntil \in Nat
  BY <1>1 DEF Entry
<1>3. Locked(u) <=> e # NoEntry /\ t < e.lockedUntil
  BY DEF Locked
<1> HIDE DEF h, e, t
<1>4. ASSUME Locked(u) PROVE \E i \in DOMAIN h : t < h[i] + LockDuration /\ CompletesRun(h, i)
  <2>1. e # NoEntry /\ t < e.lockedUntil /\ e.lockedUntil # 0
    BY <1>1, <1>2, <1>3, <1>4
  <2> QED
    BY <1>1, <2>1 DEF EntryOK, Earned
<1>5. ASSUME NEW i \in DOMAIN h, t < h[i] + LockDuration, CompletesRun(h, i) PROVE Locked(u)
  <2>1. /\ h[i] \in Nat /\ h[i] <= h[Len(h)] /\ h[Len(h)] \in Nat
        /\ Len(h) \in Nat /\ Len(h) > 0
    BY <1>1, LastIsLast, TimesOf
  <2>2. e # NoEntry
    <3> SUFFICES ASSUME e = NoEntry PROVE FALSE
      OBVIOUS
    <3>1. t >= h[Len(h)] + LockDuration
      BY <1>1, <2>1 DEF EntryOK
    <3> QED
      BY <1>1, <1>5, <2>1, <3>1
  <2>3. h[i] + LockDuration <= e.lockedUntil \/ h[i] + LockDuration <= t
    BY <1>1, <1>5, <2>2 DEF EntryOK, Covered
  <2>4. t < e.lockedUntil
    BY <1>1, <1>2, <1>5, <2>1, <2>2, <2>3
  <2> QED
    BY <1>3, <2>2, <2>4
<1> QED
  BY <1>4, <1>5 DEF h, t

(* A name is locked exactly while one of its runs of MaxFailures failures  *)
(* is less than LockDuration old, however its counter was swept, reset or  *)
(* raced for.                                                              *)
THEOREM LockoutSafety == Spec => []LockedIffEarned
<1>1. IInv /\ LockoutOK => LockedIffEarned
  BY RightEntryLocks DEF IInv, LockoutOK, LockedIffEarned
<1>. QED
  BY <1>1, LockoutInvariance, PTL
=============================================================================
