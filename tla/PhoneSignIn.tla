----------------------------- MODULE PhoneSignIn ----------------------------
(***************************************************************************)
(* Sign-in by one-time code, for one phone and one client address: the     *)
(* rate limiter in front of the two endpoints (platform/ratelimit), the    *)
(* codes in the database and the requests that ask for and verify them     *)
(* (internal/auth).  What follows a verified code is in Sessions.          *)
(*                                                                         *)
(* A request reads the clock before it has the limiter's mutex, and saves  *)
(* the whole row of a code as it read it, with its own changes.            *)
(***************************************************************************)
EXTENDS Integers, Sequences, FiniteSets

CONSTANTS
    Reqs,           \* requests in progress
    Limited,        \* the routes with a limiter: a limit of zero in the configuration is none
    Limit, Window,  \* of the limiters
    OTPCooldown, OTPTTL, OTPMaxAttempts,
    MaxLag,         \* a bound on how long a request waits for the limiter's mutex
    MaxCodes, MaxClock

Route == {"request", "verify"}

ASSUME PhoneSignInAssumption ==
    /\ Limited \subseteq Route
    /\ {Limit, Window, MaxLag, OTPMaxAttempts} \subseteq Nat \ {0} /\ MaxLag < Window
    /\ {OTPCooldown, OTPTTL} \subseteq Nat

VARIABLES
    buckets,    \* route -> the window of this client, NoWindow at first
    codes,      \* otp_codes of the phone, by insertion
    req,        \* request -> what it is doing
    clock,
    hits,       \* route -> when each request let through read the clock and was counted,
                \*   and which one opened the window it was counted in
    tried,      \* per code: how often a code was compared with it
    logins,     \* per code: how often it was accepted
    smooth      \* no two requests used a code at once, and no save failed

vars == <<buckets, codes, req, clock, hits, tried, logins, smooth>>

NoWindow == [count |-> 0]
Idle == [at |-> "idle"]

Init ==
    /\ buckets = [r \in Route |-> NoWindow]
    /\ codes = <<>>
    /\ req = [r \in Reqs |-> Idle]
    /\ clock = 0
    /\ hits = [r \in Route |-> <<>>]
    /\ tried = <<>> /\ logins = <<>>
    /\ smooth = TRUE

Finish(r) == req' = [req EXCEPT ![r] = Idle]

-----------------------------------------------------------------------------
(* Limiter.Allow. *)

(* The client types one of the codes it was sent, or something else. *)
Arrive(r) ==
    /\ req[r] = Idle
    /\ \E route \in Route, typed \in 0 .. Len(codes) :
        /\ route = "request" => typed = 0
        /\ req' = [req EXCEPT ![r] =
                    IF route \in Limited
                    THEN [at |-> "limiter", route |-> route, typed |-> typed, now |-> clock]
                    ELSE [at |-> route, typed |-> typed]]
    /\ UNCHANGED <<buckets, codes, clock, hits, tried, logins, smooth>>

Expired(w, now) == w = NoWindow \/ now - w.start >= Window

MutFull(w) == w.count > Limit

Full(w) == w.count >= Limit

(* The request let through next, in the window it opens or finds. *)
Hit(route, now) ==
    LET n == Len(hits[route])
    IN  [read |-> now, counted |-> clock,
         window |-> IF Expired(buckets[route], now) THEN n + 1 ELSE hits[route][n].window]

Allow(r) ==
    LET route == req[r].route
        now   == req[r].now
        w     == buckets[route]
    IN  /\ req[r].at = "limiter"
        /\ IF ~Expired(w, now) /\ Full(w)
           THEN /\ Finish(r)
                /\ UNCHANGED <<buckets, hits>>
           ELSE /\ buckets' = [buckets EXCEPT ![route] =
                       IF Expired(w, now) THEN [start |-> now, count |-> 1]
                       ELSE [w EXCEPT !.count = @ + 1]]
                /\ req' = [req EXCEPT ![r] = [at |-> route, typed |-> req[r].typed]]
                /\ hits' = [hits EXCEPT ![route] = Append(@, Hit(route, now))]
        /\ UNCHANGED <<codes, clock, tried, logins, smooth>>

(* Another client's request finds the map large and deletes what expired. *)
Sweep(route) ==
    /\ buckets[route] # NoWindow /\ Expired(buckets[route], clock)
    /\ buckets' = [buckets EXCEPT ![route] = NoWindow]
    /\ UNCHANGED <<codes, req, clock, hits, tried, logins, smooth>>

-----------------------------------------------------------------------------
(* The codes. *)

MutLatestOfAll ==
    {c \in DOMAIN codes : \A d \in DOMAIN codes : codes[d].created_at <= codes[c].created_at}

LatestActiveOTPCode ==
    LET active == {c \in DOMAIN codes : ~codes[c].consumed}
    IN  {c \in active : \A d \in active : codes[d].created_at <= codes[c].created_at}

(* Requests that have read the codes and not yet written what they decided. *)
Deciding == {r \in Reqs : req[r].at \in {"create", "save"}}

RequestOTP(r) ==
    /\ req[r].at = "request"
    /\ IF \E c \in LatestActiveOTPCode : clock - codes[c].created_at < OTPCooldown
       THEN Finish(r) /\ smooth' = smooth
       ELSE /\ Len(codes) < MaxCodes
            /\ req' = [req EXCEPT ![r] = [at |-> "create"]]
            /\ smooth' = (smooth /\ Deciding = {})
    /\ UNCHANGED <<buckets, codes, clock, hits, tried, logins>>

(* The row stays whether or not the message with the code goes out. *)
CreateOTPCode(r) ==
    /\ req[r].at = "create" /\ Len(codes) < MaxCodes
    /\ codes' = Append(codes, [created_at |-> clock, attempts |-> 0, consumed |-> FALSE])
    /\ tried' = Append(tried, 0) /\ logins' = Append(logins, 0)
    /\ Finish(r)
    /\ UNCHANGED <<buckets, clock, hits, smooth>>

Unusable(c) ==
    \/ clock > codes[c].created_at + OTPTTL
    \/ codes[c].attempts >= OTPMaxAttempts

VerifyRefused(r) ==
    /\ req[r].at = "verify"
    /\ LatestActiveOTPCode = {} \/ \E c \in LatestActiveOTPCode : Unusable(c)
    /\ Finish(r)
    /\ UNCHANGED <<buckets, codes, clock, hits, tried, logins, smooth>>

VerifyOTP(r) ==
    /\ req[r].at = "verify"
    /\ \E c \in LatestActiveOTPCode :
        /\ ~Unusable(c)
        /\ tried' = [tried EXCEPT ![c] = @ + 1]
        /\ req' = [req EXCEPT ![r] =
            [at |-> "save", code |-> c,
             row |-> [codes[c] EXCEPT !.attempts = @ + 1, !.consumed = @ \/ req[r].typed = c]]]
    /\ smooth' = (smooth /\ Deciding = {})
    /\ UNCHANGED <<buckets, codes, clock, hits, logins>>

SaveOTPCode(r) ==
    /\ req[r].at = "save"
    /\ codes' = [codes EXCEPT ![req[r].code] = req[r].row]
    /\ logins' = IF req[r].row.consumed THEN [logins EXCEPT ![req[r].code] = @ + 1] ELSE logins
    /\ Finish(r)
    /\ UNCHANGED <<buckets, clock, hits, tried, smooth>>

(* A statement fails, or the client is gone. *)
Fail(r) ==
    /\ req[r].at \in {"request", "create", "verify", "save"}
    /\ Finish(r)
    /\ smooth' = (smooth /\ req[r].at # "save")
    /\ UNCHANGED <<buckets, codes, clock, hits, tried, logins>>

Tick ==
    /\ clock < MaxClock
    /\ \A r \in Reqs : req[r].at = "limiter" => clock < req[r].now + MaxLag
    /\ clock' = clock + 1
    /\ UNCHANGED <<buckets, codes, req, hits, tried, logins, smooth>>

Next ==
    \/ \E r \in Reqs :
        \/ Arrive(r) \/ Allow(r)
        \/ RequestOTP(r) \/ CreateOTPCode(r)
        \/ VerifyRefused(r) \/ VerifyOTP(r) \/ SaveOTPCode(r)
        \/ Fail(r)
    \/ \E route \in Limited : Sweep(route)
    \/ Tick

Spec == Init /\ [][Next]_vars

-----------------------------------------------------------------------------

(***************************************************************************)
(* The counter of a code never runs ahead of what was tried with it.  As   *)
(* long as requests do not use codes at once and every save succeeds, it   *)
(* is exact and stops at the maximum, a code signs in at most once, and    *)
(* unused codes are a cooldown apart; overlapping requests lose counts,    *)
(* marks and the cooldown, since each saves the row it read (VerifyOTP,    *)
(* RequestOTP, Repository.SaveOTPCode).                                    *)
(***************************************************************************)
CodesAccountedFor ==
    \A c \in DOMAIN codes :
        /\ codes[c].attempts <= tried[c]
        /\ codes[c].consumed => logins[c] > 0
        /\ smooth =>
            LET saving == {r \in Reqs : req[r].at = "save" /\ req[r].code = c}
            IN  /\ codes[c].attempts + Cardinality(saving) = tried[c]
                /\ tried[c] <= OTPMaxAttempts
                /\ logins[c] <= 1
                /\ logins[c] = 1 => codes[c].consumed
                /\ \A d \in c + 1 .. Len(codes) :
                    ~codes[c].consumed /\ ~codes[d].consumed
                    => codes[d].created_at - codes[c].created_at >= OTPCooldown

(***************************************************************************)
(* The limiter's one window per client is nearly as good as the history of *)
(* its requests: of those counted at once, no span shorter than a window   *)
(* by the longest wait for the mutex holds twice the limit (a late request *)
(* after a sweep opens a window in the past, which ends that much sooner); *)
(* and a request is turned away only if the limit was used up in the       *)
(* window before its own time (Limiter.Allow).                             *)
(***************************************************************************)
LimitRespected ==
    \A route \in Route :
        /\ \A t \in 0 .. clock : Cardinality({i \in DOMAIN hits[route] :
                LET h == hits[route][i]
                IN  h.read = h.counted /\ t <= h.read /\ h.read <= t + Window - MaxLag}) <= 2 * Limit - 1
        /\ \A r \in Reqs :
            (req[r].at = "limiter" /\ req[r].route = route) =>
                LET now == req[r].now
                    w   == buckets[route]
                IN  ~Expired(w, now) /\ Full(w)
                    => Cardinality({i \in DOMAIN hits[route] :
                            hits[route][i].counted > now - Window}) >= Limit
=============================================================================
