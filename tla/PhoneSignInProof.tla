-------------------------- MODULE PhoneSignInProof --------------------------
(***************************************************************************)
(* Sign-in by one-time code, for any number of requests and any limits.    *)
(*                                                                         *)
(* The limiter: a request that opens a window is the window's opener.  The *)
(* invariant places every hit in its window: a window holds at most Limit  *)
(* consecutive hits, all read before it expires (HitsInWindows); once a    *)
(* later window is open, or none, the clock is a whole window past the     *)
(* opener (OlderExpired), so hits counted at once come after it            *)
(* (WindowsApart); the bucket is the last window (BucketIsLast).           *)
(*                                                                         *)
(* The codes: a request that saves a row has counted its try (SavesCount); *)
(* while requests do not use codes at once, the row it saves is the code's *)
(* row, one try later (CodesExact).                                        *)
(***************************************************************************)
EXTENDS PhoneSignIn, FiniteSetTheorems, WellFoundedInduction, TLAPS

(* A hit of a route. *)
Row == [read : Nat, counted : Nat, window : Nat]

Code == [created_at : Nat, attempts : Nat, consumed : BOOLEAN]

Bucket == [start : Nat, count : Nat \ {0}]

Working ==
    [at : {"limiter"}, route : Limited, typed : Nat, now : Nat] \cup
    [at : Route, typed : Nat] \cup [at : {"create"}] \cup
    [at : {"save"}, code : Nat, row : Code]

(* Every variable stays within its type. *)
TypeOK ==
    /\ buckets \in [Route -> Bucket \cup {NoWindow}]
    /\ codes \in Seq(Code)
    /\ req \in [Reqs -> Working \cup {Idle}]
    /\ clock \in Nat
    /\ hits \in [Route -> Seq(Row)]
    /\ tried \in Seq(Nat) /\ logins \in Seq(Nat)
    /\ Len(tried) = Len(codes) /\ Len(logins) = Len(codes)
    /\ smooth \in BOOLEAN

(* A request that waits for the mutex read the clock at most MaxLag ago.   *)
WaitsBounded ==
    \A r \in Reqs : req[r].at = "limiter" =>
        req[r].now <= clock /\ clock <= req[r].now + MaxLag

(* Of H, the hits of a route so far; w, its bucket; and t, the time.       *)

AtOnce(h) == h.read = h.counted

HitsInWindows(H) ==
    \A i \in DOMAIN H :
        /\ H[i].window \in 1 .. i /\ i < H[i].window + Limit
        /\ H[H[i].window].window = H[i].window
        /\ \A j \in i .. Len(H) : H[i].window <= H[j].window
        /\ H[i].read < H[H[i].window].read + Window

HitsInOrder(H, t) ==
    \A i \in DOMAIN H :
        /\ H[i].read <= H[i].counted /\ H[i].counted <= H[i].read + MaxLag
        /\ H[i].counted <= t
        /\ \A j \in i .. Len(H) : H[i].counted <= H[j].counted

OlderExpired(H, w, t) ==
    \A k \in DOMAIN H :
        H[k].window = k /\ (k < H[Len(H)].window \/ w = NoWindow) => t >= H[k].read + Window

BucketIsLast(H, w) ==
    w # NoWindow => /\ Len(H) > 0
                    /\ w.start = H[H[Len(H)].window].read
                    /\ w.count = Len(H) - H[Len(H)].window + 1

WindowsApart(H) ==
    \A k \in DOMAIN H : H[k].window = k =>
        /\ \A i \in 1 .. k - 1 : AtOnce(H[i]) => H[i].counted < H[k].counted
        /\ \A v \in 1 .. k - 1, j \in k .. Len(H) :
              H[v].window = v /\ AtOnce(H[j]) => H[j].read >= H[v].read + Window

HistoryOK(H, w, t) ==
    /\ HitsInWindows(H) /\ HitsInOrder(H, t)
    /\ OlderExpired(H, w, t) /\ BucketIsLast(H, w) /\ WindowsApart(H)

RouteOK(route) == HistoryOK(hits[route], buckets[route], clock)

LimiterOK == WaitsBounded /\ \A route \in Route : RouteOK(route)

-----------------------------------------------------------------------------

Saves(r, c) == req[r].at = "save" /\ req[r].code = c

SavesCount ==
    /\ \A r \in Reqs : req[r].at = "save" =>
          /\ req[r].code \in DOMAIN codes /\ req[r].row.attempts <= tried[req[r].code]
          /\ req[r].row.created_at <= clock
    /\ \A c \in DOMAIN codes :
          /\ codes[c].created_at <= clock
          /\ codes[c].attempts <= tried[c]
          /\ codes[c].consumed => logins[c] > 0

CodesExact ==
    smooth =>
        /\ \A r, q \in Deciding : r = q
        /\ \A c \in DOMAIN codes :
            /\ (\A r \in Reqs : ~Saves(r, c)) => tried[c] = codes[c].attempts
            /\ tried[c] <= OTPMaxAttempts
            /\ logins[c] = IF codes[c].consumed THEN 1 ELSE 0
            /\ \A d \in c + 1 .. Len(codes) :
                ~codes[c].consumed /\ ~codes[d].consumed
                => codes[d].created_at - codes[c].created_at >= OTPCooldown
        /\ \A r \in Reqs : req[r].at = "save" =>
            LET c == req[r].code
            IN  /\ tried[c] = codes[c].attempts + 1 /\ ~codes[c].consumed
                /\ req[r].row.attempts = tried[c]
                /\ req[r].row.created_at = codes[c].created_at
        /\ \A r \in Reqs : req[r].at = "create" =>
            \A c \in DOMAIN codes :
                ~codes[c].consumed => clock - codes[c].created_at >= OTPCooldown

IInv == TypeOK /\ LimiterOK /\ SavesCount /\ CodesExact

-----------------------------------------------------------------------------
(* Types *)

LEMMA Kinds ==
    ASSUME TypeOK, NEW r \in Reqs
    PROVE  /\ req[r].at = "limiter" =>
                req[r].route \in Limited /\ req[r].typed \in Nat /\ req[r].now \in Nat
           /\ req[r].at \in Route => req[r].typed \in Nat
           /\ req[r].at = "save" => req[r].code \in Nat /\ req[r].row \in Code
<1>1. req[r] \in Working \cup {Idle}
  BY DEF TypeOK
<1>2. CASE req[r] \in [at : {"limiter"}, route : Limited, typed : Nat, now : Nat]
  BY <1>2 DEF Route
<1>3. CASE req[r] \in [at : Route, typed : Nat]
  BY <1>3 DEF Route
<1>4. CASE req[r] \in [at : {"create"}] \cup {Idle}
  BY <1>4 DEF Route, Idle
<1>5. CASE req[r] \in [at : {"save"}, code : Nat, row : Code]
  BY <1>5 DEF Route
<1> QED
  BY <1>1, <1>2, <1>3, <1>4, <1>5 DEF Working

LEMMA BucketFields ==
    ASSUME TypeOK, NEW route \in Route, buckets[route] # NoWindow
    PROVE  /\ buckets[route] \in Bucket
           /\ buckets[route].start \in Nat /\ buckets[route].count \in Nat \ {0}
  BY DEF TypeOK, Bucket

LEMMA CodeFields ==
    ASSUME TypeOK, NEW c \in DOMAIN codes
    PROVE  /\ c \in 1 .. Len(codes) /\ codes[c] \in Code /\ codes[c].created_at \in Nat
           /\ codes[c].attempts \in Nat /\ codes[c].consumed \in BOOLEAN
           /\ tried[c] \in Nat /\ logins[c] \in Nat
           /\ c \in DOMAIN tried /\ c \in DOMAIN logins
<1>1. c \in 1 .. Len(codes) /\ codes[c] \in Code
  BY DEF TypeOK
<1>2. /\ tried[c] \in Nat /\ logins[c] \in Nat
      /\ c \in DOMAIN tried /\ c \in DOMAIN logins
  BY <1>1 DEF TypeOK
<1> QED
  BY <1>1, <1>2 DEF Code

LEMMA HitFields ==
    ASSUME TypeOK, NEW route \in Route, NEW i \in DOMAIN hits[route]
    PROVE  /\ i \in 1 .. Len(hits[route]) /\ Len(hits[route]) \in Nat
           /\ hits[route][i].read \in Nat /\ hits[route][i].counted \in Nat
           /\ hits[route][i].window \in Nat
<1> DEFINE H == hits[route]
<1>1. H \in Seq(Row) /\ i \in DOMAIN H
  BY DEF TypeOK
<1> HIDE DEF H
<1>2. i \in 1 .. Len(H) /\ Len(H) \in Nat /\ H[i] \in Row
  BY <1>1
<1> QED
  BY <1>2 DEF H, Row

LEMMA TypeInit == Init => TypeOK
  BY DEF Init, TypeOK, Idle, NoWindow, Route

(* Allow's two ways to let a request through, and what becomes of it. *)
LEMMA Through ==
    ASSUME TypeOK, LimiterOK, NEW r \in Reqs, Allow(r), hits' # hits
    PROVE  LET route == req[r].route
               now   == req[r].now
               n     == Len(hits[route])
               k     == IF Expired(buckets[route], now) THEN n + 1 ELSE hits[route][n].window
           IN  /\ route \in Route /\ now \in Nat /\ n \in Nat /\ clock \in Nat
               /\ now <= clock /\ clock <= now + MaxLag
               /\ Expired(buckets[route], now) \/ ~Full(buckets[route])
               /\ k \in Nat /\ (~Expired(buckets[route], now) => n > 0)
               /\ hits' = [hits EXCEPT ![route] =
                              Append(@, [read |-> now, counted |-> clock, window |-> k])]
               /\ buckets' = [buckets EXCEPT ![route] =
                       IF Expired(buckets[route], now) THEN [start |-> now, count |-> 1]
                       ELSE [buckets[route] EXCEPT !.count = @ + 1]]
               /\ req' = [req EXCEPT ![r] = [at |-> route, typed |-> req[r].typed]]
               /\ req[r].typed \in Nat /\ clock' = clock
<1> DEFINE route == req[r].route
           now == req[r].now
           n == Len(hits[route])
<1>1. /\ route \in Route /\ now \in Nat /\ req[r].typed \in Nat /\ n \in Nat /\ clock \in Nat
      /\ now <= clock /\ clock <= now + MaxLag
  BY Kinds, PhoneSignInAssumption DEF Allow, TypeOK, LimiterOK, WaitsBounded
<1>2. /\ Expired(buckets[route], now) \/ ~Full(buckets[route])
      /\ hits' = [hits EXCEPT ![route] = Append(@, Hit(route, now))]
      /\ buckets' = [buckets EXCEPT ![route] =
                       IF Expired(buckets[route], now) THEN [start |-> now, count |-> 1]
                       ELSE [buckets[route] EXCEPT !.count = @ + 1]]
      /\ req' = [req EXCEPT ![r] = [at |-> route, typed |-> req[r].typed]]
      /\ clock' = clock
  BY DEF Allow
<1>3. ASSUME ~Expired(buckets[route], now) PROVE n > 0 /\ hits[route][n].window \in Nat
  <2>1. n > 0
    BY <1>1, <1>3 DEF Expired, LimiterOK, RouteOK, HistoryOK, BucketIsLast
  <2> QED
    BY <1>1, <2>1, HitFields DEF TypeOK
<1> QED
  BY <1>1, <1>2, <1>3 DEF Hit

LEMMA TypeNext ==
    ASSUME TypeOK, LimiterOK, SavesCount, [Next]_vars PROVE TypeOK'
<1>1. CASE UNCHANGED vars
  BY <1>1 DEF vars, TypeOK
<1>2. ASSUME NEW r \in Reqs, Arrive(r) PROVE TypeOK'
  <2>1. PICK route \in Route, typed \in 0 .. Len(codes) :
           req' = [req EXCEPT ![r] =
                    IF route \in Limited
                    THEN [at |-> "limiter", route |-> route, typed |-> typed, now |-> clock]
                    ELSE [at |-> route, typed |-> typed]]
    BY <1>2 DEF Arrive
  <2>2. typed \in Nat /\ clock \in Nat
    BY DEF TypeOK
  <2>3. req' \in [Reqs -> Working \cup {Idle}]
    BY <2>1, <2>2 DEF TypeOK, Working
  <2> QED
    BY <1>2, <2>3 DEF Arrive, TypeOK
<1>3. ASSUME NEW r \in Reqs, Allow(r) PROVE TypeOK'
  <2>1. CASE hits' = hits
    <3>1. hits[req[r].route] # Append(hits[req[r].route], Hit(req[r].route, req[r].now))
      <4>1. hits[req[r].route] \in Seq(Row)
        BY <1>3, Kinds, PhoneSignInAssumption DEF Allow, TypeOK
      <4>2. Len(Append(hits[req[r].route], Hit(req[r].route, req[r].now))) = Len(hits[req[r].route]) + 1
        BY <4>1
      <4> QED
        BY <4>1, <4>2
    <3>2. req[r].route \in Route
      BY <1>3, Kinds, PhoneSignInAssumption DEF Allow
    <3>3. Finish(r) /\ UNCHANGED buckets
      BY <1>3, <2>1, <3>1, <3>2 DEF Allow, TypeOK
    <3> QED
      BY <1>3, <2>1, <3>3 DEF Allow, Finish, TypeOK
  <2>2. CASE hits' # hits
    <3> DEFINE route == req[r].route
               now == req[r].now
               n == Len(hits[route])
               k == IF Expired(buckets[route], now) THEN n + 1 ELSE hits[route][n].window
               h == [read |-> now, counted |-> clock, window |-> k]
               b == IF Expired(buckets[route], now) THEN [start |-> now, count |-> 1]
                    ELSE [buckets[route] EXCEPT !.count = @ + 1]
    <3>1. /\ route \in Route /\ now \in Nat /\ k \in Nat /\ clock \in Nat
          /\ hits' = [hits EXCEPT ![route] = Append(@, h)]
          /\ buckets' = [buckets EXCEPT ![route] = b]
          /\ req' = [req EXCEPT ![r] = [at |-> route, typed |-> req[r].typed]]
          /\ req[r].typed \in Nat
      BY <1>3, <2>2, Through
    <3>2. b \in Bucket
      BY <3>1, BucketFields DEF Expired, Bucket
    <3>3. h \in Row
      BY <3>1 DEF Row
    <3> HIDE DEF b, h
    <3>4. buckets' \in [Route -> Bucket \cup {NoWindow}]
      BY <3>1, <3>2 DEF TypeOK
    <3>5. hits' \in [Route -> Seq(Row)]
      BY <3>1, <3>3 DEF TypeOK
    <3>6. req' \in [Reqs -> Working \cup {Idle}]
      BY <3>1 DEF TypeOK, Working
    <3> QED
      BY <1>3, <3>4, <3>5, <3>6 DEF Allow, TypeOK
  <2> QED
    BY <2>1, <2>2
<1>4. ASSUME NEW r \in Reqs, RequestOTP(r) PROVE TypeOK'
  <2>1. req' \in [Reqs -> Working \cup {Idle}]
    <3>1. req' = [req EXCEPT ![r] = Idle] \/ req' = [req EXCEPT ![r] = [at |-> "create"]]
      BY <1>4 DEF RequestOTP, Finish
    <3>2. [at |-> "create"] \in Working
      BY DEF Working
    <3> QED
      BY <3>1, <3>2 DEF TypeOK
  <2>2. smooth' \in BOOLEAN
    BY <1>4 DEF RequestOTP, TypeOK
  <2> QED
    BY <1>4, <2>1, <2>2 DEF RequestOTP, TypeOK
<1>5. ASSUME NEW r \in Reqs, CreateOTPCode(r) PROVE TypeOK'
  <2>1. [created_at |-> clock, attempts |-> 0, consumed |-> FALSE] \in Code
    BY DEF TypeOK, Code
  <2> QED
    BY <1>5, <2>1 DEF CreateOTPCode, Finish, TypeOK
<1>6. ASSUME NEW r \in Reqs, VerifyOTP(r) PROVE TypeOK'
  <2> DEFINE row(c) == [codes[c] EXCEPT !.attempts = @ + 1, !.consumed = @ \/ req[r].typed = c]
  <2>1. PICK c \in DOMAIN codes :
           /\ tried' = [tried EXCEPT ![c] = @ + 1]
           /\ req' = [req EXCEPT ![r] = [at |-> "save", code |-> c, row |-> row(c)]]
    BY <1>6 DEF VerifyOTP, LatestActiveOTPCode
  <2>2. /\ codes[c] \in Code /\ c \in Nat /\ tried[c] \in Nat /\ c \in DOMAIN tried
    BY CodeFields
  <2>3. row(c) \in Code
    <3>1. /\ codes[c].attempts + 1 \in Nat
          /\ (codes[c].consumed \/ req[r].typed = c) \in BOOLEAN
      BY <2>2 DEF Code
    <3> QED
      BY <2>2, <3>1 DEF Code
  <2> HIDE DEF row
  <2>4. req' \in [Reqs -> Working \cup {Idle}]
    BY <2>1, <2>2, <2>3 DEF TypeOK, Working
  <2>5. tried' \in Seq(Nat) /\ Len(tried') = Len(tried)
    BY <2>1, <2>2 DEF TypeOK
  <2>6. smooth' \in BOOLEAN
    BY <1>6 DEF VerifyOTP, TypeOK
  <2> QED
    BY <1>6, <2>4, <2>5, <2>6 DEF VerifyOTP, TypeOK
<1>7. ASSUME NEW r \in Reqs, SaveOTPCode(r) PROVE TypeOK'
  <2>1. req[r].row \in Code /\ req[r].code \in DOMAIN codes
    BY <1>7, Kinds DEF SaveOTPCode, SavesCount
  <2>2. codes' \in Seq(Code) /\ Len(codes') = Len(codes)
    BY <1>7, <2>1 DEF SaveOTPCode, TypeOK
  <2>3. logins' \in Seq(Nat) /\ Len(logins') = Len(logins)
    BY <1>7, <2>1, CodeFields DEF SaveOTPCode, TypeOK
  <2> QED
    BY <1>7, <2>2, <2>3 DEF SaveOTPCode, Finish, TypeOK
<1>8. ASSUME NEW r \in Reqs, VerifyRefused(r) \/ Fail(r) PROVE TypeOK'
  BY <1>8 DEF VerifyRefused, Fail, Finish, TypeOK
<1>9. ASSUME NEW route \in Limited, Sweep(route) PROVE TypeOK'
  BY <1>9 DEF Sweep, TypeOK
<1>10. CASE Tick
  BY <1>10 DEF Tick, TypeOK
<1> QED
  BY <1>1, <1>2, <1>3, <1>4, <1>5, <1>6, <1>7, <1>8, <1>9, <1>10 DEF Next

-----------------------------------------------------------------------------
(* The limiter *)

LEMMA RowFields ==
    ASSUME NEW H \in Seq(Row)
    PROVE  /\ Len(H) \in Nat /\ DOMAIN H = 1 .. Len(H)
           /\ \A i \in 1 .. Len(H) : /\ H[i].read \in Nat /\ H[i].counted \in Nat
                                     /\ H[i].window \in Nat
<1>1. Len(H) \in Nat /\ DOMAIN H = 1 .. Len(H) /\ \A i \in 1 .. Len(H) : H[i] \in Row
  OBVIOUS
<1> QED
  BY <1>1 DEF Row

(* Every window but the one that is open expired before t. *)
LEMMA Expirations ==
    ASSUME NEW H \in Seq(Row), NEW w \in Bucket \cup {NoWindow}, NEW t \in Nat, NEW now \in Nat,
           HistoryOK(H, w, t), now <= t,
           NEW k \in 1 .. Len(H), H[k].window = k,
           Expired(w, now) \/ k < H[Len(H)].window
    PROVE  t >= H[k].read + Window
<1>0. /\ Len(H) \in Nat /\ DOMAIN H = 1 .. Len(H) /\ Window \in Nat
      /\ \A i \in 1 .. Len(H) : /\ H[i].read \in Nat /\ H[i].counted \in Nat
                                /\ H[i].window \in Nat
  BY RowFields, PhoneSignInAssumption
<1>1. CASE k < H[Len(H)].window \/ w = NoWindow
  BY <1>0, <1>1 DEF HistoryOK, OlderExpired
<1>2. CASE ~(k < H[Len(H)].window) /\ w # NoWindow
  <2>1. H[k].window <= H[Len(H)].window
    BY <1>0 DEF HistoryOK, HitsInWindows
  <2>2. k = H[Len(H)].window
    BY <1>0, <1>2, <2>1
  <2>3. w.start = H[k].read /\ now - w.start >= Window
    BY <1>2, <2>2 DEF HistoryOK, BucketIsLast, Expired
  <2> QED
    BY <1>0, <2>3
<1> QED
  BY <1>1, <1>2

(* Time passes, or what expired is swept away. *)
LEMMA HistoryKept ==
    ASSUME NEW H \in Seq(Row), NEW w \in Bucket \cup {NoWindow}, NEW t \in Nat,
           HistoryOK(H, w, t), NEW u \in Nat, t <= u,
           NEW v, v = w \/ (v = NoWindow /\ Expired(w, t))
    PROVE  HistoryOK(H, v, u)
<1>0. /\ Len(H) \in Nat /\ DOMAIN H = 1 .. Len(H) /\ Window \in Nat
      /\ \A i \in 1 .. Len(H) : /\ H[i].read \in Nat /\ H[i].counted \in Nat
                                /\ H[i].window \in Nat
  BY RowFields, PhoneSignInAssumption
<1>1. HitsInOrder(H, u)
  BY <1>0 DEF HistoryOK, HitsInOrder
<1>2. BucketIsLast(H, v)
  BY DEF HistoryOK, BucketIsLast
<1>3. ASSUME NEW k \in 1 .. Len(H), H[k].window = k, k < H[Len(H)].window \/ v = NoWindow
      PROVE  u >= H[k].read + Window
  <2>1. Expired(w, t) \/ k < H[Len(H)].window
    BY <1>3 DEF Expired
  <2>2. t >= H[k].read + Window
    BY <1>3, <2>1, Expirations
  <2> QED
    BY <1>0, <2>2
<1>4. OlderExpired(H, v, u)
  BY <1>0, <1>3 DEF OlderExpired
<1> QED
  BY <1>1, <1>2, <1>4 DEF HistoryOK

(* What Allow makes of w and the last window's opener for such a request. *)
Lets(H, w, now, k, v) ==
    /\ Expired(w, now) \/ ~Full(w)
    /\ k = IF Expired(w, now) THEN Len(H) + 1 ELSE H[Len(H)].window
    /\ v = IF Expired(w, now) THEN [start |-> now, count |-> 1]
           ELSE [w EXCEPT !.count = @ + 1]

(* The hit that is let through at time t, having read the clock at now. *)
LEMMA HistoryGrows ==
    ASSUME NEW H \in Seq(Row), NEW w \in Bucket \cup {NoWindow}, NEW t \in Nat,
           HistoryOK(H, w, t), NEW now \in Nat, now <= t, t <= now + MaxLag,
           NEW k, NEW v, Lets(H, w, now, k, v)
    PROVE  HistoryOK(Append(H, [read |-> now, counted |-> t, window |-> k]), v, t)
<1> DEFINE n == Len(H)
           last == H[n].window
           h == [read |-> now, counted |-> t, window |-> k]
           G == Append(H, h)
<1>0. /\ n \in Nat /\ DOMAIN H = 1 .. n
      /\ Window \in Nat \ {0} /\ Limit \in Nat \ {0} /\ MaxLag \in Nat
  BY RowFields, PhoneSignInAssumption
<1>F. \A i \in 1 .. n : H[i].read \in Nat /\ H[i].counted \in Nat /\ H[i].window \in Nat
  BY RowFields
<1>2. h.read = now /\ h.counted = t /\ h.window = k
  OBVIOUS
<1> HIDE DEF h
<1>1. /\ Len(G) = n + 1 /\ DOMAIN G = 1 .. n + 1
      /\ \A i \in 1 .. n : G[i] = H[i]
      /\ G[n + 1] = h
  OBVIOUS
<1> HIDE DEF G
<1>W. \A i \in 1 .. n :
        /\ H[i].window \in 1 .. i /\ i < H[i].window + Limit
        /\ H[H[i].window].window = H[i].window
        /\ \A j \in i .. n : H[i].window <= H[j].window
        /\ H[i].read < H[H[i].window].read + Window
  BY <1>0 DEF HistoryOK, HitsInWindows
<1>A. \A m \in 1 .. n : H[m].window = m =>
        /\ \A i \in 1 .. m - 1 : AtOnce(H[i]) => H[i].counted < H[m].counted
        /\ \A o \in 1 .. m - 1, j \in m .. n :
              H[o].window = o /\ AtOnce(H[j]) => H[j].read >= H[o].read + Window
  BY <1>0 DEF HistoryOK, WindowsApart
<1>3. ASSUME ~Expired(w, now)
      PROVE  /\ w # NoWindow /\ n > 0 /\ last \in 1 .. n /\ k = last /\ H[last].window = last
             /\ w.start = H[last].read /\ w.count = n - last + 1
             /\ now < H[last].read + Window /\ n + 1 < last + Limit
  <2>1. w # NoWindow /\ ~(now - w.start >= Window) /\ ~(w.count >= Limit)
    BY <1>3 DEF Expired, Full, Lets
  <2>2. n > 0 /\ w.start = H[last].read /\ w.count = n - last + 1
    BY <2>1 DEF HistoryOK, BucketIsLast
  <2>3. last \in 1 .. n /\ H[last].window = last
    BY <1>0, <1>W, <2>2
  <2>4. H[last].read \in Nat /\ k = last
    BY <1>0, <1>F, <1>3, <2>3 DEF Lets
  <2> HIDE DEF last, n
  <2>5. now < H[last].read + Window
    BY <1>0, <1>F, <2>1, <2>2, <2>4
  <2>6. n + 1 < last + Limit
    BY <1>0, <1>F, <2>1, <2>2, <2>3
  <2> QED
    BY <2>1, <2>2, <2>3, <2>4, <2>5, <2>6
<1>4. ASSUME NEW j \in 1 .. n, H[j].window = j, Expired(w, now) \/ j < last
      PROVE  t >= H[j].read + Window
  BY <1>4, Expirations
<1>5. k \in 1 .. n + 1 /\ (Expired(w, now) => k = n + 1)
  BY <1>0, <1>F, <1>3 DEF Lets
<1>6. \A i \in 1 .. n : H[i].window <= last /\ last \in Nat
  BY <1>0, <1>W, <1>F
<1>7. ~Expired(w, now) => k = last
  BY <1>3
<1> HIDE DEF last, n
<1>8. HitsInWindows(G)
  <2>1. G[k].window = k /\ n + 1 < k + Limit /\ now < G[k].read + Window
    <3>1. CASE Expired(w, now)
      BY <1>0, <1>F, <1>1, <1>2, <1>5, <3>1
    <3>2. CASE ~Expired(w, now)
      BY <1>0, <1>F, <1>1, <1>3, <3>2
    <3> QED
      BY <3>1, <3>2
  <2>2. ASSUME NEW i \in 1 .. n + 1
        PROVE  /\ G[i].window \in 1 .. i /\ i < G[i].window + Limit
               /\ G[G[i].window].window = G[i].window
               /\ \A j \in i .. n + 1 : G[i].window <= G[j].window
               /\ G[i].read < G[G[i].window].read + Window
    <3>1. CASE i = n + 1
      BY <1>0, <1>F, <1>1, <1>2, <1>5, <2>1, <3>1
    <3>2. CASE i \in 1 .. n
      <4>1. G[i] = H[i] /\ H[i].window \in 1 .. n /\ G[H[i].window] = H[H[i].window]
        BY <1>0, <1>F, <1>1, <1>W, <1>6, <3>2
      <4>2. H[i].window <= k
        BY <1>0, <1>F, <1>5, <1>W, <1>6, <1>7, <3>2, <4>1
      <4>3. \A j \in i .. n + 1 : G[i].window <= G[j].window
        <5>1. ASSUME NEW j \in i .. n + 1 PROVE H[i].window <= G[j].window
          <6>1. CASE j = n + 1
            BY <1>1, <1>2, <4>2, <6>1
          <6>2. CASE j \in i .. n
            <7>1. G[j] = H[j]
              BY <1>0, <1>1, <3>2, <6>2
            <7> QED
              BY <1>W, <3>2, <6>2, <7>1
          <6> QED
            BY <1>0, <3>2, <6>1, <6>2
        <5> QED
          BY <4>1, <5>1
      <4> QED
        BY <1>W, <1>6, <3>2, <4>1, <4>3
    <3> QED
      BY <1>0, <3>1, <3>2
  <2> QED
    BY <1>1, <2>2 DEF HitsInWindows
<1>9. HitsInOrder(G, t)
  <2>1. ASSUME NEW i \in 1 .. n
        PROVE  /\ H[i].read <= H[i].counted /\ H[i].counted <= H[i].read + MaxLag
               /\ H[i].counted <= t
               /\ \A j \in i .. n : H[i].counted <= H[j].counted
    BY <1>0, <1>F DEF HistoryOK, HitsInOrder, n
  <2>2. ASSUME NEW i \in 1 .. n + 1
        PROVE  /\ G[i].read <= G[i].counted /\ G[i].counted <= G[i].read + MaxLag
               /\ G[i].counted <= t
               /\ \A j \in i .. n + 1 : G[i].counted <= G[j].counted
    <3>1. CASE i = n + 1
      BY <1>0, <1>F, <1>1, <1>2, <3>1
    <3>2. CASE i \in 1 .. n
      BY SMTT(30), <1>0, <1>F, <1>1, <1>2, <2>1, <3>2
    <3> QED
      BY <1>0, <3>1, <3>2
  <2> QED
    BY <1>1, <2>2 DEF HitsInOrder
<1>10. v # NoWindow /\ BucketIsLast(G, v)
  <2>1. CASE Expired(w, now)
    <3>1. v.start = now /\ v.count = 1 /\ k = n + 1
      BY <1>5, <2>1 DEF Lets
    <3> QED
      BY <1>0, <1>F, <1>1, <1>2, <3>1 DEF BucketIsLast, NoWindow
  <2>2. CASE ~Expired(w, now)
    <3>1. w \in Bucket /\ v = [w EXCEPT !.count = w.count + 1]
      BY <1>3, <2>2 DEF Lets
    <3>2. v.start = w.start /\ v.count = w.count + 1 /\ v.count # 0
      BY <3>1 DEF Bucket
    <3>3. G[last] = H[last] /\ G[n + 1].window = last
      BY <1>1, <1>2, <1>3, <2>2
    <3> QED
      BY SMTT(30), <1>0, <1>F, <1>1, <1>3, <2>2, <3>2, <3>3 DEF BucketIsLast, NoWindow
  <2> QED
    BY <2>1, <2>2
<1>11. OlderExpired(G, v, t)
  <2>1. ASSUME NEW j \in 1 .. n + 1, G[j].window = j, j < k
        PROVE  t >= G[j].read + Window
    <3>1. j \in 1 .. n /\ G[j] = H[j]
      BY <1>0, <1>F, <1>1, <1>5, <2>1
    <3>2. Expired(w, now) \/ j < last
      BY <1>7, <2>1
    <3> QED
      BY <1>4, <2>1, <3>1, <3>2
  <2> QED
    BY <1>1, <1>2, <1>10, <2>1 DEF OlderExpired
<1>12. ASSUME NEW m \in 1 .. n + 1, G[m].window = m, NEW i \in 1 .. m - 1, AtOnce(G[i])
       PROVE  G[i].counted < G[m].counted
  <2>1. i \in 1 .. n /\ G[i] = H[i]
    BY <1>0, <1>F, <1>1
  <2>2. CASE m \in 1 .. n
    <3>1. G[m] = H[m]
      BY <1>1, <2>2
    <3> QED
      BY <1>A, <1>12, <2>1, <2>2, <3>1
  <2>3. CASE m = n + 1
    <3>1. Expired(w, now)
      <4>1. k = n + 1
        BY <1>1, <1>2, <1>12, <2>3
      <4>2. CASE ~Expired(w, now)
        <5>1. k \in 1 .. n
          BY <1>3, <4>2
        <5> QED
          BY <1>0, <4>1, <5>1
      <4> QED
        BY <4>2
    <3>2. H[i].window \in 1 .. n
      BY SMTT(30), <1>0, <1>F, <1>W, <1>6, <2>1
    <3>3. t >= H[H[i].window].read + Window
      BY <1>4, <1>W, <1>6, <2>1, <3>1, <3>2
    <3>4. H[i].read < t
      <4> DEFINE opened == H[H[i].window].read
                 arrived == H[i].read
      <4>1. arrived < opened + Window
        BY <1>W, <2>1
      <4>2. arrived \in Nat /\ opened \in Nat /\ Window \in Nat
        BY <1>0, <1>F, <2>1, <3>2
      <4>3. t >= opened + Window
        BY <3>3
      <4> HIDE DEF opened, arrived
      <4>4. arrived < t
        BY <4>1, <4>2, <4>3
      <4> QED
        BY <4>4 DEF arrived
    <3> QED
      BY <1>1, <1>2, <1>12, <2>1, <2>3, <3>4 DEF AtOnce
  <2> QED
    BY <1>0, <2>2, <2>3
<1>13. ASSUME NEW m \in 1 .. n + 1, G[m].window = m, NEW o \in 1 .. m - 1, G[o].window = o,
              NEW j \in m .. n + 1, AtOnce(G[j])
       PROVE  G[j].read >= G[o].read + Window
  <2>1. o \in 1 .. n /\ G[o] = H[o] /\ H[o].window = o
    BY <1>0, <1>F, <1>1, <1>13
  <2>2. CASE j \in 1 .. n
    <3>1. m \in 1 .. n /\ G[m] = H[m] /\ G[j] = H[j]
      BY <1>0, <1>F, <1>1, <2>2
    <3> QED
      BY <1>A, <1>13, <2>1, <2>2, <3>1
  <2>3. CASE j = n + 1
    <3>1. t = now /\ G[j].read = t
      BY <1>1, <1>2, <1>13, <2>3 DEF AtOnce
    <3>2. Expired(w, now) \/ o < last
      <4>1. CASE m = n + 1
        <5>1. k = n + 1
          BY <1>1, <1>2, <1>13, <4>1
        <5>2. CASE ~Expired(w, now)
          <6>1. k \in 1 .. n
            BY <1>3, <5>2
          <6> QED
            BY <1>0, <5>1, <6>1
        <5> QED
          BY <5>2
      <4>2. CASE m \in 1 .. n
        <5>1. H[m].window = m /\ H[m].window <= last
          BY <1>1, <1>W, <1>6, <1>13, <4>2
        <5> QED
          BY <1>0, <1>W, <1>6, <4>2, <5>1
      <4> QED
        BY <1>0, <4>1, <4>2
    <3> QED
      BY <1>4, <2>1, <3>1, <3>2
  <2> QED
    BY <1>0, <2>2, <2>3
<1>14. WindowsApart(G)
  BY <1>1, <1>12, <1>13 DEF WindowsApart
<1> QED
  BY <1>8, <1>9, <1>10, <1>11, <1>14 DEF HistoryOK, G, h

LEMMA LimiterInit == Init => LimiterOK
<1> SUFFICES ASSUME Init PROVE LimiterOK
  OBVIOUS
<1>1. HistoryOK(<<>>, NoWindow, clock)
  BY DEF HistoryOK, HitsInWindows, HitsInOrder, OlderExpired, BucketIsLast, WindowsApart
<1>2. \A route \in Route : hits[route] = <<>> /\ buckets[route] = NoWindow
  BY DEF Init
<1>3. \A route \in Route : RouteOK(route)
  BY <1>1, <1>2 DEF RouteOK
<1> QED
  BY <1>3 DEF Init, Idle, LimiterOK, WaitsBounded

(* A request that is not counted is turned away. *)
LEMMA Refused ==
    ASSUME TypeOK, NEW r \in Reqs, Allow(r), hits' = hits
    PROVE  Finish(r) /\ buckets' = buckets
<1> DEFINE route == req[r].route
           H == hits[route]
           h == Hit(route, req[r].now)
<1>1. H \in Seq(Row) /\ route \in Route
  BY Kinds, PhoneSignInAssumption DEF Allow, TypeOK
<1>2. Len(Append(H, h)) # Len(H)
  <2> HIDE DEF H, h
  <2>1. Len(Append(H, h)) = Len(H) + 1 /\ Len(H) \in Nat
    BY <1>1
  <2> QED
    BY <2>1
<1>3. hits # [hits EXCEPT ![route] = Append(@, h)]
  <2>1. [hits EXCEPT ![route] = Append(@, h)][route] = Append(H, h)
    BY <1>1 DEF TypeOK
  <2> QED
    BY <1>2, <2>1
<1> QED
  BY <1>3 DEF Allow

LEMMA AllowLimiter ==
    ASSUME TypeOK, LimiterOK, NEW r \in Reqs, Allow(r), hits' # hits
    PROVE  LimiterOK'
<1> DEFINE route == req[r].route
           now == req[r].now
           H == hits[route]
           w == buckets[route]
           k == IF Expired(w, now) THEN Len(H) + 1 ELSE H[Len(H)].window
           v == IF Expired(w, now) THEN [start |-> now, count |-> 1]
                ELSE [w EXCEPT !.count = @ + 1]
           h == [read |-> now, counted |-> clock, window |-> k]
<1>1. /\ route \in Route /\ now \in Nat /\ clock' = clock /\ clock \in Nat
      /\ now <= clock /\ clock <= now + MaxLag
      /\ Lets(H, w, now, k, v)
      /\ hits' = [hits EXCEPT ![route] = Append(@, h)]
      /\ buckets' = [buckets EXCEPT ![route] = v]
      /\ req' = [req EXCEPT ![r] = [at |-> route, typed |-> req[r].typed]]
  BY Through DEF Lets
<1>2. HistoryOK(H, w, clock) /\ H \in Seq(Row) /\ w \in Bucket \cup {NoWindow}
  BY <1>1 DEF LimiterOK, RouteOK, TypeOK
<1> HIDE DEF v, k
<1>3. HistoryOK(Append(H, h), v, clock)
  BY <1>1, <1>2, HistoryGrows
<1> HIDE DEF route, now, h
<1>4. hits'[route] = Append(H, h) /\ buckets'[route] = v
  BY <1>1 DEF TypeOK
<1>5. \A other \in Route \ {route} : hits'[other] = hits[other] /\ buckets'[other] = buckets[other]
  BY <1>1 DEF TypeOK
<1>6. \A other \in Route : RouteOK(other)'
  BY <1>1, <1>3, <1>4, <1>5 DEF LimiterOK, RouteOK
<1>7. WaitsBounded'
  BY <1>1 DEF LimiterOK, WaitsBounded, TypeOK, Route
<1> QED
  BY <1>6, <1>7 DEF LimiterOK

LEMMA LimiterNext ==
    ASSUME TypeOK, TypeOK', LimiterOK, [Next]_vars PROVE LimiterOK'
<1>1. ASSUME hits' = hits, clock' >= clock,
             \A route \in Route :
                \/ buckets'[route] = buckets[route]
                \/ buckets'[route] = NoWindow /\ Expired(buckets[route], clock)
      PROVE  \A route \in Route : RouteOK(route)'
  <2> TAKE route \in Route
  <2>1. /\ hits[route] \in Seq(Row) /\ buckets[route] \in Bucket \cup {NoWindow}
        /\ clock \in Nat /\ clock' \in Nat /\ HistoryOK(hits[route], buckets[route], clock)
    BY DEF TypeOK, LimiterOK, RouteOK
  <2>2. HistoryOK(hits[route], buckets'[route], clock')
    BY <1>1, <2>1, HistoryKept
  <2> QED
    BY <1>1, <2>2 DEF RouteOK
<1>2. ASSUME clock' = clock, \A q \in Reqs : req'[q].at = "limiter" =>
                 req'[q] = req[q] \/ req'[q].now = clock
      PROVE  WaitsBounded'
  <2> SUFFICES ASSUME NEW q \in Reqs, req'[q].at = "limiter"
               PROVE  req'[q].now <= clock /\ clock <= req'[q].now + MaxLag
    BY <1>2 DEF WaitsBounded
  <2>1. CASE req'[q] = req[q]
    BY <2>1 DEF LimiterOK, WaitsBounded
  <2>2. CASE req'[q].now = clock
    BY <2>2, PhoneSignInAssumption DEF TypeOK
  <2> QED
    BY <1>2, <2>1, <2>2
<1>3. CASE Tick
  <2>1. clock \in Nat /\ clock' = clock + 1 /\ hits' = hits /\ buckets' = buckets /\ req' = req
    BY <1>3 DEF Tick, TypeOK
  <2>2. WaitsBounded'
    <3> SUFFICES ASSUME NEW r \in Reqs, req[r].at = "limiter"
                 PROVE  req[r].now <= clock + 1 /\ clock + 1 <= req[r].now + MaxLag
      BY <2>1 DEF WaitsBounded
    <3>1. req[r].now \in Nat /\ req[r].now <= clock /\ clock < req[r].now + MaxLag
      BY <1>3, Kinds DEF Tick, LimiterOK, WaitsBounded
    <3> QED
      BY <2>1, <3>1, PhoneSignInAssumption
  <2> QED
    BY <1>1, <2>1, <2>2 DEF LimiterOK
<1>4. ASSUME NEW swept \in Limited, Sweep(swept) PROVE LimiterOK'
  <2>1. /\ hits' = hits /\ clock' = clock /\ clock \in Nat /\ req' = req
        /\ \A route \in Route :
                \/ buckets'[route] = buckets[route]
                \/ buckets'[route] = NoWindow /\ Expired(buckets[route], clock)
    BY <1>4 DEF Sweep, TypeOK
  <2> QED
    BY <1>1, <1>2, <2>1 DEF LimiterOK
<1>5. CASE /\ hits' = hits /\ buckets' = buckets /\ clock' = clock
           /\ \A q \in Reqs : req'[q].at = "limiter" =>
                 req'[q] = req[q] \/ req'[q].now = clock
  BY <1>1, <1>2, <1>5 DEF LimiterOK, TypeOK
<1>6. ASSUME NEW r \in Reqs, Allow(r) PROVE LimiterOK'
  <2>1. CASE hits' = hits
    <3>1. buckets' = buckets /\ clock' = clock /\ req' = [req EXCEPT ![r] = Idle]
      BY <1>6, <2>1, Refused DEF Allow, Finish
    <3> QED
      BY <1>5, <2>1, <3>1 DEF Idle, TypeOK
  <2> QED
    BY <1>6, <2>1, AllowLimiter
<1>7. ASSUME NEW r \in Reqs, Arrive(r) PROVE LimiterOK'
  <2>1. PICK route \in Route, typed \in 0 .. Len(codes) :
           req' = [req EXCEPT ![r] =
                    IF route \in Limited
                    THEN [at |-> "limiter", route |-> route, typed |-> typed, now |-> clock]
                    ELSE [at |-> route, typed |-> typed]]
    BY <1>7 DEF Arrive
  <2>2. \A q \in Reqs : req'[q].at = "limiter" => req'[q] = req[q] \/ req'[q].now = clock
    BY <2>1 DEF TypeOK, Route
  <2> QED
    BY <1>5, <1>7, <2>2 DEF Arrive
<1>8. ASSUME NEW r \in Reqs,
             \/ RequestOTP(r) \/ CreateOTPCode(r) \/ VerifyRefused(r)
             \/ VerifyOTP(r) \/ SaveOTPCode(r) \/ Fail(r)
      PROVE  LimiterOK'
  <2>1. \E j : req' = [req EXCEPT ![r] = j] /\ j.at # "limiter"
    BY <1>8 DEF RequestOTP, CreateOTPCode, VerifyRefused, VerifyOTP, SaveOTPCode, Fail, Finish, Idle
  <2>2. hits' = hits /\ buckets' = buckets /\ clock' = clock
    BY <1>8 DEF RequestOTP, CreateOTPCode, VerifyRefused, VerifyOTP, SaveOTPCode, Fail
  <2> QED
    BY <1>5, <2>1, <2>2 DEF TypeOK
<1>9. CASE UNCHANGED vars
  BY <1>5, <1>9 DEF vars
<1> QED
  BY <1>3, <1>4, <1>6, <1>7, <1>8, <1>9 DEF Next

-----------------------------------------------------------------------------
(* The codes *)

LEMMA LeastOfSet ==
    ASSUME NEW S \in SUBSET Nat, S # {}
    PROVE  \E m \in S : \A k \in S : m <= k
<1> DEFINE R == OpToRel(<, Nat)
<1>1. IsWellFoundedOn(R, Nat)
  BY NatLessThanWellFounded
<1> HIDE DEF R
<1>2. PICK x \in S : \A y \in S : ~(<<y, x>> \in R)
  BY <1>1, WFMin
<1>3. \A y \in S : y < x => <<y, x>> \in R
  BY DEF R, OpToRel
<1>4. x \in Nat /\ \A y \in S : y \in Nat /\ ~(y < x)
  BY <1>2, <1>3
<1>5. \A y \in S : x <= y
  BY <1>4
<1> QED
  BY <1>5

(* Of the codes not yet used there is a latest. *)
LEMMA LatestExists ==
    ASSUME TypeOK, SavesCount, NEW c \in DOMAIN codes, ~codes[c].consumed
    PROVE  \E d \in LatestActiveOTPCode : codes[c].created_at <= codes[d].created_at
<1> DEFINE active == {d \in DOMAIN codes : ~codes[d].consumed}
           ages == {clock - codes[d].created_at : d \in active}
<1>1. \A d \in active : codes[d].created_at \in Nat /\ codes[d].created_at <= clock /\ clock \in Nat
  BY CodeFields DEF SavesCount, TypeOK
<1>2. ages \in SUBSET Nat /\ ages # {}
  BY <1>1
<1>3. PICK m \in ages : \A k \in ages : m <= k
  <2> HIDE DEF ages
  <2> QED
    BY <1>2, LeastOfSet
<1>4. PICK d \in active : m = clock - codes[d].created_at
  OBVIOUS
<1>5. \A e \in active : codes[e].created_at <= codes[d].created_at
  <2> TAKE e \in active
  <2>1. clock - codes[e].created_at \in ages
    OBVIOUS
  <2>2. m <= clock - codes[e].created_at
    BY <1>3, <2>1
  <2> QED
    BY <1>1, <1>4, <2>2
<1> QED
  BY <1>4, <1>5 DEF LatestActiveOTPCode

LEMMA CodesInit == Init => SavesCount /\ CodesExact
  BY DEF Init, SavesCount, CodesExact, Deciding, Idle

LEMMA SavesCountNext ==
    ASSUME TypeOK, SavesCount, [Next]_vars PROVE SavesCount'
<1>0. clock \in Nat /\ clock' \in Nat /\ clock <= clock'
  <2>1. clock' = clock \/ clock' = clock + 1
    BY DEF Next, vars, Arrive, Allow, RequestOTP, CreateOTPCode, VerifyRefused, VerifyOTP,
       SaveOTPCode, Fail, Sweep, Tick
  <2>2. clock \in Nat
    BY DEF TypeOK
  <2> QED
    BY <2>1, <2>2
<1>1. ASSUME UNCHANGED <<codes, tried, logins>>,
             \A q \in Reqs : req'[q].at = "save" => req'[q] = req[q]
      PROVE  SavesCount'
  <2>1. ASSUME NEW q \in Reqs, req'[q].at = "save"
        PROVE  /\ req'[q].code \in DOMAIN codes' /\ req'[q].row.attempts <= tried'[req'[q].code]
               /\ req'[q].row.created_at <= clock'
    <3>1. req'[q] = req[q] /\ req[q].row.created_at \in Nat
      BY <1>1, <2>1, Kinds DEF Code
    <3>2. req[q].row.created_at <= clock
      BY <2>1, <3>1 DEF SavesCount
    <3>3. req[q].row.created_at <= clock'
      BY <1>0, <3>1, <3>2
    <3> QED
      BY <1>1, <2>1, <3>1, <3>3 DEF SavesCount
  <2>2. \A c \in DOMAIN codes : codes[c].created_at <= clock'
    <3> TAKE c \in DOMAIN codes
    <3>1. codes[c].created_at \in Nat /\ codes[c].created_at <= clock
      BY CodeFields DEF SavesCount
    <3> QED
      BY <1>0, <3>1
  <2> QED
    BY <1>1, <2>1, <2>2 DEF SavesCount
<1>2. ASSUME NEW r \in Reqs, NEW j, req' = [req EXCEPT ![r] = j], j.at # "save"
      PROVE  \A q \in Reqs : req'[q].at = "save" => req'[q] = req[q]
  BY <1>2 DEF TypeOK
<1>3. ASSUME NEW r \in Reqs, Arrive(r) \/ Allow(r) \/ RequestOTP(r) \/ VerifyRefused(r) \/ Fail(r)
      PROVE  SavesCount'
  <2>1. \E j : req' = [req EXCEPT ![r] = j] /\ j.at # "save"
    <3>1. CASE Allow(r)
      <4>1. req[r].route \in Route
        BY <3>1, Kinds, PhoneSignInAssumption DEF Allow
      <4> QED
        BY <3>1, <4>1 DEF Allow, Finish, Idle, Route
    <3> QED
      BY <1>3, <3>1 DEF Arrive, RequestOTP, VerifyRefused, Fail, Finish, Idle, Route
  <2>2. UNCHANGED <<codes, tried, logins>>
    BY <1>3 DEF Arrive, Allow, RequestOTP, VerifyRefused, Fail
  <2> QED
    BY <1>1, <1>2, <2>1, <2>2
<1>4. ASSUME NEW r \in Reqs, CreateOTPCode(r) PROVE SavesCount'
  <2> DEFINE n == Len(codes)
             new == [created_at |-> clock, attempts |-> 0, consumed |-> FALSE]
  <2>1. /\ codes' = Append(codes, new) /\ tried' = Append(tried, 0) /\ logins' = Append(logins, 0)
        /\ clock' = clock /\ \A q \in Reqs : req'[q].at = "save" => req'[q] = req[q]
    BY <1>2, <1>4 DEF CreateOTPCode, Finish, Idle
  <2>2. new \in Code
    BY DEF TypeOK, Code
  <2>3. new.created_at = clock /\ new.attempts = 0 /\ ~new.consumed
    OBVIOUS
  <2> HIDE DEF new
  <2>4. /\ n \in Nat /\ DOMAIN codes = 1 .. n /\ DOMAIN codes' = 1 .. n + 1
        /\ codes'[n + 1] = new /\ tried'[n + 1] = 0
        /\ \A c \in 1 .. n : codes'[c] = codes[c] /\ tried'[c] = tried[c] /\ logins'[c] = logins[c]
    BY <2>1, <2>2 DEF TypeOK
  <2>5. ASSUME NEW c \in 1 .. n + 1
        PROVE  /\ codes'[c].created_at <= clock' /\ codes'[c].attempts <= tried'[c]
               /\ codes'[c].consumed => logins'[c] > 0
    <3>1. CASE c \in 1 .. n
      BY <2>1, <2>4, <3>1 DEF SavesCount
    <3>2. CASE c = n + 1
      <4>1. codes'[c] = new /\ tried'[c] = 0
        BY <2>4, <3>2
      <4> QED
        BY <1>0, <2>1, <2>3, <4>1, 0 <= 0
    <3> QED
      BY <2>4, <3>1, <3>2
  <2>6. ASSUME NEW q \in Reqs, req'[q].at = "save"
        PROVE  /\ req'[q].code \in DOMAIN codes' /\ req'[q].row.attempts <= tried'[req'[q].code]
               /\ req'[q].row.created_at <= clock'
    <3>1. req'[q] = req[q] /\ req[q].at = "save"
      BY <2>1, <2>6
    <3>2. /\ req[q].code \in DOMAIN codes /\ req[q].row.attempts <= tried[req[q].code]
          /\ req[q].row.created_at <= clock
      BY <3>1 DEF SavesCount
    <3>3. req[q].code \in 1 .. n + 1 /\ tried'[req[q].code] = tried[req[q].code]
      BY <2>4, <3>2
    <3> QED
      BY <2>1, <2>4, <3>1, <3>2, <3>3
  <2> HIDE DEF n
  <2> QED
    BY <2>4, <2>5, <2>6 DEF SavesCount
<1>5. ASSUME NEW r \in Reqs, VerifyOTP(r) PROVE SavesCount'
  <2> DEFINE row(c) == [codes[c] EXCEPT !.attempts = @ + 1, !.consumed = @ \/ req[r].typed = c]
  <2>1. PICK c \in DOMAIN codes :
           /\ tried' = [tried EXCEPT ![c] = @ + 1]
           /\ req' = [req EXCEPT ![r] = [at |-> "save", code |-> c, row |-> row(c)]]
    BY <1>5 DEF VerifyOTP, LatestActiveOTPCode
  <2>2. codes' = codes /\ logins' = logins /\ clock' = clock
    BY <1>5 DEF VerifyOTP
  <2>3. /\ row(c).attempts = codes[c].attempts + 1 /\ row(c).created_at = codes[c].created_at
        /\ codes[c].attempts \in Nat
    BY CodeFields DEF Code
  <2> HIDE DEF row
  <2>4. \A d \in DOMAIN codes : tried[d] \in Nat /\ tried'[d] \in Nat /\ tried[d] <= tried'[d]
    BY SMTT(30), <2>1, CodeFields DEF TypeOK
  <2>5. tried'[c] = tried[c] + 1 /\ tried[c] \in Nat
    BY <2>1, CodeFields DEF TypeOK
  <2>6. ASSUME NEW d \in DOMAIN codes PROVE codes[d].attempts <= tried'[d]
    <3>1. codes[d].attempts <= tried[d] /\ codes[d].attempts \in Nat
      BY CodeFields DEF SavesCount
    <3> QED
      BY <2>4, <3>1
  <2>7. ASSUME NEW q \in Reqs, req'[q].at = "save"
        PROVE  /\ req'[q].code \in DOMAIN codes /\ req'[q].row.attempts <= tried'[req'[q].code]
               /\ req'[q].row.created_at <= clock
    <3>1. CASE q = r
      <4>1. req'[q] = [at |-> "save", code |-> c, row |-> row(c)]
        BY <2>1, <3>1 DEF TypeOK
      <4>2. req'[q].code = c /\ req'[q].row = row(c)
        BY <4>1
      <4> QED
        BY <2>3, <2>5, <4>2 DEF SavesCount
    <3>2. CASE q # r
      <4>1. req'[q] = req[q]
        BY <2>1, <3>2 DEF TypeOK
      <4>2. req[q].row.attempts \in Nat /\ req[q].code \in DOMAIN codes
        BY <2>7, <4>1, Kinds DEF Code, SavesCount
      <4> QED
        BY <2>4, <2>7, <4>1, <4>2 DEF SavesCount
    <3> QED
      BY <3>1, <3>2
  <2> QED
    BY <2>2, <2>6, <2>7 DEF SavesCount
<1>6. ASSUME NEW r \in Reqs, SaveOTPCode(r) PROVE SavesCount'
  <2> DEFINE c == req[r].code
             row == req[r].row
  <2>1. /\ req[r].at = "save" /\ codes' = [codes EXCEPT ![c] = row]
        /\ logins' = IF row.consumed THEN [logins EXCEPT ![c] = @ + 1] ELSE logins
        /\ tried' = tried /\ clock' = clock
        /\ \A q \in Reqs : req'[q].at = "save" => req'[q] = req[q]
    BY <1>2, <1>6 DEF SaveOTPCode, Finish, Idle
  <2>2. /\ c \in DOMAIN codes /\ row.attempts <= tried[c] /\ row.created_at <= clock
    BY <2>1 DEF SavesCount
  <2>3. /\ codes \in Seq(Code) /\ row \in Code
    BY <2>1, Kinds DEF TypeOK
  <2> HIDE DEF c, row
  <2>4. DOMAIN codes' = DOMAIN codes /\ codes'[c] = row /\ \A d \in DOMAIN codes \ {c} : codes'[d] = codes[d]
    BY <2>1, <2>2, <2>3
  <2>5. ASSUME NEW d \in DOMAIN codes, codes'[d].consumed PROVE logins'[d] > 0
    <3>1. d \in DOMAIN logins /\ logins[d] \in Nat /\ logins \in [DOMAIN logins -> Nat]
      BY SMTT(30), CodeFields DEF TypeOK
    <3>2. CASE d = c
      BY <2>1, <2>4, <2>5, <3>1, <3>2
    <3>3. CASE d # c
      BY <2>1, <2>4, <2>5, <3>1, <3>3 DEF SavesCount
    <3> QED
      BY <3>2, <3>3
  <2> QED
    BY <2>1, <2>2, <2>4, <2>5 DEF SavesCount
<1>7. CASE Tick \/ UNCHANGED vars \/ \E route \in Limited : Sweep(route)
  BY <1>1, <1>7 DEF Tick, vars, Sweep
<1> QED
  BY <1>3, <1>4, <1>5, <1>6, <1>7 DEF Next

(* The codes stay exact while requests do not use them at once. *)
LEMMA ExactKept ==
    ASSUME TypeOK, CodesExact, smooth' => smooth, clock' \in Nat, clock <= clock',
           UNCHANGED <<codes, tried, logins>>,
           \A q \in Reqs : req'[q].at \in {"create", "save"} <=> req[q].at \in {"create", "save"},
           \A q \in Reqs : req'[q].at \in {"create", "save"} => req'[q] = req[q]
    PROVE  CodesExact'
<1> SUFFICES ASSUME smooth' PROVE CodesExact'
  BY DEF CodesExact
<1>1. smooth /\ Deciding' = Deciding
  BY DEF Deciding
<1>2. \A q \in Reqs, c \in DOMAIN codes : Saves(q, c)' <=> Saves(q, c)
  BY DEF Saves
<1>3. ASSUME NEW q \in Reqs, req'[q].at = "create", NEW c \in DOMAIN codes, ~codes[c].consumed
      PROVE  clock' - codes[c].created_at >= OTPCooldown
  <2>1. clock - codes[c].created_at >= OTPCooldown
    BY <1>1, <1>3 DEF CodesExact
  <2>2. codes[c].created_at \in Nat /\ clock \in Nat /\ OTPCooldown \in Nat
    BY CodeFields, PhoneSignInAssumption DEF TypeOK
  <2> QED
    BY <2>1, <2>2
<1> QED
  BY <1>1, <1>2, <1>3 DEF CodesExact

(* One request of those that have read the codes writes and is done.       *)
LEMMA ExactNext ==
    ASSUME TypeOK, SavesCount, CodesExact, [Next]_vars PROVE CodesExact'
<1> SUFFICES ASSUME smooth' PROVE CodesExact'
  BY DEF CodesExact
<1>0. smooth /\ clock \in Nat /\ clock' \in Nat /\ clock <= clock'
  <2>1. smooth
    BY DEF Next, vars, Arrive, Allow, RequestOTP, CreateOTPCode, VerifyRefused, VerifyOTP,
       SaveOTPCode, Fail, Sweep, Tick
  <2>2. clock' = clock \/ clock' = clock + 1
    BY DEF Next, vars, Arrive, Allow, RequestOTP, CreateOTPCode, VerifyRefused, VerifyOTP,
       SaveOTPCode, Fail, Sweep, Tick
  <2>3. clock \in Nat
    BY DEF TypeOK
  <2> QED
    BY <2>1, <2>2, <2>3
<1>E. /\ \A r, q \in Deciding : r = q
      /\ \A c \in DOMAIN codes :
          /\ (\A r \in Reqs : ~Saves(r, c)) => tried[c] = codes[c].attempts
          /\ tried[c] <= OTPMaxAttempts
          /\ logins[c] = IF codes[c].consumed THEN 1 ELSE 0
          /\ \A d \in c + 1 .. Len(codes) :
                ~codes[c].consumed /\ ~codes[d].consumed
                => codes[d].created_at - codes[c].created_at >= OTPCooldown
      /\ \A r \in Reqs : req[r].at = "save" =>
          /\ tried[req[r].code] = codes[req[r].code].attempts + 1
          /\ ~codes[req[r].code].consumed
          /\ req[r].row.attempts = tried[req[r].code]
          /\ req[r].row.created_at = codes[req[r].code].created_at
      /\ \A r \in Reqs : req[r].at = "create" =>
          \A c \in DOMAIN codes :
                ~codes[c].consumed => clock - codes[c].created_at >= OTPCooldown
  BY <1>0 DEF CodesExact
<1>1. ASSUME NEW r \in Reqs,
             Arrive(r) \/ Allow(r) \/ VerifyRefused(r) \/ (RequestOTP(r) /\ Finish(r))
      PROVE  CodesExact'
  <2>1. req[r].at \notin {"create", "save"} /\ UNCHANGED <<codes, tried, logins>>
    <3>1. CASE Arrive(r)
      BY <3>1 DEF Arrive, Idle
    <3>2. CASE Allow(r)
      BY <3>2 DEF Allow
    <3>3. CASE VerifyRefused(r)
      BY <3>3 DEF VerifyRefused
    <3>4. CASE RequestOTP(r)
      BY <3>4 DEF RequestOTP
    <3> QED
      BY <1>1, <3>1, <3>2, <3>3, <3>4
  <2>2. /\ req'[r].at \notin {"create", "save"}
        /\ \A q \in Reqs \ {r} : req'[q] = req[q]
    <3>1. CASE Finish(r)
      BY <3>1 DEF Finish, Idle, TypeOK
    <3>2. CASE Arrive(r)
      <4>1. PICK route \in Route, typed \in 0 .. Len(codes) :
               req' = [req EXCEPT ![r] =
                    IF route \in Limited
                    THEN [at |-> "limiter", route |-> route, typed |-> typed, now |-> clock]
                    ELSE [at |-> route, typed |-> typed]]
        BY <3>2 DEF Arrive
      <4>2. req'[r].at \in {"limiter", "request", "verify"}
        BY <4>1 DEF Route, TypeOK
      <4> QED
        BY <4>1, <4>2 DEF TypeOK
    <3>3. CASE Allow(r) /\ ~Finish(r)
      <4>1. req[r].route \in Route
        BY <3>3, Kinds, PhoneSignInAssumption DEF Allow
      <4>2. req' = [req EXCEPT ![r] = [at |-> req[r].route, typed |-> req[r].typed]]
        BY <3>3 DEF Allow
      <4> QED
        BY <4>1, <4>2 DEF Route, TypeOK
    <3> QED
      BY <1>1, <3>1, <3>2, <3>3 DEF VerifyRefused
  <2> QED
    BY <1>0, <2>1, <2>2, ExactKept
<1>2. ASSUME NEW r \in Reqs, Fail(r) PROVE CodesExact'
  <2>1. /\ req' = [req EXCEPT ![r] = Idle] /\ req[r].at # "save"
        /\ UNCHANGED <<codes, tried, logins, clock>>
    BY <1>2 DEF Fail, Finish
  <2>2. \A q \in Reqs : req'[q].at \in {"create", "save"} => req'[q] = req[q]
    BY <2>1 DEF TypeOK, Idle
  <2>3. \A q \in Reqs, c \in DOMAIN codes : Saves(q, c)' <=> Saves(q, c)
    BY <2>1, <2>2 DEF TypeOK, Idle, Saves
  <2>4. Deciding' \subseteq Deciding
    BY <2>2 DEF Deciding
  <2> QED
    BY <1>E, <2>1, <2>2, <2>3, <2>4 DEF CodesExact
<1>3. ASSUME NEW r \in Reqs, RequestOTP(r), ~Finish(r) PROVE CodesExact'
  <2>1. /\ req[r].at = "request" /\ req' = [req EXCEPT ![r] = [at |-> "create"]]
        /\ ~\E c \in LatestActiveOTPCode : clock - codes[c].created_at < OTPCooldown
        /\ Deciding = {} /\ UNCHANGED <<codes, tried, logins, clock>>
    BY <1>3 DEF RequestOTP
  <2>2. \A q \in Reqs : req'[q].at # "save" /\ (req'[q].at = "create" => q = r)
    BY <2>1 DEF Deciding, TypeOK
  <2>3. \A q \in Reqs, c \in DOMAIN codes : ~Saves(q, c)' /\ ~Saves(q, c)
    BY <2>1, <2>2 DEF Saves, Deciding
  <2>4. \A q, s \in Deciding' : q = s
    BY <2>2 DEF Deciding
  <2>5. ASSUME NEW c \in DOMAIN codes, ~codes[c].consumed
        PROVE  clock - codes[c].created_at >= OTPCooldown
    <3>1. PICK d \in LatestActiveOTPCode : codes[c].created_at <= codes[d].created_at
      BY <2>5, LatestExists
    <3>2. codes[c].created_at \in Nat /\ codes[d].created_at \in Nat /\ OTPCooldown \in Nat
      BY CodeFields, PhoneSignInAssumption DEF LatestActiveOTPCode
    <3>3. ~(clock - codes[d].created_at < OTPCooldown)
      BY <2>1
    <3> QED
      BY <1>0, <3>1, <3>2, <3>3
  <2> QED
    BY <1>E, <2>1, <2>2, <2>3, <2>4, <2>5 DEF CodesExact
<1>4. ASSUME NEW r \in Reqs, CreateOTPCode(r) PROVE CodesExact'
  <2> DEFINE n == Len(codes)
             new == [created_at |-> clock, attempts |-> 0, consumed |-> FALSE]
  <2>1. /\ codes' = Append(codes, new) /\ tried' = Append(tried, 0) /\ logins' = Append(logins, 0)
        /\ clock' = clock /\ req[r].at = "create" /\ req' = [req EXCEPT ![r] = Idle]
    BY <1>4 DEF CreateOTPCode, Finish
  <2>2. \A q \in Reqs : req'[q].at \notin {"create", "save"} /\ (req[q].at \in {"create", "save"} => q = r)
    BY <1>E, <2>1 DEF Deciding, TypeOK, Idle
  <2>3. \A q \in Reqs : req[q].at # "save" /\ req'[q].at # "save"
    BY <2>1, <2>2
  <2>4. new \in Code /\ new.created_at = clock /\ new.attempts = 0 /\ ~new.consumed
    BY DEF TypeOK, Code
  <2> HIDE DEF new
  <2>5. /\ n \in Nat /\ DOMAIN codes = 1 .. n /\ DOMAIN codes' = 1 .. n + 1 /\ Len(codes') = n + 1
        /\ codes'[n + 1] = new /\ tried'[n + 1] = 0 /\ logins'[n + 1] = 0
        /\ \A c \in 1 .. n : codes'[c] = codes[c] /\ tried'[c] = tried[c] /\ logins'[c] = logins[c]
    BY <2>1, <2>4 DEF TypeOK
  <2> HIDE DEF n
  <2>6. ASSUME NEW c \in 1 .. n + 1
        PROVE  /\ tried'[c] = codes'[c].attempts /\ tried'[c] <= OTPMaxAttempts
               /\ logins'[c] = IF codes'[c].consumed THEN 1 ELSE 0
    <3>1. CASE c \in 1 .. n
      BY <1>E, <2>3, <2>5, <3>1 DEF Saves
    <3>2. CASE c = n + 1
      BY <2>4, <2>5, <3>2, PhoneSignInAssumption
    <3> QED
      BY <2>5, <3>1, <3>2
  <2>7. ASSUME NEW c \in 1 .. n + 1, NEW d \in c + 1 .. n + 1,
               ~codes'[c].consumed, ~codes'[d].consumed
        PROVE  codes'[d].created_at - codes'[c].created_at >= OTPCooldown
    <3>0. c \in 1 .. n /\ codes'[c] = codes[c]
      BY <2>5
    <3>1. CASE d \in 1 .. n
      <4>1. codes'[d] = codes[d] /\ d \in c + 1 .. n
        BY <2>5, <3>1
      <4> QED
        BY <1>E, <2>5, <2>7, <3>0, <4>1 DEF n
    <3>2. CASE d = n + 1
      BY <1>E, <2>1, <2>4, <2>5, <2>7, <3>0, <3>2
    <3> QED
      BY <2>5, <3>1, <3>2
  <2>8. \A q, s \in Deciding' : q = s
    BY <2>2 DEF Deciding
  <2> QED
    BY <2>2, <2>3, <2>5, <2>6, <2>7, <2>8 DEF CodesExact, Saves
<1>5. ASSUME NEW r \in Reqs, VerifyOTP(r) PROVE CodesExact'
  <2> DEFINE row(c) == [codes[c] EXCEPT !.attempts = @ + 1, !.consumed = @ \/ req[r].typed = c]
  <2>1. PICK c \in DOMAIN codes :
           /\ ~codes[c].consumed /\ ~Unusable(c)
           /\ tried' = [tried EXCEPT ![c] = @ + 1]
           /\ req' = [req EXCEPT ![r] = [at |-> "save", code |-> c, row |-> row(c)]]
    BY <1>5 DEF VerifyOTP, LatestActiveOTPCode
  <2>2. codes' = codes /\ logins' = logins /\ clock' = clock /\ Deciding = {}
    BY <1>5 DEF VerifyOTP
  <2>3. /\ row(c).attempts = codes[c].attempts + 1 /\ row(c).created_at = codes[c].created_at
        /\ codes[c].attempts \in Nat
    BY CodeFields DEF Code
  <2> HIDE DEF row
  <2>4. \A q \in Reqs : /\ req'[q].at # "create" /\ (req'[q].at = "save" => q = r)
                        /\ req[q].at # "save"
    BY <2>1, <2>2 DEF Deciding, TypeOK
  <2>5. req'[r].at = "save" /\ req'[r].code = c /\ req'[r].row = row(c)
    BY <2>1 DEF TypeOK
  <2>6. /\ tried'[c] = codes[c].attempts + 1 /\ tried[c] = codes[c].attempts
        /\ \A d \in DOMAIN codes \ {c} : tried'[d] = tried[d]
    BY <1>E, <2>1, <2>4, CodeFields DEF Saves, TypeOK
  <2>7. tried'[c] <= OTPMaxAttempts
    BY <2>1, <2>3, <2>6, PhoneSignInAssumption DEF Unusable
  <2>8. Saves(r, c)' /\ \A q, s \in Deciding' : q = s
    BY <2>4, <2>5 DEF Saves, Deciding
  <2>9. \A d \in DOMAIN codes \ {c} : tried'[d] = codes[d].attempts /\ tried'[d] <= OTPMaxAttempts
    BY <1>E, <2>4, <2>6 DEF Saves
  <2> QED
    BY <1>E, <2>1, <2>2, <2>3, <2>4, <2>5, <2>6, <2>7, <2>8, <2>9 DEF CodesExact
<1>6. ASSUME NEW r \in Reqs, SaveOTPCode(r) PROVE CodesExact'
  <2> DEFINE c == req[r].code
             row == req[r].row
  <2>1. /\ req[r].at = "save" /\ codes' = [codes EXCEPT ![c] = row]
        /\ logins' = IF row.consumed THEN [logins EXCEPT ![c] = @ + 1] ELSE logins
        /\ tried' = tried /\ clock' = clock /\ req' = [req EXCEPT ![r] = Idle]
    BY <1>6 DEF SaveOTPCode, Finish
  <2>2. /\ c \in DOMAIN codes /\ tried[c] = codes[c].attempts + 1 /\ ~codes[c].consumed
        /\ row.attempts = tried[c] /\ row.created_at = codes[c].created_at
    BY <1>E, <2>1 DEF SavesCount
  <2>3. codes \in Seq(Code) /\ row \in Code /\ row.consumed \in BOOLEAN
    BY <2>1, Kinds DEF TypeOK, Code
  <2>4. \A q \in Reqs : req'[q].at \notin {"create", "save"} /\ (req[q].at \in {"create", "save"} => q = r)
    BY <1>E, <2>1 DEF Deciding, TypeOK, Idle
  <2> HIDE DEF c, row
  <2>5. /\ DOMAIN codes' = DOMAIN codes /\ Len(codes') = Len(codes) /\ codes'[c] = row
        /\ \A d \in DOMAIN codes \ {c} : codes'[d] = codes[d]
    BY <2>1, <2>2, <2>3
  <2>6. logins[c] = 0 /\ c \in DOMAIN logins
    BY <1>E, <2>2, CodeFields
  <2>7. /\ logins'[c] = IF row.consumed THEN 1 ELSE 0
        /\ \A d \in DOMAIN codes \ {c} : logins'[d] = logins[d]
    BY <2>1, <2>6 DEF TypeOK
  <2>8. ASSUME NEW d \in DOMAIN codes
        PROVE  /\ tried'[d] = codes'[d].attempts /\ tried'[d] <= OTPMaxAttempts
               /\ logins'[d] = IF codes'[d].consumed THEN 1 ELSE 0
    <3>1. CASE d = c
      BY <1>E, <2>1, <2>2, <2>5, <2>7, <3>1
    <3>2. CASE d # c
      <4>1. \A q \in Reqs : ~Saves(q, d)
        BY <2>4, <3>2 DEF Saves, c
      <4> QED
        BY <1>E, <2>1, <2>5, <2>7, <3>2, <4>1
    <3> QED
      BY <3>1, <3>2
  <2>9. \A d \in DOMAIN codes : /\ codes'[d].created_at = codes[d].created_at
                                /\ ~codes'[d].consumed => ~codes[d].consumed
    BY <2>2, <2>5
  <2>10. ASSUME NEW d \in DOMAIN codes, NEW e \in d + 1 .. Len(codes),
                ~codes'[d].consumed, ~codes'[e].consumed
         PROVE  codes'[e].created_at - codes'[d].created_at >= OTPCooldown
    <3>1. e \in DOMAIN codes
      BY CodeFields DEF TypeOK
    <3> QED
      BY <1>E, <2>9, <2>10, <3>1
  <2>11. \A q, s \in Deciding' : q = s
    BY <2>4 DEF Deciding
  <2> QED
    BY <2>4, <2>5, <2>8, <2>10, <2>11 DEF CodesExact
<1>7. CASE Tick \/ UNCHANGED vars \/ \E route \in Limited : Sweep(route)
  BY <1>0, <1>7, ExactKept DEF Tick, vars, Sweep
<1> QED
  BY <1>1, <1>2, <1>3, <1>4, <1>5, <1>6, <1>7 DEF Next

-----------------------------------------------------------------------------
(* The theorems *)

(* The history in its windows and the codes with their savers: inductive.  *)
THEOREM Invariance == Spec => []IInv
<1>1. Init => IInv
  BY TypeInit, LimiterInit, CodesInit DEF IInv
<1>2. IInv /\ [Next]_vars => IInv'
  BY TypeNext, LimiterNext, SavesCountNext, ExactNext DEF IInv
<1> QED
  BY <1>1, <1>2, PTL DEF Spec

(* For a code: who saves it, at most one while codes are not used at once. *)
LEMMA Savers ==
    ASSUME TypeOK, CodesExact, smooth, NEW c \in DOMAIN codes
    PROVE  codes[c].attempts + Cardinality({r \in Reqs : req[r].at = "save" /\ req[r].code = c})
           = tried[c]
<1> DEFINE saving == {r \in Reqs : req[r].at = "save" /\ req[r].code = c}
<1>1. codes[c].attempts \in Nat /\ tried[c] \in Nat
  BY CodeFields
<1>2. ASSUME saving = {} PROVE codes[c].attempts + Cardinality(saving) = tried[c]
  <2>1. tried[c] = codes[c].attempts
    BY <1>2 DEF CodesExact, Saves
  <2> HIDE DEF saving
  <2>2. Cardinality(saving) = 0
    BY <1>2, FS_EmptySet
  <2> QED
    BY <1>1, <2>1, <2>2
<1>3. ASSUME NEW r \in saving PROVE codes[c].attempts + Cardinality(saving) = tried[c]
  <2>1. saving = {r}
    BY <1>3 DEF CodesExact, Deciding
  <2>2. tried[c] = codes[c].attempts + 1
    BY <1>3 DEF CodesExact
  <2> HIDE DEF saving
  <2>3. Cardinality(saving) = 1
    BY <2>1, FS_Singleton
  <2> QED
    BY <1>1, <2>2, <2>3
<1> HIDE DEF saving
<1>4. codes[c].attempts + Cardinality(saving) = tried[c]
  BY <1>2, <1>3
<1> QED
  BY <1>4 DEF saving

(* However many requests ask for and verify codes at once, no code's        *)
(* counter runs ahead of its tries and a used code has signed in; and as    *)
(* long as they do not overlap the counter is exact, stops at the maximum,  *)
(* and the code signs in once (VerifyOTP, RequestOTP).                      *)
THEOREM CodesSafety == Spec => []CodesAccountedFor
<1>1. ASSUME IInv PROVE CodesAccountedFor
  <2> USE <1>1 DEF IInv
  <2> SUFFICES ASSUME NEW c \in DOMAIN codes
               PROVE  /\ codes[c].attempts <= tried[c]
                      /\ codes[c].consumed => logins[c] > 0
                      /\ smooth =>
                          /\ codes[c].attempts + Cardinality(
                                {r \in Reqs : req[r].at = "save" /\ req[r].code = c}) = tried[c]
                          /\ tried[c] <= OTPMaxAttempts
                          /\ logins[c] <= 1
                          /\ logins[c] = 1 => codes[c].consumed
                          /\ \A d \in c + 1 .. Len(codes) :
                               ~codes[c].consumed /\ ~codes[d].consumed
                               => codes[d].created_at - codes[c].created_at >= OTPCooldown
    BY DEF CodesAccountedFor
  <2>1. codes[c].attempts <= tried[c] /\ (codes[c].consumed => logins[c] > 0)
    BY DEF SavesCount
  <2>2. ASSUME smooth
        PROVE  /\ tried[c] <= OTPMaxAttempts
               /\ logins[c] = IF codes[c].consumed THEN 1 ELSE 0
               /\ \A d \in c + 1 .. Len(codes) :
                    ~codes[c].consumed /\ ~codes[d].consumed
                    => codes[d].created_at - codes[c].created_at >= OTPCooldown
    BY <2>2 DEF CodesExact
  <2>3. ASSUME smooth PROVE logins[c] <= 1 /\ (logins[c] = 1 => codes[c].consumed)
    BY <2>2, <2>3
  <2> QED
    BY <2>1, <2>2, <2>3, Savers
<1> QED
  BY <1>1, Invariance, PTL

(* Hits counted at once in a span shorter than a window by the longest wait. *)
OnTime(H, t) ==
    {i \in DOMAIN H : AtOnce(H[i]) /\ t <= H[i].read /\ H[i].read <= t + Window - MaxLag}

(* The facts of a history that its bounds rest on. *)
LEMMA Windows ==
    ASSUME NEW H \in Seq(Row), HitsInWindows(H), HitsInOrder(H, clock), WindowsApart(H),
           NEW i \in DOMAIN H
    PROVE  /\ i \in 1 .. Len(H) /\ Len(H) \in Nat /\ DOMAIN H = 1 .. Len(H)
           /\ H[i].read \in Nat /\ H[i].counted \in Nat /\ H[i].window \in 1 .. Len(H)
           /\ H[i].window \in 1 .. i /\ i < H[i].window + Limit
           /\ H[H[i].window].window = H[i].window
           /\ H[i].read <= H[i].counted /\ H[i].counted <= H[i].read + MaxLag
           /\ \A j \in i .. Len(H) : H[i].window <= H[j].window /\ H[i].counted <= H[j].counted
<1>1. Len(H) \in Nat /\ DOMAIN H = 1 .. Len(H)
  BY RowFields
<1>2. H[i].read \in Nat /\ H[i].counted \in Nat /\ H[i].window \in Nat
  BY <1>1, RowFields
<1>3. /\ H[i].window \in 1 .. i /\ i < H[i].window + Limit
      /\ H[H[i].window].window = H[i].window
      /\ \A j \in i .. Len(H) : H[i].window <= H[j].window
  BY DEF HitsInWindows
<1>4. /\ H[i].read <= H[i].counted /\ H[i].counted <= H[i].read + MaxLag
      /\ \A j \in i .. Len(H) : H[i].counted <= H[j].counted
  BY DEF HitsInOrder
<1> QED
  BY <1>1, <1>2, <1>3, <1>4

(* No third window was opened between those of two hits of a span. *)
LEMMA NoneBetween ==
    ASSUME NEW H \in Seq(Row), HitsInWindows(H), HitsInOrder(H, clock), WindowsApart(H),
           NEW t \in Nat, NEW i \in OnTime(H, t), NEW j \in OnTime(H, t),
           NEW m \in DOMAIN H, H[m].window = m, H[i].window < m, m < H[j].window
    PROVE  FALSE
<1>0. Window \in Nat /\ MaxLag \in Nat
  BY PhoneSignInAssumption
<1>1. /\ i \in DOMAIN H /\ j \in DOMAIN H /\ AtOnce(H[i]) /\ AtOnce(H[j])
      /\ t <= H[i].read /\ H[j].read <= t + Window - MaxLag
  BY DEF OnTime
<1> DEFINE b == H[j].window
<1>2. /\ Len(H) \in Nat /\ DOMAIN H = 1 .. Len(H)
      /\ i \in 1 .. Len(H) /\ j \in 1 .. Len(H) /\ m \in 1 .. Len(H)
      /\ b \in 1 .. j /\ H[b].window = b
  BY <1>1, Windows
<1>3. i \in 1 .. m - 1
  <2>1. CASE i >= m
    <3>1. i \in m .. Len(H)
      BY <1>2, <2>1
    <3>2. H[m].window <= H[i].window /\ H[i].window \in Nat
      BY <1>1, <3>1, Windows
    <3> QED
      BY <1>2, <3>2
  <2> QED
    BY <1>2, <2>1
<1>4. H[i].counted < H[m].counted
  BY <1>1, <1>3 DEF WindowsApart
<1>5. H[j].read >= H[m].read + Window
  <2>1. m < b /\ b = H[j].window
    OBVIOUS
  <2> HIDE DEF b
  <2>2. m \in Nat /\ b \in Nat /\ j \in Nat /\ 1 <= m /\ b <= j /\ j <= Len(H) /\ 1 <= b
    BY <1>2
  <2>3. m \in 1 .. b - 1
    BY <2>1, <2>2
  <2>4. j \in b .. Len(H) /\ b \in 1 .. Len(H)
    BY <1>2, <2>2
  <2>5. b \in DOMAIN H
    BY <1>2, <2>4
  <2>6. \A o \in 1 .. b - 1, k \in b .. Len(H) :
          H[o].window = o /\ AtOnce(H[k]) => H[k].read >= H[o].read + Window
    BY <1>2, <2>5 DEF WindowsApart
  <2> QED
    BY <1>1, <2>3, <2>4, <2>6
<1>6. H[i].read = H[i].counted
  BY <1>1 DEF AtOnce
<1>7. /\ H[m].counted <= H[m].read + MaxLag /\ H[m].read \in Nat /\ H[m].counted \in Nat
      /\ H[i].read \in Nat /\ H[j].read \in Nat
  BY <1>1, Windows
<1> HIDE DEF b
<1>8. H[m].read + Window <= t + Window - MaxLag
  BY SMTT(30), <1>0, <1>1, <1>5, <1>7
<1>9. t < H[m].read + MaxLag
  BY SMTT(30), <1>0, <1>1, <1>4, <1>6, <1>7
<1> QED
  BY <1>0, <1>7, <1>8, <1>9

(* A window's hits are no more than the limit. *)
LEMMA LimitedInterval ==
    ASSUME NEW a \in Nat
    PROVE  /\ IsFiniteSet(a .. a + Limit - 1) /\ Cardinality(a .. a + Limit - 1) = Limit
           /\ Limit \in Nat \ {0} /\ a \in a .. a + Limit - 1
<1>1. Limit \in Nat \ {0}
  BY PhoneSignInAssumption
<1>2. a \in Int /\ a + Limit - 1 \in Int /\ ~(a > a + Limit - 1) /\ a + Limit - 1 - a + 1 = Limit
  BY <1>1
<1> QED
  BY <1>1, <1>2, FS_Interval

(* A span that holds hits of two windows lacks one of their openers. *)
LEMMA TwoWindows ==
    ASSUME NEW H \in Seq(Row), HitsInWindows(H), HitsInOrder(H, clock), WindowsApart(H),
           NEW t \in Nat, NEW i \in OnTime(H, t), NEW j \in OnTime(H, t),
           H[i].window < H[j].window
    PROVE  Cardinality(OnTime(H, t)) <= 2 * Limit - 1
<1> DEFINE S == OnTime(H, t)
           a == H[i].window
           b == H[j].window
           A == a .. a + Limit - 1
           B == b .. b + Limit - 1
<1>0. Window \in Nat /\ MaxLag \in Nat \ {0} /\ Limit \in Nat \ {0}
  BY PhoneSignInAssumption
<1>1. /\ a \in DOMAIN H /\ b \in DOMAIN H /\ H[a].window = a /\ H[b].window = b
      /\ a \in 1 .. Len(H) /\ b \in 1 .. Len(H) /\ Len(H) \in Nat
      /\ \A k \in S : k \in DOMAIN H
  BY Windows DEF OnTime
<1>2. ASSUME NEW k \in S PROVE k \in A \cup B
  <2> DEFINE c == H[k].window
  <2>1. /\ c \in DOMAIN H /\ H[c].window = c /\ c \in 1 .. k /\ k < c + Limit /\ c \in Nat
        /\ k \in Nat
    BY <1>1, <1>2, Windows
  <2>2. ~(c < a) /\ ~(a < c /\ c < b) /\ ~(b < c)
    BY <1>1, <1>2, <2>1, NoneBetween
  <2> HIDE DEF c, a, b
  <2>3. c = a \/ c = b
    BY <1>1, <2>1, <2>2
  <2> QED
    BY <1>0, <1>1, <2>1, <2>3
<1>3. ~(a \in S /\ b \in S)
  <2> SUFFICES ASSUME a \in S, b \in S PROVE FALSE
    OBVIOUS
  <2>1. /\ t <= H[a].read /\ H[b].read <= t + Window - MaxLag /\ AtOnce(H[b])
        /\ H[a].read \in Nat /\ H[b].read \in Nat
    BY <1>1, Windows DEF OnTime
  <2>2. a \in 1 .. b - 1 /\ b \in b .. Len(H)
    BY <1>1
  <2> HIDE DEF a, b
  <2>3. H[b].read >= H[a].read + Window
    BY <1>1, <2>1, <2>2 DEF WindowsApart
  <2> QED
    BY <1>0, <2>1, <2>3
<1>4. PICK x \in {a, b} : x \notin S
  BY <1>3
<1> HIDE DEF a, b
<1>5. /\ IsFiniteSet(A) /\ Cardinality(A) = Limit /\ a \in A
      /\ IsFiniteSet(B) /\ Cardinality(B) = Limit /\ b \in B
  <2>1. a \in Nat /\ b \in Nat
    BY <1>1
  <2>2. IsFiniteSet(A) /\ Cardinality(A) = Limit /\ a \in A
    BY <2>1, LimitedInterval
  <2>3. IsFiniteSet(B) /\ Cardinality(B) = Limit /\ b \in B
    BY <2>1, LimitedInterval
  <2> QED
    BY <2>2, <2>3
<1> HIDE DEF A, B, S
<1>6. IsFiniteSet(A \cup B) /\ Cardinality(A \cup B) <= 2 * Limit /\ Cardinality(A \cup B) \in Nat
  <2>1. IsFiniteSet(A \cap B) /\ Cardinality(A \cap B) \in Nat
    BY <1>5, FS_Intersection, FS_CardinalityType
  <2>2. Cardinality(A \cup B) = Cardinality(A) + Cardinality(B) - Cardinality(A \cap B)
        /\ IsFiniteSet(A \cup B)
    BY <1>5, FS_Union
  <2> QED
    BY <1>0, <1>5, <2>1, <2>2, FS_CardinalityType
<1>7. x \in A \cup B /\ S \in SUBSET ((A \cup B) \ {x})
  BY <1>2, <1>4, <1>5
<1>8. IsFiniteSet((A \cup B) \ {x}) /\ Cardinality((A \cup B) \ {x}) = Cardinality(A \cup B) - 1
  BY <1>6, <1>7, FS_RemoveElement
<1>9. Cardinality(S) <= Cardinality((A \cup B) \ {x}) /\ Cardinality(S) \in Nat
  BY <1>7, <1>8, FS_Subset, FS_CardinalityType
<1>10. Cardinality(S) <= 2 * Limit - 1
  BY <1>0, <1>6, <1>8, <1>9
<1> QED
  BY <1>10 DEF S

LEMMA SpanBounded ==
    ASSUME NEW H \in Seq(Row), HitsInWindows(H), HitsInOrder(H, clock), WindowsApart(H),
           NEW t \in Nat
    PROVE  Cardinality(OnTime(H, t)) <= 2 * Limit - 1
<1> DEFINE S == OnTime(H, t)
<1>0. Limit \in Nat \ {0}
  BY PhoneSignInAssumption
<1>1. CASE S = {}
  <2> HIDE DEF S
  <2>1. Cardinality(S) = 0
    BY <1>1, FS_EmptySet
  <2> QED
    BY <1>0, <2>1 DEF S
<1>2. CASE \E i, j \in S : H[i].window < H[j].window
  BY <1>2, TwoWindows
<1>3. ASSUME NEW i \in S, ~\E k, j \in S : H[k].window < H[j].window
      PROVE  Cardinality(S) <= 2 * Limit - 1
  <2> DEFINE a == H[i].window
             A == a .. a + Limit - 1
  <2>1. a \in Nat /\ \A k \in S : k \in DOMAIN H /\ H[k].window \in Nat
    BY Windows DEF OnTime
  <2>2. \A k \in S : H[k].window = a
    BY <1>3, <2>1
  <2>3. \A k \in S : k \in a .. k /\ k < a + Limit /\ k \in Nat
    <3> TAKE k \in S
    <3>1. H[k].window \in 1 .. k /\ k < H[k].window + Limit /\ k \in Nat
      BY <2>1, Windows
    <3> HIDE DEF a, S
    <3> QED
      BY <2>1, <2>2, <3>1
  <2> HIDE DEF a, S
  <2>4. S \in SUBSET A
    BY <1>0, <2>1, <2>3
  <2>5. IsFiniteSet(A) /\ Cardinality(A) = Limit
    BY <2>1, LimitedInterval
  <2> HIDE DEF A
  <2>6. Cardinality(S) <= Limit /\ Cardinality(S) \in Nat
    BY <2>4, <2>5, FS_Subset, FS_CardinalityType
  <2> QED
    BY <1>0, <2>6
<1> QED
  BY <1>1, <1>2, <1>3

(* A full window that is open at now: its hits were counted within it. *)
LEMMA FullWindow ==
    ASSUME NEW H \in Seq(Row), NEW w \in Bucket \cup {NoWindow}, HistoryOK(H, w, clock),
           WindowsApart(H), NEW now \in Nat, ~Expired(w, now), Full(w)
    PROVE  Cardinality({i \in DOMAIN H : H[i].counted > now - Window}) >= Limit
<1> DEFINE n == Len(H)
           k == H[n].window
           T == {i \in DOMAIN H : H[i].counted > now - Window}
<1>0. Window \in Nat /\ Limit \in Nat /\ n \in Nat /\ DOMAIN H = 1 .. n
  BY PhoneSignInAssumption, RowFields
<1>1. w # NoWindow /\ ~(now - w.start >= Window) /\ w.count >= Limit
  BY DEF Expired, Full
<1>2. n > 0 /\ w.start = H[k].read /\ w.count = n - k + 1
  BY <1>1 DEF HistoryOK, BucketIsLast
<1>3. /\ k \in 1 .. n /\ H[k].read \in Nat /\ H[k].counted \in Nat /\ H[k].read <= H[k].counted
      /\ \A i \in k .. n : H[k].counted <= H[i].counted
  <2>1. n \in DOMAIN H /\ HitsInWindows(H) /\ HitsInOrder(H, clock)
    BY <1>0, <1>2 DEF HistoryOK
  <2>2. k \in 1 .. n
    BY <2>1, Windows
  <2> HIDE DEF k
  <2>3. k \in DOMAIN H
    BY <1>0, <2>2
  <2> QED
    BY <2>1, <2>2, <2>3, Windows
<1>4. \A i \in k .. n : i \in DOMAIN H /\ H[i].counted \in Nat
  BY <1>0, <1>3, RowFields
<1> HIDE DEF k, n
<1>5. H[k].counted > now - Window
  BY <1>0, <1>1, <1>2, <1>3
<1>6. k .. n \in SUBSET T
  <2> SUFFICES ASSUME NEW i \in k .. n PROVE i \in DOMAIN H /\ H[i].counted > now - Window
    OBVIOUS
  <2> QED
    BY <1>0, <1>3, <1>4, <1>5
<1>7. IsFiniteSet(1 .. n) /\ IsFiniteSet(k .. n) /\ Cardinality(k .. n) = n - k + 1
  BY <1>0, <1>3, FS_Interval
<1>8. IsFiniteSet(T)
  BY <1>0, <1>7, FS_Subset
<1> HIDE DEF T
<1>9. n - k + 1 <= Cardinality(T) /\ Cardinality(T) \in Nat
  BY <1>6, <1>7, <1>8, FS_Subset, FS_CardinalityType
<1>10. Cardinality(T) >= Limit
  BY <1>0, <1>1, <1>2, <1>3, <1>9
<1> QED
  BY <1>10 DEF T

(* Whatever the limits and however requests and sweeps interleave: a span   *)
(* shorter than a window by the longest wait holds fewer than twice the     *)
(* limit of the requests counted at once, and a request is turned away only *)
(* if the limit was used up within a window of its time (Limiter.Allow).    *)
THEOREM LimiterSafety == Spec => []LimitRespected
<1>1. ASSUME IInv PROVE LimitRespected
  <2> SUFFICES ASSUME NEW route \in Route
               PROVE  /\ \A t \in 0 .. clock : Cardinality({i \in DOMAIN hits[route] :
                            LET h == hits[route][i]
                            IN  h.read = h.counted /\ t <= h.read /\ h.read <= t + Window - MaxLag})
                         <= 2 * Limit - 1
                      /\ \A r \in Reqs :
                           (req[r].at = "limiter" /\ req[r].route = route) =>
                           LET now == req[r].now
                               w   == buckets[route]
                           IN  ~Expired(w, now) /\ Full(w)
                               => Cardinality({i \in DOMAIN hits[route] :
                                       hits[route][i].counted > now - Window}) >= Limit
    BY DEF LimitRespected
  <2> DEFINE H == hits[route]
  <2>1. /\ H \in Seq(Row) /\ buckets[route] \in Bucket \cup {NoWindow}
        /\ HistoryOK(H, buckets[route], clock)
    BY <1>1 DEF IInv, TypeOK, LimiterOK, RouteOK
  <2>2. HitsInWindows(H) /\ HitsInOrder(H, clock) /\ WindowsApart(H)
    BY <2>1 DEF HistoryOK
  <2>3. \A t \in 0 .. clock : Cardinality(OnTime(H, t)) <= 2 * Limit - 1
    BY <2>1, <2>2, SpanBounded
  <2>4. \A t \in 0 .. clock : OnTime(H, t) = {i \in DOMAIN H :
            LET h == H[i] IN h.read = h.counted /\ t <= h.read /\ h.read <= t + Window - MaxLag}
    BY DEF OnTime, AtOnce
  <2>5. ASSUME NEW r \in Reqs, req[r].at = "limiter", req[r].route = route,
               ~Expired(buckets[route], req[r].now), Full(buckets[route])
        PROVE  Cardinality({i \in DOMAIN H : H[i].counted > req[r].now - Window}) >= Limit
    <3>1. req[r].now \in Nat
      BY <1>1, <2>5, Kinds DEF IInv
    <3> HIDE DEF H
    <3> QED
      BY <2>1, <2>2, <2>5, <3>1, FullWindow
  <2> QED
    BY <2>3, <2>4, <2>5
<1> QED
  BY <1>1, Invariance, PTL
=============================================================================
