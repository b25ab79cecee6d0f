----------------------------- MODULE Onboarding -----------------------------
(***************************************************************************)
(* How a washing point joins the network: connection requests              *)
(* (internal/connectionrequest), the creation of points                    *)
(* (internal/washingpoint), their logins (internal/user/provision.go) and  *)
(* the first schedule and boxes (SeedDefault of internal/schedule and      *)
(* internal/box).                                                          *)
(*                                                                         *)
(* Only a point and its two logins are created in one transaction; every   *)
(* other statement stands alone, and rows of connection_requests and       *)
(* washing_points are written back whole from an earlier read.  All points *)
(* have the same name, the worst case for user names.  Whether address and *)
(* boxes_count are filled in is one flag; the other fields are data.       *)
(***************************************************************************)
EXTENDS Naturals, FiniteSets

CONSTANTS
    Applications,   \* ids of connection requests; bounds how many there are
    Points,         \* ids of washing points; bounds how many there are
    Phones,
    Reqs,           \* concurrently running requests
    None,           \* no row, no reference
    BoxesCount,     \* boxes_count of every point
    MaxLogins       \* bound on the suffix of a user name

Role == {"staff", "worker"}
PointStatus == {"active", "inactive"}      \* paused and pending_review are inactive

AppRow == [status : {"new", "approved", "rejected"}, full : BOOLEAN, phone : Phones]

PointRow ==
    [status : PointStatus, from : Applications \cup {None}, owner : Phones \cup {None}]

ASSUME OnboardingAssumption ==
    /\ BoxesCount \in Nat \ {0} /\ MaxLogins \in Nat
    /\ None \notin Applications \cup Points \cup Phones \cup AppRow \cup PointRow

VARIABLES
    app,        \* table connection_requests
    owners,     \* contact phones in table owners
    point,      \* table washing_points, with the application a point is for
    week,       \* points with a schedule
    boxes,      \* boxes of each point
    users,      \* logins of points in table users
    pc,         \* where each request stands
    job,        \* what it has read and will write
    activated,  \* points an admin created as active or made active
    disturbed   \* two requests overlapped or a statement failed

vars == <<app, owners, point, week, boxes, users, pc, job, activated, disturbed>>

Idle == [app |-> None, row |-> None, then |-> "idle", point |-> None,
         status |-> "inactive", chosen |-> FALSE, names |-> {}]

(* Migration 000016 gave the points that were there before a schedule;     *)
(* they have no logins.                                                    *)
Init ==
    /\ app = [a \in Applications |-> None]
    /\ owners = {}
    /\ \E old \in SUBSET Points :
          /\ point = [p \in Points |->
                IF p \in old THEN [status |-> "active", from |-> None, owner |-> None] ELSE None]
          /\ week = old
          /\ boxes = [p \in Points |-> IF p \in old THEN BoxesCount ELSE 0]
          /\ activated = old
    /\ users = {}
    /\ pc = [r \in Reqs |-> "idle"]
    /\ job = [r \in Reqs |-> Idle]
    /\ disturbed = FALSE

Busy == \E r \in Reqs : pc[r] # "idle"

Begin(r, step, j) ==
    /\ pc[r] = "idle"
    /\ pc' = [pc EXCEPT ![r] = step]
    /\ job' = [job EXCEPT ![r] = j]
    /\ disturbed' = (disturbed \/ Busy)

Advance(r, step, j) ==
    /\ pc' = [pc EXCEPT ![r] = step]
    /\ job' = [job EXCEPT ![r] = j]
    /\ UNCHANGED disturbed

Finish(r) == Advance(r, "idle", Idle)

-----------------------------------------------------------------------------
(* Connection requests *)

(* The public form: a phone that already waits in the queue is not stored  *)
(* again.                                                                  *)
Apply(r, phone, full) ==
    /\ \A a \in Applications : app[a] # None =>
          ~(app[a].phone = phone /\ app[a].status = "new")
    /\ Begin(r, "insert", [Idle EXCEPT
             !.row = [status |-> "new", full |-> full, phone |-> phone]])
    /\ UNCHANGED <<app, owners, point, week, boxes, users, activated>>

(* The admin's form requires every detail and looks for no duplicate. *)
Create(r, phone) ==
    /\ Begin(r, "insert", [Idle EXCEPT
             !.row = [status |-> "new", full |-> TRUE, phone |-> phone]])
    /\ UNCHANGED <<app, owners, point, week, boxes, users, activated>>

Insert(r) ==
    /\ pc[r] = "insert"
    /\ \E a \in Applications :
          app[a] = None /\ app' = [app EXCEPT ![a] = job[r].row]
    /\ Finish(r)
    /\ UNCHANGED <<owners, point, week, boxes, users, activated>>

(* PATCH with edits: refused once reviewed, else the row is saved whole... *)
Edit(r, a, phone, full, then) ==
    /\ app[a] # None /\ app[a].status = "new"
    /\ Begin(r, "save", [Idle EXCEPT
             !.app = a, !.then = then,
             !.row = [app[a] EXCEPT !.phone = phone, !.full = full]])
    /\ UNCHANGED <<app, owners, point, week, boxes, users, activated>>

(* ... and then approved or rejected, if the body asks for it.             *)
Save(r) ==
    /\ pc[r] = "save"
    /\ app' = [app EXCEPT ![job[r].app] = job[r].row]
    /\ \/ job[r].then # "idle" /\ Advance(r, job[r].then, [Idle EXCEPT !.app = job[r].app])
       \/ job[r].then = "idle" /\ Finish(r)
    /\ UNCHANGED <<owners, point, week, boxes, users, activated>>

Review(r, a, verdict) ==
    /\ app[a] # None
    /\ Begin(r, verdict, [Idle EXCEPT !.app = a])
    /\ UNCHANGED <<app, owners, point, week, boxes, users, activated>>

MutApproveAgain(r) ==
    LET row == app[job[r].app]
    IN  /\ pc[r] = "approve"
        /\ \/ row.full /\ Advance(r, "owner", [job[r] EXCEPT !.row = row])
           \/ ~row.full /\ Finish(r)
        /\ UNCHANGED <<app, owners, point, week, boxes, users, activated>>

(* Approve: the request must be new and complete. *)
Approve(r) ==
    LET row == app[job[r].app]
        ok  == row.status = "new" /\ row.full
    IN  /\ pc[r] = "approve"
        /\ \/ ok /\ Advance(r, "owner", [job[r] EXCEPT !.row = row])
           \/ ~ok /\ Finish(r)
        /\ UNCHANGED <<app, owners, point, week, boxes, users, activated>>

(* An owner with the same phone is used again. *)
FindOrCreateOwner(r) ==
    /\ pc[r] = "owner"
    /\ owners' = owners \cup {job[r].row.phone}
    /\ Advance(r, "names", [job[r] EXCEPT !.row.status = "approved"])
    /\ UNCHANGED <<app, point, week, boxes, users, activated>>

Reject(r) ==
    LET row == app[job[r].app]
    IN  /\ pc[r] = "reject"
        /\ \/ /\ row.status = "new"
              /\ Advance(r, "mark", [job[r] EXCEPT !.row = [row EXCEPT !.status = "rejected"]])
           \/ row.status # "new" /\ Finish(r)
        /\ UNCHANGED <<app, owners, point, week, boxes, users, activated>>

(* The last statement of Approve and Reject: the row read at the start,    *)
(* with its new status.                                                    *)
Mark(r) ==
    /\ pc[r] = "mark"
    /\ app' = [app EXCEPT ![job[r].app] = job[r].row]
    /\ Finish(r)
    /\ UNCHANGED <<owners, point, week, boxes, users, activated>>

-----------------------------------------------------------------------------
(* Points and their logins *)

(* POST /washing-points; an approved request goes through the same steps.  *)
CreatePoint(r, status) ==
    /\ Begin(r, "names", [Idle EXCEPT !.status = status])
    /\ UNCHANGED <<app, owners, point, week, boxes, users, activated>>

Taken(role) == {u.suffix : u \in {v \in users : v.role = role}}

(* base, base-2, base-3, ...: the first one no committed user has.         *)
UniqueUsername(role, n) ==
    n \notin Taken(role) /\ \A k \in 1 .. n - 1 : k \in Taken(role)

(* The transaction reads before it writes; a concurrent one may read the   *)
(* same.  createCredentials (a point is given) makes one login.            *)
PickNames(r) ==
    /\ pc[r] = "names"
    /\ \E s, w \in 1 .. MaxLogins :
          /\ UniqueUsername("staff", s) /\ UniqueUsername("worker", w)
          /\ Advance(r, "commit", [job[r] EXCEPT !.names =
                IF job[r].then = "staff" THEN {<<"staff", s>>}
                ELSE IF job[r].then = "worker" THEN {<<"worker", w>>}
                ELSE {<<"staff", s>>, <<"worker", w>>}])
    /\ UNCHANGED <<app, owners, point, week, boxes, users, activated>>

(* idx_users_username refuses a name that was committed in between.        *)
IndexRefuses(names) == \E n \in names : n[2] \in Taken(n[1])

(* A person gives a point its status. *)
Decide(p, s) == activated' = IF s = "active" THEN activated \cup {p} ELSE activated

Logins(p, names) == {[point |-> p, role |-> n[1], suffix |-> n[2]] : n \in names}

CreateWithAccounts(r) ==
    /\ pc[r] = "commit" /\ job[r].point = None
    /\ ~IndexRefuses(job[r].names)
    /\ \E p \in Points :
          /\ point[p] = None
          /\ point' = [point EXCEPT ![p] =
                [status |-> job[r].status, from |-> job[r].app,
                 owner |-> IF job[r].app = None THEN None ELSE job[r].row.phone]]
          /\ users' = users \cup Logins(p, job[r].names)
          /\ Decide(p, job[r].status)
          /\ Advance(r, "week", [job[r] EXCEPT !.point = p])
    /\ UNCHANGED <<app, owners, week, boxes>>

SeedSchedule(r) ==
    /\ pc[r] = "week"
    /\ week' = week \cup {job[r].point}
    /\ Advance(r, "boxes", job[r])
    /\ UNCHANGED <<app, owners, point, boxes, users, activated>>

MutMarkEarly(r) ==
    /\ pc[r] = "boxes"
    /\ boxes' = [boxes EXCEPT ![job[r].point] = @ + 1]
    /\ \/ job[r].app # None /\ Advance(r, "mark", job[r])
       \/ job[r].app = None /\ Finish(r)
    /\ UNCHANGED <<app, owners, point, week, users, activated>>

(* One INSERT for each box; then an approved request is marked.            *)
SeedBox(r) ==
    LET n == boxes[job[r].point] + 1
    IN  /\ pc[r] = "boxes"
        /\ boxes' = [boxes EXCEPT ![job[r].point] = n]
        /\ \/ n < BoxesCount /\ Advance(r, "boxes", job[r])
           \/ n >= BoxesCount /\ job[r].app # None /\ Advance(r, "mark", job[r])
           \/ n >= BoxesCount /\ job[r].app = None /\ Finish(r)
        /\ UNCHANGED <<app, owners, point, week, users, activated>>

(* createCredentials: 409 if the point already has a login of that role.   *)
CreateCredentials(r, p, role) ==
    /\ point[p] # None
    /\ \A u \in users : ~(u.point = p /\ u.role = role)
    /\ Begin(r, "names", [Idle EXCEPT !.point = p, !.then = role])
    /\ UNCHANGED <<app, owners, point, week, boxes, users, activated>>

ProvisionAccount(r) ==
    /\ pc[r] = "commit" /\ job[r].point # None
    /\ ~IndexRefuses(job[r].names)
    /\ users' = users \cup Logins(job[r].point, job[r].names)
    /\ Finish(r)
    /\ UNCHANGED <<app, owners, point, week, boxes, activated>>

MutStaffSetStatus(r, p) ==
    /\ point[p] # None
    /\ \E s \in PointStatus : Begin(r, "patch", [Idle EXCEPT !.point = p, !.status = s])
    /\ UNCHANGED <<app, owners, point, week, boxes, users, activated>>

(* PATCH of a point without a status, by its staff or an admin: the row is *)
(* written back with the status it was read with.                          *)
UpdatePoint(r, p) ==
    /\ point[p] # None
    /\ Begin(r, "patch", [Idle EXCEPT !.point = p, !.status = point[p].status])
    /\ UNCHANGED <<app, owners, point, week, boxes, users, activated>>

(* PATCH with a status: an admin only. *)
SetStatus(r, p, s) ==
    /\ point[p] # None
    /\ Begin(r, "patch", [Idle EXCEPT !.point = p, !.status = s, !.chosen = TRUE])
    /\ UNCHANGED <<app, owners, point, week, boxes, users, activated>>

SavePoint(r) ==
    LET p == job[r].point
    IN  /\ pc[r] = "patch"
        /\ point' = [point EXCEPT ![p].status = job[r].status]
        /\ IF job[r].chosen THEN Decide(p, job[r].status) ELSE UNCHANGED activated
        /\ Finish(r)
        /\ UNCHANGED <<app, owners, week, boxes, users>>

(* DELETE /washing-points/{id}: one UPDATE of the status column, to paused. *)
Deactivate(p) ==
    /\ point[p] # None
    /\ point' = [point EXCEPT ![p].status = "inactive"]
    /\ disturbed' = (disturbed \/ Busy)
    /\ UNCHANGED <<app, owners, week, boxes, users, pc, job, activated>>

(* A statement fails or is refused: the request ends where it is.          *)
Fail(r) ==
    /\ pc[r] # "idle"
    /\ pc' = [pc EXCEPT ![r] = "idle"]
    /\ job' = [job EXCEPT ![r] = Idle]
    /\ disturbed' = TRUE
    /\ UNCHANGED <<app, owners, point, week, boxes, users, activated>>

-----------------------------------------------------------------------------
Arrive(r) ==
    \/ \E phone \in Phones :
          \/ \E full \in BOOLEAN : Apply(r, phone, full)
          \/ Create(r, phone)
          \/ \E a \in Applications, full \in BOOLEAN, then \in {"idle", "approve", "reject"} :
                Edit(r, a, phone, full, then)
    \/ \E a \in Applications, verdict \in {"approve", "reject"} : Review(r, a, verdict)
    \/ \E s \in PointStatus : CreatePoint(r, s)
    \/ \E p \in Points :
          \/ \E role \in Role : CreateCredentials(r, p, role)
          \/ UpdatePoint(r, p)
          \/ \E s \in PointStatus : SetStatus(r, p, s)

Step(r) ==
    \/ Insert(r) \/ Save(r) \/ Approve(r) \/ Reject(r) \/ Mark(r)
    \/ FindOrCreateOwner(r) \/ PickNames(r) \/ CreateWithAccounts(r)
    \/ SeedSchedule(r) \/ SeedBox(r) \/ ProvisionAccount(r) \/ SavePoint(r)
    \/ Fail(r)

Next ==
    \/ \E r \in Reqs : Arrive(r) \/ Step(r)
    \/ \E p \in Points : Deactivate(p)

Spec == Init /\ [][Next]_vars

-----------------------------------------------------------------------------
(* Properties *)

Ready(p) ==
    /\ p \in week /\ boxes[p] = BoxesCount
    /\ \A role \in Role : \E u \in users : u.point = p /\ u.role = role

PointsOf(a) == {p \in Points : point[p] # None /\ point[p].from = a}

(* An approved connection request has a point that is complete: logins for *)
(* staff and workers, a schedule, all its boxes and an owner, whatever     *)
(* fails and however reviews, edits and saves of stale rows overlap.       *)
ApprovedMeansReady ==
    \A a \in Applications : app[a] # None /\ app[a].status = "approved" =>
        \E p \in PointsOf(a) : Ready(p) /\ point[p].owner \in owners

(* Requests that neither overlap nor fail make one point for an approved   *)
(* application and none for any other, and at most one login of a role for *)
(* a point ("connection request has already been reviewed",                *)
(* "this account already exists").                                         *)
OncePerApplication ==
    ~disturbed /\ ~Busy =>
        /\ \A a \in Applications :
              Cardinality(PointsOf(a)) =
                 IF app[a] # None /\ app[a].status = "approved" THEN 1 ELSE 0
        /\ \A u, v \in users : u.point = v.point /\ u.role = v.role => u = v

(* A point is active only if an admin made it so: its own staff, who write *)
(* the whole row, can bring an earlier status back by saving a stale one,  *)
(* but never activate a point that no admin did ("a point's own staff must *)
(* not be able to approve it out of pending_review", Handler.update).      *)
ActiveMeansActivated ==
    \A p \in Points : point[p] # None /\ point[p].status = "active" => p \in activated
=============================================================================
