--------------------------- MODULE OnboardingProof ---------------------------
(***************************************************************************)
(* Proofs about Onboarding for any number of applications, points, phones, *)
(* boxes and requests.                                                     *)
(*                                                                         *)
(* No request holds a lock and rows are written back from old reads, so    *)
(* the invariant says of every request what it has already put in place,   *)
(* and the tables only grow: a row, an owner, a login or a schedule that   *)
(* is there stays there (Grows).                                           *)
(***************************************************************************)
EXTENDS Onboarding, FiniteSetTheorems, TLAPS

PC == {"idle", "insert", "save", "approve", "reject", "owner", "names", "commit",
          "week", "boxes", "mark", "patch"}

Job ==
    [app : Applications \cup {None}, row : AppRow \cup {None},
     then : {"idle", "approve", "reject"} \cup Role, point : Points \cup {None},
     status : PointStatus, chosen : BOOLEAN, names : SUBSET (Role \X Nat)]

TypeOK ==
    /\ app \in [Applications -> AppRow \cup {None}]
    /\ owners \subseteq Phones
    /\ point \in [Points -> PointRow \cup {None}]
    /\ week \subseteq Points
    /\ boxes \in [Points -> Nat]
    /\ users \subseteq [point : Points, role : Role, suffix : Nat]
    /\ pc \in [Reqs -> PC]
    /\ job \in [Reqs -> Job]
    /\ activated \subseteq Points
    /\ disturbed \in BOOLEAN

(* The point carries the application that the job works on, and its owner. *)
MadeFor(j, p) ==
    /\ p \in Points /\ point[p] # None /\ point[p].from = j.app
    /\ \A role \in Role : \E u \in users : u.point = p /\ u.role = role
    /\ j.app # None => point[p].owner = j.row.phone

(* A job for an application has the row it will write in the end, and the  *)
(* applicant is an owner.                                                  *)
WillApprove(j) ==
    j.app # None => j.row \in AppRow /\ j.row.status = "approved" /\ j.row.phone \in owners

(* The logins a job is about to create. *)
NamesOK(j) ==
    IF j.point = None THEN \E s, w \in Nat : j.names = {<<"staff", s>>, <<"worker", w>>}
                      ELSE \E s \in Nat : j.names = {<<j.then, s>>}

(* A request that is past the transaction that makes a point. *)
HasPoint(r) ==
    pc[r] \in {"week", "boxes"} \/ (pc[r] = "mark" /\ job[r].row.status = "approved")

(* What a request has done so far, by where it stands. *)
JobOK(r) ==
    LET j == job[r]
    IN  /\ j.app # None => app[j.app] \in AppRow
        /\ j.point # None => point[j.point] # None
        /\ pc[r] \in {"save", "approve", "reject", "owner"} => j.app # None /\ j.point = None
        /\ pc[r] = "save" => j.then \in {"idle", "approve", "reject"}
        /\ pc[r] \in {"approve", "owner"} => j.then = "idle"
        /\ pc[r] \in {"insert", "save", "owner"} => j.row \in AppRow /\ j.row.status = "new"
        /\ pc[r] \in {"names", "commit"} =>
              /\ IF j.point = None THEN j.then = "idle" ELSE j.then \in Role /\ j.app = None
              /\ WillApprove(j)
        /\ pc[r] = "commit" => NamesOK(j)
        /\ HasPoint(r) => MadeFor(j, j.point) /\ WillApprove(j)
        /\ pc[r] \in {"week", "boxes"} => boxes[j.point] < BoxesCount
        /\ pc[r] = "boxes" => j.point \in week
        /\ pc[r] = "mark" => j.app # None /\ j.row \in AppRow /\ j.row.status # "new"
        /\ pc[r] = "mark" /\ j.row.status = "approved" =>
              j.point \in week /\ boxes[j.point] = BoxesCount
        /\ pc[r] = "patch" =>
              j.point # None /\ (j.status = "active" => j.chosen \/ j.point \in activated)

JobsOK == \A r \in Reqs : JobOK(r)

(* Only the request that made a point fills it. *)
OneFiller ==
    \A r, s \in Reqs :
        /\ pc[r] \in {"week", "boxes"} /\ pc[s] \in {"week", "boxes"}
        /\ job[r].point = job[s].point
        => r = s

(* A point that is not there has neither logins nor boxes. *)
NothingWithoutPoint ==
    \A p \in Points : point[p] = None => boxes[p] = 0 /\ \A u \in users : u.point # p

IInv ==
    /\ TypeOK /\ JobsOK /\ OneFiller /\ NothingWithoutPoint
    /\ ApprovedMeansReady /\ ActiveMeansActivated

-----------------------------------------------------------------------------
(* Requests that have not overlapped and have not failed *)

(* The one point of an application is there once it has been created ... *)
HasItsPoint(a) == \E p \in Points : PointsOf(a) = {p}

(* ... which is when a request that approves it is past the transaction.   *)
Filling(r, a) == job[r].app = a /\ HasPoint(r)

Approved(a) == app[a] # None /\ app[a].status = "approved"

UndisturbedOK ==
    ~disturbed =>
        /\ \A r, s \in Reqs : pc[r] # "idle" /\ pc[s] # "idle" => r = s
        /\ \A a \in Applications :
              IF Approved(a) \/ \E r \in Reqs : Filling(r, a)
              THEN HasItsPoint(a) ELSE PointsOf(a) = {}
        /\ \A r \in Reqs :
              /\ /\ job[r].app # None
                 /\ pc[r] \in {"save", "owner", "names", "commit", "week", "boxes", "mark"}
                 => app[job[r].app].status = "new"
              /\ pc[r] \in {"names", "commit"} /\ job[r].point # None =>
                    \A u \in users : ~(u.point = job[r].point /\ u.role = job[r].then)
        /\ \A u, v \in users : u.point = v.point /\ u.role = v.role => u = v

-----------------------------------------------------------------------------
(* Types *)

LEMMA NoneIsNone ==
    /\ None \notin Applications /\ None \notin Points /\ None \notin AppRow
    /\ None \notin PointRow
  BY OnboardingAssumption

LEMMA IdleJob == Idle \in Job /\ Idle.app = None /\ Idle.point = None
  BY DEF Idle, Job, PointStatus

(* A request that starts, goes on or ends with a job keeps the types of    *)
(* the variables of requests.                                              *)
LEMMA RequestTypes ==
    ASSUME TypeOK, NEW r \in Reqs, NEW step \in PC, NEW j \in Job,
           Begin(r, step, j) \/ Advance(r, step, j)
    PROVE  pc' \in [Reqs -> PC] /\ job' \in [Reqs -> Job] /\ disturbed' \in BOOLEAN
  BY DEF TypeOK, Begin, Advance, Busy

LEMMA FinishTypes ==
    ASSUME TypeOK, NEW r \in Reqs, Finish(r)
    PROVE  pc' \in [Reqs -> PC] /\ job' \in [Reqs -> Job] /\ disturbed' \in BOOLEAN
  BY RequestTypes, IdleJob DEF Finish, PC

LEMMA TypeArrive ==
    ASSUME TypeOK, NEW r \in Reqs, Arrive(r) PROVE TypeOK'
<1>1. ASSUME NEW phone \in Phones, NEW full \in BOOLEAN,
             Apply(r, phone, full) \/ Create(r, phone)
      PROVE TypeOK'
  <2>1. PICK f \in BOOLEAN : Begin(r, "insert", [Idle EXCEPT
             !.row = [status |-> "new", full |-> f, phone |-> phone]])
    BY <1>1 DEF Apply, Create
  <2>2. [Idle EXCEPT !.row = [status |-> "new", full |-> f, phone |-> phone]] \in Job
    BY DEF Idle, Job, AppRow, PointStatus
  <2>3. UNCHANGED <<app, owners, point, week, boxes, users, activated>>
    BY <1>1 DEF Apply, Create
  <2> QED
    BY <2>1, <2>2, <2>3, RequestTypes DEF TypeOK, PC
<1>2. ASSUME NEW a \in Applications, NEW phone \in Phones, NEW full \in BOOLEAN,
             NEW then \in {"idle", "approve", "reject"}, Edit(r, a, phone, full, then)
      PROVE  TypeOK'
  <2>1. app[a] \in AppRow
    BY <1>2 DEF Edit, TypeOK
  <2>2. [app[a] EXCEPT !.phone = phone, !.full = full] \in AppRow
    BY <2>1 DEF AppRow
  <2>3. [Idle EXCEPT !.app = a, !.then = then,
             !.row = [app[a] EXCEPT !.phone = phone, !.full = full]] \in Job
    BY <2>2 DEF Idle, Job, PointStatus
  <2> QED
    BY <1>2, <2>3, RequestTypes DEF Edit, TypeOK, PC
<1>3. ASSUME NEW a \in Applications, NEW verdict \in {"approve", "reject"},
             Review(r, a, verdict)
      PROVE  TypeOK'
  <2>1. [Idle EXCEPT !.app = a] \in Job
    BY DEF Idle, Job, PointStatus
  <2> QED
    BY <1>3, <2>1, RequestTypes DEF Review, TypeOK, PC
<1>4. ASSUME NEW s \in PointStatus, CreatePoint(r, s) PROVE TypeOK'
  <2>1. [Idle EXCEPT !.status = s] \in Job
    BY DEF Idle, Job, PointStatus
  <2> QED
    BY <1>4, <2>1, RequestTypes DEF CreatePoint, TypeOK, PC
<1>5. ASSUME NEW p \in Points, NEW role \in Role, CreateCredentials(r, p, role)
      PROVE  TypeOK'
  <2>1. [Idle EXCEPT !.point = p, !.then = role] \in Job
    BY DEF Idle, Job, PointStatus
  <2> QED
    BY <1>5, <2>1, RequestTypes DEF CreateCredentials, TypeOK, PC
<1>6. ASSUME NEW p \in Points, NEW s \in PointStatus, UpdatePoint(r, p) \/ SetStatus(r, p, s)
      PROVE  TypeOK'
  <2>1. point[p] \in PointRow
    BY <1>6 DEF UpdatePoint, SetStatus, TypeOK
  <2>2. [Idle EXCEPT !.point = p, !.status = point[p].status] \in Job
    BY <2>1 DEF Idle, Job, PointRow
  <2>3. [Idle EXCEPT !.point = p, !.status = s, !.chosen = TRUE] \in Job
    BY DEF Idle, Job
  <2> QED
    BY <1>6, <2>2, <2>3, RequestTypes DEF UpdatePoint, SetStatus, TypeOK, PC
<1> QED
  BY <1>1, <1>2, <1>3, <1>4, <1>5, <1>6 DEF Arrive, PointStatus

LEMMA TypeStep ==
    ASSUME TypeOK, JobsOK, NEW r \in Reqs, Step(r) PROVE TypeOK'
<1> DEFINE j == job[r]
<1>1. j \in Job /\ JobOK(r)
  BY DEF TypeOK, JobsOK
<1>2. CASE Insert(r)
  BY <1>1, <1>2, FinishTypes DEF Insert, TypeOK, JobOK
<1>3. CASE Save(r)
  <2>1. j.app \in Applications /\ j.row \in AppRow /\ j.then \in {"idle", "approve", "reject"}
    BY <1>1, <1>3 DEF Save, JobOK, Job
  <2>2. [Idle EXCEPT !.app = j.app] \in Job
    BY <2>1 DEF Idle, Job, PointStatus
  <2> QED
    BY <1>3, <2>1, <2>2, FinishTypes, RequestTypes DEF Save, TypeOK, PC
<1>4. CASE Approve(r) \/ Reject(r)
  <2>1. j.app \in Applications /\ app[j.app] \in AppRow
    BY <1>1, <1>4 DEF Approve, Reject, JobOK, Job
  <2>2. [j EXCEPT !.row = app[j.app]] \in Job
    BY <1>1, <2>1 DEF Job
  <2>3. [app[j.app] EXCEPT !.status = "rejected"] \in AppRow
    BY <2>1 DEF AppRow
  <2>4. [j EXCEPT !.row = [app[j.app] EXCEPT !.status = "rejected"]] \in Job
    BY <1>1, <2>3 DEF Job
  <2> QED
    BY <1>4, <2>2, <2>4, FinishTypes, RequestTypes DEF Approve, Reject, TypeOK, PC
<1>5. CASE Mark(r)
  <2>1. j.app \in Applications /\ j.row \in AppRow
    BY <1>1, <1>5 DEF Mark, JobOK, Job
  <2> QED
    BY <1>5, <2>1, FinishTypes DEF Mark, TypeOK
<1>6. CASE FindOrCreateOwner(r)
  <2>1. j.row \in AppRow
    BY <1>1, <1>6 DEF FindOrCreateOwner, JobOK
  <2>2. j.row.phone \in Phones /\ [j EXCEPT !.row.status = "approved"] \in Job
    BY <1>1, <2>1 DEF AppRow, Job
  <2> QED
    BY <1>6, <2>2, RequestTypes DEF FindOrCreateOwner, TypeOK, PC
<1>7. CASE PickNames(r)
  <2>1. PICK s, w \in 1 .. MaxLogins :
          Advance(r, "commit", [job[r] EXCEPT !.names =
                IF job[r].then = "staff" THEN {<<"staff", s>>}
                ELSE IF job[r].then = "worker" THEN {<<"worker", w>>}
                ELSE {<<"staff", s>>, <<"worker", w>>}])
    BY <1>7 DEF PickNames
  <2>2. s \in Nat /\ w \in Nat
    BY OnboardingAssumption
  <2> DEFINE names == IF j.then = "staff" THEN {<<"staff", s>>}
                      ELSE IF j.then = "worker" THEN {<<"worker", w>>}
                      ELSE {<<"staff", s>>, <<"worker", w>>}
  <2>3. names \in SUBSET (Role \X Nat)
    BY <2>2 DEF Role
  <2>4. [j EXCEPT !.names = names] \in Job
    BY <1>1, <2>3 DEF Job
  <2> QED
    BY <1>7, <2>1, <2>4, RequestTypes DEF PickNames, TypeOK, PC
<1>8. CASE CreateWithAccounts(r)
  <2>1. PICK p \in Points :
          /\ point' = [point EXCEPT ![p] =
                [status |-> j.status, from |-> j.app,
                 owner |-> IF j.app = None THEN None ELSE j.row.phone]]
          /\ users' = users \cup Logins(p, j.names)
          /\ Decide(p, j.status)
          /\ Advance(r, "week", [j EXCEPT !.point = p])
    BY <1>8 DEF CreateWithAccounts
  <2>2. j.app # None => j.row \in AppRow
    BY <1>1, <1>8 DEF CreateWithAccounts, JobOK, WillApprove
  <2>3. [status |-> j.status, from |-> j.app,
         owner |-> IF j.app = None THEN None ELSE j.row.phone] \in PointRow
    BY <1>1, <2>2 DEF Job, PointRow, AppRow
  <2>4. Logins(p, j.names) \subseteq [point : Points, role : Role, suffix : Nat]
    BY <1>1 DEF Logins, Job
  <2>5. [j EXCEPT !.point = p] \in Job
    BY <1>1 DEF Job
  <2> QED
    BY <1>8, <2>1, <2>3, <2>4, <2>5, RequestTypes DEF CreateWithAccounts, Decide, TypeOK, PC
<1>9. CASE SeedSchedule(r)
  <2>1. j.point \in Points
    BY <1>1, <1>9 DEF SeedSchedule, JobOK, HasPoint, MadeFor
  <2> QED
    BY <1>1, <1>9, <2>1, RequestTypes DEF SeedSchedule, TypeOK, PC
<1>10. CASE SeedBox(r)
  <2>1. j.point \in Points
    BY <1>1, <1>10 DEF SeedBox, JobOK, HasPoint, MadeFor
  <2> QED
    BY <1>1, <1>10, <2>1, RequestTypes, FinishTypes DEF SeedBox, TypeOK, PC
<1>11. CASE ProvisionAccount(r)
  <2>1. j.point \in Points
    BY <1>1, <1>11 DEF ProvisionAccount, Job
  <2>2. Logins(j.point, j.names) \subseteq [point : Points, role : Role, suffix : Nat]
    BY <1>1, <2>1 DEF Logins, Job
  <2> QED
    BY <1>11, <2>2, FinishTypes DEF ProvisionAccount, TypeOK
<1>12. CASE SavePoint(r)
  <2>1. j.point \in Points /\ point[j.point] \in PointRow
    BY <1>1, <1>12 DEF SavePoint, JobOK, Job, TypeOK
  <2>2. [point[j.point] EXCEPT !.status = j.status] \in PointRow
    BY <1>1, <2>1 DEF PointRow, Job
  <2> QED
    BY <1>12, <2>1, <2>2, FinishTypes DEF SavePoint, Decide, TypeOK
<1>13. CASE Fail(r)
  BY <1>13, IdleJob DEF Fail, TypeOK, PC
<1> QED
  BY <1>2, <1>3, <1>4, <1>5, <1>6, <1>7, <1>8, <1>9, <1>10, <1>11, <1>12, <1>13 DEF Step

LEMMA TypeNext ==
    ASSUME TypeOK, JobsOK, Next PROVE TypeOK'
<1>1. ASSUME NEW p \in Points, Deactivate(p) PROVE TypeOK'
  <2>1. [point[p] EXCEPT !.status = "inactive"] \in PointRow
    BY <1>1 DEF Deactivate, TypeOK, PointRow, PointStatus
  <2> QED
    BY <1>1, <2>1 DEF Deactivate, TypeOK, Busy
<1> QED
  BY <1>1, TypeArrive, TypeStep DEF Next

-----------------------------------------------------------------------------
(* What one step leaves alone *)

(* Rows, owners, logins and schedules never go away, and a point keeps its *)
(* application and its owner.                                              *)
Grows ==
    /\ \A a \in Applications : app[a] \in AppRow => app'[a] \in AppRow
    /\ owners \subseteq owners' /\ users \subseteq users'
    /\ week \subseteq week' /\ activated \subseteq activated'
    /\ \A p \in Points : point[p] # None =>
          point'[p] # None /\ point'[p].from = point[p].from /\ point'[p].owner = point[p].owner

LEMMA GrowsStep ==
    ASSUME TypeOK, JobsOK, Next PROVE Grows
<1>1. TypeOK'
  BY TypeNext
<1>2. ASSUME NEW r \in Reqs, Arrive(r) PROVE Grows
  BY <1>2 DEF Grows, Arrive, Apply, Create, Edit, Review, CreatePoint, CreateCredentials,
     UpdatePoint, SetStatus
<1>3. ASSUME NEW r \in Reqs, Step(r) PROVE Grows
  <2>1. JobOK(r) /\ job[r] \in Job
    BY DEF JobsOK, TypeOK
  <2>2. CASE Insert(r) \/ Save(r) \/ Mark(r)
    <3>1. \A a \in Applications : app[a] \in AppRow => app'[a] \in AppRow
      BY <2>1, <2>2, NoneIsNone DEF Insert, Save, Mark, JobOK, TypeOK
    <3> QED
      BY <2>2, <3>1 DEF Grows, Insert, Save, Mark
  <2>3. CASE CreateWithAccounts(r)
    BY <2>3 DEF Grows, CreateWithAccounts, Decide, TypeOK
  <2>4. CASE SavePoint(r)
    <3>1. job[r].point \in Points /\ point[job[r].point] \in PointRow
      BY <2>1, <2>4 DEF SavePoint, JobOK, Job, TypeOK
    <3>2. point'[job[r].point] = [point[job[r].point] EXCEPT !.status = job[r].status]
      BY <2>4, <3>1 DEF SavePoint, TypeOK
    <3>3. /\ point'[job[r].point].from = point[job[r].point].from
          /\ point'[job[r].point].owner = point[job[r].point].owner
          /\ point'[job[r].point] \in PointRow
      BY <2>1, <3>1, <3>2 DEF PointRow, Job
    <3> QED
      BY <2>4, <3>3, NoneIsNone DEF Grows, SavePoint, Decide, TypeOK
  <2>5. CASE Approve(r) \/ Reject(r) \/ FindOrCreateOwner(r) \/ PickNames(r) \/ SeedSchedule(r)
             \/ SeedBox(r) \/ ProvisionAccount(r) \/ Fail(r)
    BY <2>5 DEF Grows, Approve, Reject, FindOrCreateOwner, PickNames, SeedSchedule, SeedBox,
       ProvisionAccount, Fail
  <2> QED
    BY <1>3, <2>2, <2>3, <2>4, <2>5 DEF Step
<1>4. ASSUME NEW p \in Points, Deactivate(p) PROVE Grows
  <2>1. point[p] \in PointRow /\ point'[p] = [point[p] EXCEPT !.status = "inactive"]
    BY <1>4 DEF Deactivate, TypeOK
  <2>2. /\ point'[p].from = point[p].from /\ point'[p].owner = point[p].owner
        /\ point'[p] \in PointRow
    BY <2>1 DEF PointRow, PointStatus
  <2> QED
    BY <1>4, <2>2, NoneIsNone DEF Grows, Deactivate, TypeOK
<1> QED
  BY <1>2, <1>3, <1>4 DEF Next

(* A request works on its own job only. *)
LEMMA OthersStay ==
    ASSUME TypeOK, NEW r \in Reqs, Arrive(r) \/ Step(r), NEW s \in Reqs, s # r
    PROVE  pc'[s] = pc[s] /\ job'[s] = job[s]
  BY DEF TypeOK, Arrive, Step, Begin, Advance, Finish, Apply, Create, Edit, Review, CreatePoint,
     CreateCredentials, UpdatePoint, SetStatus, Insert, Save, Approve, Reject, Mark,
     FindOrCreateOwner, PickNames, CreateWithAccounts, SeedSchedule, SeedBox, ProvisionAccount,
     SavePoint, Fail

(* Boxes are added by SeedBox alone, to the point its request fills. *)
LEMMA BoxesStay ==
    ASSUME TypeOK, NEW r \in Reqs, Arrive(r) \/ Step(r), NEW p \in Points,
           ~(pc[r] = "boxes" /\ job[r].point = p)
    PROVE  boxes'[p] = boxes[p]
<1>1. CASE SeedBox(r)
  BY <1>1 DEF SeedBox, TypeOK
<1>2. CASE ~SeedBox(r)
  BY <1>2 DEF Arrive, Step, Apply, Create, Edit, Review, CreatePoint, CreateCredentials,
     UpdatePoint, SetStatus, Insert, Save, Approve, Reject, Mark, FindOrCreateOwner, PickNames,
     CreateWithAccounts, SeedSchedule, ProvisionAccount, SavePoint, Fail
<1> QED
  BY <1>1, <1>2

(* What a request has put in place stays in place while others work. *)
LEMMA JobStays ==
    ASSUME TypeOK, TypeOK', Grows, NEW s \in Reqs, JobOK(s), pc'[s] = pc[s], job'[s] = job[s],
           HasPoint(s) => boxes'[job[s].point] = boxes[job[s].point]
    PROVE  JobOK(s)'
<1> DEFINE j == job[s]
<1>1. j \in Job /\ job'[s] = j
  BY DEF TypeOK
<1>2. \A p : MadeFor(j, p) => MadeFor(j, p)'
  BY DEF MadeFor, Grows
<1>3. WillApprove(j) => WillApprove(j)'
  BY DEF WillApprove, Grows
<1>4. HasPoint(s)' <=> HasPoint(s)
  BY DEF HasPoint
<1>5. (j.app # None => app[j.app] \in AppRow) => (j.app # None => app'[j.app] \in AppRow)
  BY <1>1 DEF Grows, Job
<1>6. (j.point # None => point[j.point] # None) => (j.point # None => point'[j.point] # None)
  BY <1>1 DEF Grows, Job
<1>7. week \subseteq week' /\ activated \subseteq activated'
  BY DEF Grows
<1>8. NamesOK(j) => NamesOK(j)'
  BY DEF NamesOK
<1>9. pc[s] \in {"week", "boxes"} => HasPoint(s)
  BY DEF HasPoint
<1>10. pc[s] = "mark" /\ j.row.status = "approved" => HasPoint(s)
  BY DEF HasPoint
<1> HIDE DEF j
<1> QED
  BY <1>1, <1>2, <1>3, <1>4, <1>5, <1>6, <1>7, <1>8, <1>9, <1>10 DEF JobOK, j

-----------------------------------------------------------------------------
(* The invariant, one part at a time *)

Act(r) == Arrive(r) \/ Step(r)

(* A request that has a point does not lose the boxes it has counted. *)
LEMMA OthersBoxes ==
    ASSUME IInv, NEW r \in Reqs, Act(r), NEW s \in Reqs, s # r, HasPoint(s)
    PROVE  boxes'[job[s].point] = boxes[job[s].point]
<1>1. JobOK(s) /\ JobOK(r)
  BY DEF IInv, JobsOK
<1>2. job[s].point \in Points
  BY <1>1 DEF JobOK, MadeFor
<1>3. CASE pc[s] \in {"week", "boxes"}
  BY <1>2, <1>3, BoxesStay DEF IInv, OneFiller, Act
<1>4. CASE pc[s] = "mark"
  <2>1. boxes[job[s].point] = BoxesCount
    BY <1>1, <1>4 DEF HasPoint, JobOK
  <2>2. ~(pc[r] = "boxes" /\ job[r].point = job[s].point)
    BY <1>1, <2>1, OnboardingAssumption DEF JobOK
  <2> QED
    BY <1>2, <2>2, BoxesStay DEF IInv, Act
<1> QED
  BY <1>3, <1>4 DEF HasPoint

LEMMA OthersJobs ==
    ASSUME IInv, TypeOK', Grows, NEW r \in Reqs, Act(r), NEW s \in Reqs, s # r
    PROVE  JobOK(s)'
<1>1. JobOK(s) /\ pc'[s] = pc[s] /\ job'[s] = job[s]
  BY OthersStay DEF IInv, JobsOK, Act
<1> QED
  BY <1>1, OthersBoxes, JobStays DEF IInv

(* An idle request has no obligations. *)
LEMMA IdleOK ==
    ASSUME TypeOK, NEW r \in Reqs, Finish(r) \/ Fail(r) PROVE JobOK(r)'
<1>1. pc'[r] = "idle" /\ job'[r] = Idle
  BY DEF TypeOK, Finish, Advance, Fail
<1> QED
  BY <1>1, IdleJob DEF JobOK, HasPoint

(* What a request knows when it starts. *)
LEMMA ArriveJob ==
    ASSUME IInv, NEW r \in Reqs, Arrive(r) PROVE JobOK(r)'
<1>0. /\ \A step, j : Begin(r, step, j) => pc'[r] = step /\ job'[r] = j
      /\ \A p \in Points : point[p] # None => p # None
  BY NoneIsNone DEF IInv, TypeOK, Begin
<1>1. ASSUME NEW phone \in Phones, NEW full \in BOOLEAN,
             Apply(r, phone, full) \/ Create(r, phone)
      PROVE JobOK(r)'
  <2>1. PICK f \in BOOLEAN : Begin(r, "insert", [Idle EXCEPT
             !.row = [status |-> "new", full |-> f, phone |-> phone]])
    BY <1>1 DEF Apply, Create
  <2>2. [status |-> "new", full |-> f, phone |-> phone] \in AppRow
    BY DEF AppRow
  <2>3. /\ pc'[r] = "insert" /\ job'[r].app = None /\ job'[r].point = None
        /\ job'[r].row = [status |-> "new", full |-> f, phone |-> phone]
    BY <1>0, <2>1 DEF Idle
  <2> QED
    BY <2>2, <2>3 DEF JobOK, HasPoint
<1>2. ASSUME NEW a \in Applications, NEW phone \in Phones, NEW full \in BOOLEAN,
             NEW then \in {"idle", "approve", "reject"}, Edit(r, a, phone, full, then)
      PROVE  JobOK(r)'
  <2>1. app[a] \in AppRow /\ app[a].status = "new" /\ app' = app /\ a # None
    BY <1>2, NoneIsNone DEF Edit, IInv, TypeOK
  <2>2. PICK row : row = [app[a] EXCEPT !.phone = phone, !.full = full]
    OBVIOUS
  <2>3. row \in AppRow /\ row.status = "new"
    BY <2>1, <2>2 DEF AppRow
  <2>4. pc'[r] = "save" /\ job'[r] = [Idle EXCEPT !.app = a, !.then = then, !.row = row]
    BY <1>0, <1>2, <2>2 DEF Edit
  <2>5. /\ job'[r].app = a /\ job'[r].point = None
        /\ job'[r].row = row /\ job'[r].then = then
    BY <2>4 DEF Idle
  <2> QED
    BY <2>1, <2>3, <2>4, <2>5 DEF JobOK, HasPoint
<1>3. ASSUME NEW a \in Applications, NEW verdict \in {"approve", "reject"},
             Review(r, a, verdict)
      PROVE  JobOK(r)'
  <2>1. app[a] \in AppRow /\ app' = app /\ a # None
    BY <1>3, NoneIsNone DEF Review, IInv, TypeOK
  <2>2. /\ pc'[r] = verdict /\ job'[r].app = a /\ job'[r].point = None
        /\ job'[r].then = "idle"
    BY <1>0, <1>3 DEF Review, Idle
  <2> QED
    BY <2>1, <2>2 DEF JobOK, HasPoint
<1>4. ASSUME NEW s \in PointStatus, CreatePoint(r, s) PROVE JobOK(r)'
  <2>1. /\ pc'[r] = "names" /\ job'[r].app = None /\ job'[r].point = None
        /\ job'[r].then = "idle"
    BY <1>0, <1>4 DEF CreatePoint, Idle
  <2> QED
    BY <2>1 DEF JobOK, HasPoint, WillApprove
<1>5. ASSUME NEW p \in Points, NEW role \in Role, CreateCredentials(r, p, role)
      PROVE  JobOK(r)'
  <2>1. /\ pc'[r] = "names" /\ job'[r] = [Idle EXCEPT !.point = p, !.then = role]
        /\ point'[p] # None /\ p # None
    BY <1>0, <1>5 DEF CreateCredentials
  <2>2. job'[r].app = None /\ job'[r].point = p /\ job'[r].then = role
    BY <2>1 DEF Idle
  <2> QED
    BY <2>1, <2>2 DEF JobOK, HasPoint, WillApprove
<1>6. ASSUME NEW p \in Points, NEW s \in PointStatus, UpdatePoint(r, p) \/ SetStatus(r, p, s)
      PROVE  JobOK(r)'
  <2>0. /\ pc'[r] = "patch" /\ point'[p] # None /\ p # None /\ activated' = activated
        /\ \/ job'[r] = [Idle EXCEPT !.point = p, !.status = point[p].status]
           \/ job'[r] = [Idle EXCEPT !.point = p, !.status = s, !.chosen = TRUE]
    BY <1>0, <1>6 DEF UpdatePoint, SetStatus
  <2>1. /\ job'[r].app = None /\ job'[r].point = p
        /\ job'[r].chosen \/ job'[r].status = point[p].status
    BY <2>0 DEF Idle
  <2>2. point[p].status = "active" => p \in activated
    BY <1>6 DEF UpdatePoint, SetStatus, IInv, ActiveMeansActivated
  <2> QED
    BY <2>0, <2>1, <2>2 DEF JobOK, HasPoint
<1> QED
  BY <1>1, <1>2, <1>3, <1>4, <1>5, <1>6 DEF Arrive, PointStatus

(* What a request knows after a step: it carries its work on. *)
LEMMA StepJob ==
    ASSUME IInv, TypeOK', Grows, NEW r \in Reqs, Step(r) PROVE JobOK(r)'
<1> DEFINE j == job[r]
           n == job'[r]
<1>0. j \in Job /\ JobOK(r) /\ n \in Job
  BY DEF IInv, JobsOK, TypeOK
<1>1. \A step, k : Advance(r, step, k) => pc'[r] = step /\ n = k
  BY DEF IInv, TypeOK, Advance
<1>2. j.app # None => app'[j.app] \in AppRow
  BY <1>0 DEF JobOK, Grows, Job
<1>3. CASE Finish(r) \/ Fail(r)
  BY <1>3, IdleOK DEF IInv
<1>4. ASSUME Save(r), ~Finish(r) PROVE JobOK(r)'
  <2>1. j.app # None /\ j.then \in {"idle", "approve", "reject"}
    BY <1>0, <1>4 DEF Save, JobOK
  <2>2. pc'[r] = j.then /\ n = [Idle EXCEPT !.app = j.app]
    BY <1>1, <1>4 DEF Save
  <2>3. n.app = j.app /\ n.point = None /\ n.then = "idle"
    BY <2>2 DEF Idle
  <2> QED
    BY <1>2, <2>1, <2>2, <2>3 DEF JobOK, HasPoint
<1>5. ASSUME Approve(r), ~Finish(r) PROVE JobOK(r)'
  <2>1. j.app # None /\ j.point = None /\ j.then = "idle" /\ app[j.app] \in AppRow
    BY <1>0, <1>5 DEF Approve, JobOK
  <2>2. pc'[r] = "owner" /\ n = [j EXCEPT !.row = app[j.app]] /\ app[j.app].status = "new"
    BY <1>1, <1>5 DEF Approve
  <2>3. n.app = j.app /\ n.point = None /\ n.then = "idle" /\ n.row = app[j.app]
    BY <1>0, <2>1, <2>2 DEF Job
  <2> QED
    BY <1>2, <2>1, <2>2, <2>3 DEF JobOK, HasPoint
<1>6. ASSUME FindOrCreateOwner(r) PROVE JobOK(r)'
  <2>1. j.app # None /\ j.point = None /\ j.then = "idle" /\ j.row \in AppRow
    BY <1>0, <1>6 DEF FindOrCreateOwner, JobOK
  <2>2. pc'[r] = "names" /\ n = [j EXCEPT !.row.status = "approved"]
        /\ owners' = owners \cup {j.row.phone}
    BY <1>1, <1>6 DEF FindOrCreateOwner
  <2>3. n.app = j.app /\ n.point = None /\ n.then = "idle"
        /\ n.row = [j.row EXCEPT !.status = "approved"]
    BY <1>0, <2>1, <2>2 DEF Job
  <2>4. n.row \in AppRow /\ n.row.status = "approved" /\ n.row.phone = j.row.phone
    BY <2>1, <2>3 DEF AppRow
  <2> QED
    BY <1>2, <2>1, <2>2, <2>3, <2>4 DEF JobOK, HasPoint, WillApprove
<1>7. ASSUME Reject(r), ~Finish(r) PROVE JobOK(r)'
  <2>1. j.app # None /\ j.point = None /\ app[j.app] \in AppRow
    BY <1>0, <1>7 DEF Reject, JobOK
  <2>2. pc'[r] = "mark" /\ n = [j EXCEPT !.row = [app[j.app] EXCEPT !.status = "rejected"]]
    BY <1>1, <1>7 DEF Reject
  <2>3. n.app = j.app /\ n.point = None /\ n.row = [app[j.app] EXCEPT !.status = "rejected"]
    BY <1>0, <2>1, <2>2 DEF Job
  <2>4. n.row \in AppRow /\ n.row.status = "rejected"
    BY <2>1, <2>3 DEF AppRow
  <2> QED
    BY <1>2, <2>1, <2>2, <2>3, <2>4 DEF JobOK, HasPoint
<1>8. ASSUME PickNames(r) PROVE JobOK(r)'
  <2>1. PICK s, w \in 1 .. MaxLogins :
          Advance(r, "commit", [job[r] EXCEPT !.names =
                IF job[r].then = "staff" THEN {<<"staff", s>>}
                ELSE IF job[r].then = "worker" THEN {<<"worker", w>>}
                ELSE {<<"staff", s>>, <<"worker", w>>}])
    BY <1>8 DEF PickNames
  <2>2. s \in Nat /\ w \in Nat
    BY OnboardingAssumption
  <2>3. /\ IF j.point = None THEN j.then = "idle" ELSE j.then \in Role /\ j.app = None
        /\ WillApprove(j) /\ (j.point # None => point[j.point] # None)
    BY <1>0, <1>8 DEF PickNames, JobOK
  <2>4. /\ pc'[r] = "commit" /\ n.app = j.app /\ n.point = j.point /\ n.then = j.then
        /\ n.row = j.row
        /\ n.names = IF j.then = "staff" THEN {<<"staff", s>>}
                     ELSE IF j.then = "worker" THEN {<<"worker", w>>}
                     ELSE {<<"staff", s>>, <<"worker", w>>}
    BY ZenonT(30), <1>0, <1>1, <2>1 DEF Job
  <2>5. NamesOK(j)'
    BY <2>2, <2>3, <2>4 DEF NamesOK, Role
  <2>6. WillApprove(j)'
    BY <2>3, <2>4 DEF WillApprove, Grows
  <2>7. n.point # None => point'[n.point] # None
    BY <1>0, <2>3, <2>4 DEF Grows, Job
  <2> QED
    BY <1>2, <2>3, <2>4, <2>5, <2>6, <2>7 DEF JobOK, HasPoint, NamesOK
<1>9. ASSUME CreateWithAccounts(r) PROVE JobOK(r)'
  <2>1. PICK p \in Points :
          /\ point[p] = None
          /\ point' = [point EXCEPT ![p] =
                [status |-> j.status, from |-> j.app,
                 owner |-> IF j.app = None THEN None ELSE j.row.phone]]
          /\ users' = users \cup Logins(p, j.names)
          /\ Advance(r, "week", [j EXCEPT !.point = p])
    BY <1>9 DEF CreateWithAccounts
  <2>2. /\ pc'[r] = "week" /\ n.app = j.app /\ n.point = p /\ n.row = j.row
        /\ boxes' = boxes /\ p # None
    BY <1>0, <1>1, <1>9, <2>1, NoneIsNone DEF Job, CreateWithAccounts
  <2>3. WillApprove(j) /\ NamesOK(j) /\ j.point = None
    BY <1>0, <1>9 DEF CreateWithAccounts, JobOK
  <2>4. PICK s, w \in Nat : j.names = {<<"staff", s>>, <<"worker", w>>}
    BY <2>3 DEF NamesOK
  <2>5. ASSUME NEW role \in Role PROVE \E u \in users' : u.point = p /\ u.role = role
    <3>1. PICK k \in Nat : <<role, k>> \in j.names
      BY <2>4 DEF Role
    <3>2. [point |-> p, role |-> role, suffix |-> k] \in Logins(p, j.names)
      BY <3>1 DEF Logins
    <3> QED
      BY <2>1, <3>2
  <2>6. /\ point'[p] \in PointRow /\ point'[p].from = j.app
        /\ j.app # None => point'[p].owner = j.row.phone
    <3>1. point'[p] = [status |-> j.status, from |-> j.app,
                       owner |-> IF j.app = None THEN None ELSE j.row.phone]
      BY <2>1 DEF IInv, TypeOK
    <3>2. j.app # None => j.row \in AppRow
      BY <2>3 DEF WillApprove
    <3> QED
      BY <1>0, <3>1, <3>2 DEF Job, PointRow, AppRow
  <2>7. MadeFor(j, p)'
    BY <2>2, <2>5, <2>6, NoneIsNone DEF MadeFor
  <2>8. WillApprove(j)'
    BY <2>2, <2>3 DEF WillApprove, Grows
  <2>9. boxes'[p] < BoxesCount
    BY <2>1, <2>2, OnboardingAssumption DEF IInv, NothingWithoutPoint
  <2> QED
    BY <1>2, <2>2, <2>6, <2>7, <2>8, <2>9, NoneIsNone DEF JobOK, HasPoint
<1>10. ASSUME SeedSchedule(r) PROVE JobOK(r)'
  <2>1. MadeFor(j, j.point) /\ WillApprove(j) /\ boxes[j.point] < BoxesCount
    BY <1>0, <1>10 DEF SeedSchedule, JobOK, HasPoint
  <2>2. pc'[r] = "boxes" /\ n = j /\ boxes' = boxes /\ week' = week \cup {j.point}
    BY <1>1, <1>10 DEF SeedSchedule
  <2>3. MadeFor(j, j.point)' /\ WillApprove(j)'
    BY <2>1, <2>2 DEF MadeFor, WillApprove, Grows
  <2> QED
    BY <1>2, <2>1, <2>2, <2>3 DEF JobOK, HasPoint, MadeFor
<1>11. ASSUME SeedBox(r), ~Finish(r) PROVE JobOK(r)'
  <2>1. /\ MadeFor(j, j.point) /\ WillApprove(j) /\ boxes[j.point] < BoxesCount
        /\ j.point \in week /\ j.point \in Points
    BY <1>0, <1>11 DEF SeedBox, JobOK, HasPoint, MadeFor
  <2>2. /\ n = j /\ boxes'[j.point] = boxes[j.point] + 1 /\ week' = week
        /\ \/ pc'[r] = "boxes" /\ boxes[j.point] + 1 < BoxesCount
           \/ pc'[r] = "mark" /\ boxes[j.point] + 1 >= BoxesCount /\ j.app # None
    BY <1>1, <1>11, <2>1 DEF SeedBox, IInv, TypeOK
  <2>3. MadeFor(j, j.point)' /\ WillApprove(j)'
    BY <2>1, <2>2 DEF MadeFor, WillApprove, Grows
  <2>4. pc'[r] = "mark" => boxes'[n.point] = BoxesCount
    BY <2>1, <2>2, OnboardingAssumption DEF IInv, TypeOK
  <2>5. pc'[r] = "mark" => n.row \in AppRow /\ n.row.status = "approved"
    BY <2>1, <2>2 DEF WillApprove
  <2>6. pc'[r] = "boxes" => boxes'[n.point] < BoxesCount
    BY <2>2
  <2>7. n.point \in week' /\ point'[n.point] # None
    BY <2>1, <2>2 DEF Grows, MadeFor
  <2> QED
    BY <1>2, <2>2, <2>3, <2>4, <2>5, <2>6, <2>7 DEF JobOK, HasPoint
<1> QED
  BY <1>3, <1>4, <1>5, <1>6, <1>7, <1>8, <1>9, <1>10, <1>11
     DEF Step, Insert, Mark, ProvisionAccount, SavePoint

LEMMA JobsStep ==
    ASSUME IInv, TypeOK', Grows, NEW r \in Reqs, Act(r) PROVE JobsOK'
  BY OthersJobs, ArriveJob, StepJob DEF JobsOK, Act

(* A request starts to fill a point that was not there before. *)
LEMMA FillerStep ==
    ASSUME IInv, NEW r \in Reqs, Act(r) PROVE OneFiller'
<1>1. ASSUME NEW s \in Reqs, s # r, pc'[s] \in {"week", "boxes"}, pc'[r] \in {"week", "boxes"},
             job'[s].point = job'[r].point
      PROVE  FALSE
  <2>1. pc[s] \in {"week", "boxes"} /\ job[s].point = job'[r].point
    BY <1>1, OthersStay DEF IInv, Act
  <2>2. job[s].point \in Points /\ point[job[s].point] # None
    BY <2>1 DEF IInv, JobsOK, JobOK, HasPoint, MadeFor
  <2>3. ~(pc[r] \in {"week", "boxes"} /\ job[r].point = job[s].point)
    BY <1>1, <2>1 DEF IInv, OneFiller
  <2>4. CASE CreateWithAccounts(r)
    <3>1. PICK p \in Points : point[p] = None /\ Advance(r, "week", [job[r] EXCEPT !.point = p])
      BY <2>4 DEF CreateWithAccounts
    <3>2. job'[r].point = p
      BY <3>1 DEF Advance, IInv, TypeOK, Job
    <3> QED
      BY <2>1, <2>2, <3>1, <3>2
  <2>5. CASE SeedSchedule(r) \/ SeedBox(r)
    BY <1>1, <2>1, <2>3, <2>5 DEF SeedSchedule, SeedBox, Advance, Finish, IInv, TypeOK
  <2>6. CASE Arrive(r)
    BY <1>1, <2>6 DEF IInv, TypeOK, Arrive, Begin, Apply, Create, Edit, Review, CreatePoint,
       CreateCredentials, UpdatePoint, SetStatus
  <2>7. CASE Insert(r) \/ Approve(r) \/ Reject(r) \/ Mark(r) \/ FindOrCreateOwner(r) \/ PickNames(r)
             \/ ProvisionAccount(r) \/ SavePoint(r) \/ Fail(r)
    BY <1>1, <2>7 DEF IInv, TypeOK, Advance, Finish, Insert, Approve, Reject, Mark,
       FindOrCreateOwner, PickNames, ProvisionAccount, SavePoint, Fail
  <2>8. CASE Save(r)
    BY <1>1, <2>8 DEF IInv, TypeOK, JobsOK, JobOK, Advance, Finish, Save
  <2> QED
    BY <2>4, <2>5, <2>6, <2>7, <2>8 DEF Act, Step
<1>2. \A s \in Reqs : s # r => pc'[s] = pc[s] /\ job'[s] = job[s]
  BY OthersStay DEF IInv, Act
<1> QED
  BY <1>1, <1>2 DEF IInv, OneFiller

LEMMA PointStep ==
    ASSUME IInv, TypeOK', Grows, NEW r \in Reqs, Act(r) PROVE NothingWithoutPoint'
<1> SUFFICES ASSUME NEW p \in Points, point'[p] = None
             PROVE  boxes'[p] = 0 /\ \A u \in users' : u.point # p
  BY DEF NothingWithoutPoint
<1>1. point[p] = None /\ boxes[p] = 0 /\ \A u \in users : u.point # p
  BY DEF Grows, IInv, NothingWithoutPoint
<1>2. ~(pc[r] = "boxes" /\ job[r].point = p)
  BY <1>1 DEF IInv, JobsOK, JobOK, HasPoint, MadeFor
<1>3. boxes'[p] = 0
  BY <1>1, <1>2, BoxesStay DEF IInv, Act
<1>4. ASSUME NEW u \in users' PROVE u.point # p
  <2>1. CASE CreateWithAccounts(r)
    <3>1. PICK q \in Points :
            /\ point' = [point EXCEPT ![q] =
                  [status |-> job[r].status, from |-> job[r].app,
                   owner |-> IF job[r].app = None THEN None ELSE job[r].row.phone]]
            /\ users' = users \cup Logins(q, job[r].names)
            /\ Advance(r, "week", [job[r] EXCEPT !.point = q])
      BY <2>1 DEF CreateWithAccounts
    <3>2. job'[r].point = q /\ pc'[r] = "week"
      BY <3>1 DEF Advance, IInv, TypeOK, Job
    <3>3. point'[q] # None
      BY <3>2, JobsStep DEF JobsOK, JobOK, HasPoint, MadeFor
    <3> QED
      BY <1>1, <3>1, <3>3 DEF Logins
  <2>2. CASE ProvisionAccount(r)
    <3>1. job[r].point # None /\ point[job[r].point] # None
          /\ users' = users \cup Logins(job[r].point, job[r].names)
      BY <2>2 DEF ProvisionAccount, IInv, JobsOK, JobOK
    <3> QED
      BY <1>1, <3>1 DEF Logins
  <2>3. CASE users' = users
    BY <1>1, <2>3
  <2> QED
    BY <2>1, <2>2, <2>3 DEF Act, Arrive, Step, Apply, Create, Edit, Review, CreatePoint,
       CreateCredentials, UpdatePoint, SetStatus, Insert, Save, Approve, Reject, Mark,
       FindOrCreateOwner, PickNames, SeedSchedule, SeedBox, SavePoint, Fail
<1> QED
  BY <1>3, <1>4

(* A complete point stays complete. *)
LEMMA ReadyStays ==
    ASSUME IInv, Grows, NEW r \in Reqs, Act(r), NEW p \in Points, Ready(p), point[p] # None,
           point[p].owner \in owners
    PROVE  Ready(p)' /\ point'[p] # None /\ point'[p].from = point[p].from
           /\ point'[p].owner \in owners'
<1>1. ~(pc[r] = "boxes" /\ job[r].point = p)
  BY OnboardingAssumption DEF IInv, TypeOK, JobsOK, JobOK, Ready
<1>2. boxes'[p] = boxes[p]
  BY <1>1, BoxesStay DEF IInv, Act
<1> QED
  BY <1>2 DEF Ready, Grows

(* A request is marked approved when its point is complete. *)
LEMMA ApprovedStep ==
    ASSUME IInv, TypeOK', Grows, NEW r \in Reqs, Act(r) PROVE ApprovedMeansReady'
<1> SUFFICES ASSUME NEW a \in Applications, app'[a] # None, app'[a].status = "approved"
             PROVE  \E p \in Points : /\ point'[p] # None /\ point'[p].from = a
                                      /\ Ready(p)' /\ point'[p].owner \in owners'
  BY DEF ApprovedMeansReady, PointsOf
<1>1. CASE app'[a] = app[a]
  <2>1. PICK p \in PointsOf(a) : Ready(p) /\ point[p].owner \in owners
    BY <1>1 DEF IInv, ApprovedMeansReady
  <2> QED
    BY <2>1, ReadyStays DEF PointsOf
<1>2. CASE app'[a] # app[a]
  <2>1. JobOK(r)
    BY DEF IInv, JobsOK
  <2>2. ~Insert(r) /\ ~Save(r)
    BY <1>2, <2>1 DEF Insert, Save, JobOK, IInv, TypeOK
  <2>3. Mark(r)
    BY <1>2, <2>2 DEF Act, Arrive, Step, Apply, Create, Edit, Review, CreatePoint,
       CreateCredentials, UpdatePoint, SetStatus, Approve, Reject,
       FindOrCreateOwner, PickNames, CreateWithAccounts, SeedSchedule, SeedBox, ProvisionAccount,
       SavePoint, Fail
  <2>4. job[r].app = a /\ job[r].row.status = "approved" /\ pc[r] = "mark"
    BY <1>2, <2>3 DEF Mark, IInv, TypeOK
  <2>5. /\ MadeFor(job[r], job[r].point) /\ WillApprove(job[r])
        /\ job[r].point \in week /\ boxes[job[r].point] = BoxesCount
    BY <2>1, <2>4 DEF JobOK, HasPoint
  <2>6. /\ Ready(job[r].point) /\ job[r].point \in Points /\ point[job[r].point] # None
        /\ point[job[r].point].from = a
    BY <2>4, <2>5 DEF MadeFor, Ready
  <2>7. point[job[r].point].owner \in owners
    BY <2>1, <2>4, <2>5 DEF MadeFor, WillApprove, JobOK
  <2> QED
    BY <2>6, <2>7, ReadyStays
<1> QED
  BY <1>1, <1>2

(* Only an admin's word makes a point active. *)
LEMMA ActiveStep ==
    ASSUME IInv, Grows, NEW r \in Reqs, Act(r) PROVE ActiveMeansActivated'
<1> SUFFICES ASSUME NEW p \in Points, point'[p] # None, point'[p].status = "active"
             PROVE  p \in activated'
  BY DEF ActiveMeansActivated
<1>1. CASE point'[p] = point[p]
  BY <1>1 DEF IInv, ActiveMeansActivated, Grows
<1>2. CASE CreateWithAccounts(r) /\ point'[p] # point[p]
  <2>1. PICK q \in Points :
          /\ point' = [point EXCEPT ![q] =
                [status |-> job[r].status, from |-> job[r].app,
                 owner |-> IF job[r].app = None THEN None ELSE job[r].row.phone]]
          /\ Decide(q, job[r].status)
    BY <1>2 DEF CreateWithAccounts
  <2>2. q = p /\ job[r].status = "active"
    BY <1>2, <2>1 DEF IInv, TypeOK
  <2> QED
    BY <2>1, <2>2 DEF Decide
<1>3. CASE SavePoint(r) /\ point'[p] # point[p]
  <2>1. job[r].point = p /\ job[r].status = "active" /\ pc[r] = "patch"
    <3>1. point' = [point EXCEPT ![job[r].point].status = job[r].status] /\ pc[r] = "patch"
      BY <1>3 DEF SavePoint
    <3>2. job[r].point = p /\ point[p] \in PointRow
      BY <1>3, <3>1 DEF IInv, TypeOK, JobsOK, JobOK
    <3>3. point'[p] = [point[p] EXCEPT !.status = job[r].status]
      BY <3>1, <3>2 DEF IInv, TypeOK
    <3> QED
      BY <3>1, <3>2, <3>3 DEF PointRow
  <2>2. job[r].chosen \/ p \in activated
    BY <2>1 DEF IInv, JobsOK, JobOK
  <2> QED
    BY <1>3, <2>1, <2>2 DEF SavePoint, Decide, Grows
<1> QED
  BY <1>1, <1>2, <1>3 DEF Act, Arrive, Step, Apply, Create, Edit, Review, CreatePoint,
     CreateCredentials, UpdatePoint, SetStatus, Insert, Save, Approve, Reject, Mark,
     FindOrCreateOwner, PickNames, SeedSchedule, SeedBox, ProvisionAccount, Fail

LEMMA DeactivateKeeps ==
    ASSUME IInv, TypeOK', Grows, NEW p \in Points, Deactivate(p) PROVE IInv'
<1>1. /\ UNCHANGED <<app, owners, week, boxes, users, pc, job, activated>>
      /\ \A q \in Points \ {p} : point'[q] = point[q]
      /\ point[p] \in PointRow /\ point'[p] = [point[p] EXCEPT !.status = "inactive"]
  BY DEF Deactivate, IInv, TypeOK
<1>2. JobsOK'
  BY <1>1, JobStays DEF IInv, JobsOK
<1>3. OneFiller'
  BY <1>1 DEF IInv, OneFiller
<1>4. NothingWithoutPoint'
  BY <1>1 DEF IInv, NothingWithoutPoint, Grows
<1>5. ApprovedMeansReady'
  <2>1. ASSUME NEW a \in Applications, app[a] # None, app[a].status = "approved"
        PROVE  \E q \in Points : /\ point'[q] # None /\ point'[q].from = a
                                 /\ Ready(q) /\ point'[q].owner \in owners
    BY <2>1 DEF IInv, ApprovedMeansReady, PointsOf, Grows
  <2> QED
    BY <1>1, <2>1 DEF ApprovedMeansReady, PointsOf, Ready
<1>6. point'[p].status = "inactive"
  BY <1>1 DEF PointRow
<1>7. ActiveMeansActivated'
  BY <1>1, <1>6 DEF IInv, ActiveMeansActivated
<1> QED
  BY <1>2, <1>3, <1>4, <1>5, <1>7 DEF IInv

LEMMA InitIInv == Init => IInv
<1> SUFFICES ASSUME Init PROVE IInv
  OBVIOUS
<1>1. PICK old \in SUBSET Points :
          /\ point = [p \in Points |->
                IF p \in old THEN [status |-> "active", from |-> None, owner |-> None] ELSE None]
          /\ week = old
          /\ boxes = [p \in Points |-> IF p \in old THEN BoxesCount ELSE 0]
          /\ activated = old
  BY DEF Init
<1>2. [status |-> "active", from |-> None, owner |-> None] \in PointRow
  BY DEF PointRow, PointStatus
<1>3. TypeOK
  BY <1>1, <1>2, IdleJob, OnboardingAssumption DEF Init, TypeOK, PC
<1>4. JobsOK
  BY IdleJob DEF Init, JobsOK, JobOK, HasPoint
<1>5. OneFiller /\ ApprovedMeansReady
  BY DEF Init, OneFiller, ApprovedMeansReady
<1>6. NothingWithoutPoint /\ ActiveMeansActivated
  BY <1>1, <1>2, NoneIsNone DEF Init, NothingWithoutPoint, ActiveMeansActivated
<1> QED
  BY <1>3, <1>4, <1>5, <1>6 DEF IInv

(* The invariant is inductive. *)
LEMMA NextIInv == IInv /\ [Next]_vars => IInv'
<1> SUFFICES ASSUME IInv, [Next]_vars PROVE IInv'
  OBVIOUS
<1>1. CASE Next
  <2>1. TypeOK' /\ Grows
    BY <1>1, TypeNext, GrowsStep DEF IInv
  <2>2. ASSUME NEW r \in Reqs, Act(r) PROVE IInv'
    BY <2>1, <2>2, JobsStep, FillerStep, PointStep, ApprovedStep, ActiveStep DEF IInv
  <2> QED
    BY <1>1, <2>1, <2>2, DeactivateKeeps DEF Next, Act
<1>2. CASE UNCHANGED vars
  BY <1>2 DEF vars, IInv, TypeOK, JobsOK, JobOK, HasPoint, MadeFor, WillApprove, NamesOK, OneFiller,
     NothingWithoutPoint, ApprovedMeansReady, PointsOf, Ready, ActiveMeansActivated
<1> QED
  BY <1>1, <1>2

-----------------------------------------------------------------------------
(* Undisturbed requests, one after the other *)

(* As long as nothing is disturbed, the request at work is alone. *)
LEMMA Alone ==
    ASSUME IInv, UndisturbedOK, NEW r \in Reqs, Act(r), ~disturbed'
    PROVE  /\ ~disturbed
           /\ \A s \in Reqs : s # r => pc[s] = "idle" /\ pc'[s] = "idle"
<1>1. ~disturbed
  BY DEF Act, Arrive, Step, Begin, Advance, Finish, Apply, Create, Edit, Review, CreatePoint,
     CreateCredentials, UpdatePoint, SetStatus, Insert, Save, Approve, Reject, Mark,
     FindOrCreateOwner, PickNames, CreateWithAccounts, SeedSchedule, SeedBox, ProvisionAccount,
     SavePoint, Fail
<1>2. CASE Arrive(r)
  <2>1. ~Busy
    BY <1>2 DEF Arrive, Begin, Apply, Create, Edit, Review, CreatePoint, CreateCredentials,
       UpdatePoint, SetStatus
  <2> QED
    BY <1>1, <2>1, OthersStay DEF Busy, IInv, Act
<1>3. CASE Step(r)
  <2>1. pc[r] # "idle"
    BY <1>3 DEF Step, Insert, Save, Approve, Reject, Mark, FindOrCreateOwner, PickNames,
       CreateWithAccounts, SeedSchedule, SeedBox, ProvisionAccount, SavePoint, Fail
  <2> QED
    BY <1>1, <2>1, OthersStay DEF UndisturbedOK, IInv, Act
<1> QED
  BY <1>2, <1>3 DEF Act

(* Only a creation gives an application a point. *)
LEMMA PointsOfStay ==
    ASSUME IInv, Grows, NEW r \in Reqs, Act(r), ~CreateWithAccounts(r), NEW a
    PROVE  PointsOf(a)' = PointsOf(a)
<1>1. ASSUME NEW p \in Points, point[p] = None PROVE point'[p] = None
  <2>1. CASE SavePoint(r)
    <3>1. point[job[r].point] # None /\ point' = [point EXCEPT ![job[r].point].status = job[r].status]
      BY <2>1 DEF SavePoint, IInv, JobsOK, JobOK
    <3> QED
      BY <1>1, <3>1 DEF IInv, TypeOK
  <2>2. CASE ~SavePoint(r)
    BY <1>1, <2>2 DEF Act, Arrive, Step, Apply, Create, Edit, Review, CreatePoint,
       CreateCredentials, UpdatePoint, SetStatus, Insert, Save, Approve, Reject, Mark,
       FindOrCreateOwner, PickNames, SeedSchedule, SeedBox, ProvisionAccount, Fail
  <2> QED
    BY <2>1, <2>2
<1> QED
  BY <1>1 DEF PointsOf, Grows

Due(a) == Approved(a) \/ \E r \in Reqs : Filling(r, a)

(* Apart from the creation itself, no step changes whether an application  *)
(* is due its point: the last statement marks what the creation began.     *)
LEMMA DueStays ==
    ASSUME IInv, UndisturbedOK, TypeOK', NEW r \in Reqs, Act(r), ~disturbed',
           ~CreateWithAccounts(r), NEW a \in Applications
    PROVE  Due(a)' <=> Due(a)
<1> DEFINE j == job[r]
<1>1. ~disturbed /\ \A s \in Reqs : s # r => pc[s] = "idle" /\ pc'[s] = "idle"
  BY Alone
<1>2. /\ Due(a) <=> Approved(a) \/ Filling(r, a)
      /\ Due(a)' <=> Approved(a)' \/ Filling(r, a)'
  BY <1>1 DEF Due, Filling, HasPoint
<1>3. a # None /\ JobOK(r) /\ j \in Job
  BY NoneIsNone DEF IInv, JobsOK, TypeOK
<1>4. ASSUME app' = app, ~HasPoint(r), ~HasPoint(r)' PROVE Due(a)' <=> Due(a)
  BY <1>2, <1>4 DEF Approved, Filling
<1>5. CASE Arrive(r)
  <2>1. app' = app /\ pc[r] = "idle"
        /\ pc'[r] \in {"insert", "save", "approve", "reject", "names", "patch"}
    BY <1>5 DEF Arrive, Begin, Apply, Create, Edit, Review, CreatePoint, CreateCredentials,
       UpdatePoint, SetStatus, IInv, TypeOK
  <2> QED
    BY <1>4, <2>1 DEF HasPoint
<1>6. CASE Insert(r)
  <2>1. PICK b \in Applications : app[b] = None /\ app' = [app EXCEPT ![b] = j.row]
    BY <1>6 DEF Insert
  <2>2. pc[r] = "insert" /\ pc'[r] = "idle" /\ j.row.status = "new"
    BY <1>3, <1>6 DEF Insert, Finish, Advance, JobOK, IInv, TypeOK
  <2> QED
    BY <1>2, <2>1, <2>2 DEF Approved, Filling, HasPoint, IInv, TypeOK
<1>7. CASE Save(r)
  <2>1. /\ j.app \in Applications /\ app[j.app].status = "new" /\ j.row.status = "new"
        /\ j.then \in {"idle", "approve", "reject"}
    BY <1>1, <1>3, <1>7 DEF Save, JobOK, UndisturbedOK, Job
  <2>2. /\ app' = [app EXCEPT ![j.app] = j.row] /\ pc[r] = "save"
        /\ pc'[r] \in {"idle", "approve", "reject"}
    BY <1>7, <2>1 DEF Save, Finish, Advance, IInv, TypeOK
  <2> QED
    BY <1>2, <2>1, <2>2 DEF Approved, Filling, HasPoint, IInv, TypeOK
<1>8. CASE Approve(r) \/ FindOrCreateOwner(r) \/ PickNames(r) \/ ProvisionAccount(r) \/ SavePoint(r)
  <2>1. /\ app' = app /\ pc[r] \in {"approve", "owner", "names", "commit", "patch"}
        /\ pc'[r] \in {"idle", "owner", "names", "commit"}
    BY <1>8 DEF Approve, FindOrCreateOwner, PickNames, ProvisionAccount, SavePoint, Finish,
       Advance, IInv, TypeOK
  <2> QED
    BY <1>4, <2>1 DEF HasPoint
<1>9. CASE Reject(r)
  <2>1. /\ app' = app /\ pc[r] = "reject" /\ app[j.app] \in AppRow
        /\ \/ pc'[r] = "idle"
           \/ pc'[r] = "mark" /\ job'[r] = [j EXCEPT !.row = [app[j.app] EXCEPT !.status = "rejected"]]
    BY <1>3, <1>9 DEF Reject, Finish, Advance, JobOK, IInv, TypeOK
  <2>2. pc'[r] = "mark" => job'[r].row = [app[j.app] EXCEPT !.status = "rejected"]
    BY <1>3, <2>1 DEF Job
  <2>3. pc'[r] = "mark" => job'[r].row.status = "rejected"
    BY <2>1, <2>2 DEF AppRow
  <2> QED
    BY <1>4, <2>1, <2>3 DEF HasPoint
<1>10. CASE Mark(r)
  <2>1. /\ j.app \in Applications /\ j.row \in AppRow /\ pc[r] = "mark" /\ pc'[r] = "idle"
        /\ app' = [app EXCEPT ![j.app] = j.row] /\ app[j.app].status = "new"
    BY <1>1, <1>3, <1>10 DEF Mark, Finish, Advance, JobOK, Job, UndisturbedOK, IInv, TypeOK
  <2> QED
    BY <1>2, <1>3, <2>1, NoneIsNone DEF Approved, Filling, HasPoint, IInv, TypeOK
<1>11. CASE SeedSchedule(r)
  <2>1. /\ app' = app /\ pc[r] = "week" /\ pc'[r] = "boxes" /\ job'[r] = j
    BY <1>11 DEF SeedSchedule, Advance, IInv, TypeOK
  <2> QED
    BY <1>2, <2>1 DEF Approved, Filling, HasPoint
<1>12. CASE SeedBox(r)
  <2>1. /\ app' = app /\ pc[r] = "boxes"
        /\ \/ pc'[r] \in {"boxes", "mark"} /\ job'[r] = j
           \/ pc'[r] = "idle" /\ j.app = None
    BY <1>12 DEF SeedBox, Finish, Advance, IInv, TypeOK
  <2>2. j.app # None => j.row.status = "approved"
    BY <1>3, <2>1 DEF JobOK, HasPoint, WillApprove
  <2> QED
    BY <1>2, <1>3, <2>1, <2>2 DEF Approved, Filling, HasPoint
<1>13. ~Fail(r)
  BY DEF Fail
<1> QED
  BY <1>5, <1>6, <1>7, <1>8, <1>9, <1>10, <1>11, <1>12, <1>13 DEF Act, Step

(* Every application that is due a point has one, and no other has any. *)
LEMMA PointsStep ==
    ASSUME IInv, UndisturbedOK, TypeOK', Grows, NEW r \in Reqs, Act(r), ~disturbed',
           NEW a \in Applications
    PROVE  IF Due(a)' THEN HasItsPoint(a)' ELSE PointsOf(a)' = {}
<1>0. ~disturbed /\ \A s \in Reqs : s # r => pc[s] = "idle" /\ pc'[s] = "idle"
  BY Alone
<1>1. IF Due(a) THEN HasItsPoint(a) ELSE PointsOf(a) = {}
  BY <1>0 DEF UndisturbedOK, Due
<1>2. CASE ~CreateWithAccounts(r)
  <2>1. PointsOf(a)' = PointsOf(a)
    BY <1>2, PointsOfStay
  <2>2. Due(a)' <=> Due(a)
    BY <1>2, DueStays
  <2> QED
    BY <1>1, <2>1, <2>2 DEF HasItsPoint
<1>3. CASE CreateWithAccounts(r)
  <2>1. PICK p \in Points :
          /\ point[p] = None
          /\ point' = [point EXCEPT ![p] =
                [status |-> job[r].status, from |-> job[r].app,
                 owner |-> IF job[r].app = None THEN None ELSE job[r].row.phone]]
          /\ Advance(r, "week", [job[r] EXCEPT !.point = p])
    BY <1>3 DEF CreateWithAccounts
  <2>2. /\ pc[r] = "commit" /\ pc'[r] = "week" /\ app' = app
        /\ job'[r].app = job[r].app /\ job'[r].point = p
    BY <1>3, <2>1 DEF CreateWithAccounts, Advance, IInv, TypeOK, Job
  <2>3. point'[p] # None /\ point'[p].from = job[r].app
    <3>1. JobOK(r)'
      BY JobsStep DEF JobsOK
    <3> QED
      BY <2>2, <3>1 DEF JobOK, HasPoint, MadeFor
  <2>4. PointsOf(a)' = IF job[r].app = a THEN PointsOf(a) \cup {p} ELSE PointsOf(a)
    BY <2>1, <2>3 DEF PointsOf, IInv, TypeOK
  <2>5. ~Filling(r, a)
    BY <2>2 DEF Filling, HasPoint
  <2>6. CASE job[r].app = a
    <3>1. ~Due(a)
      BY <1>0, <2>2, <2>5, <2>6, NoneIsNone DEF UndisturbedOK, Due, Approved, Filling, HasPoint
    <3>2. PointsOf(a)' = {p}
      BY <1>1, <2>4, <2>6, <3>1
    <3>3. Due(a)'
      BY <2>2, <2>6 DEF Due, Filling, HasPoint
    <3> QED
      BY <3>2, <3>3 DEF HasItsPoint
  <2>7. CASE job[r].app # a
    <3>1. Due(a)' <=> Due(a)
      BY <1>0, <2>2, <2>5, <2>7 DEF Due, Approved, Filling, HasPoint
    <3> QED
      BY <1>1, <2>4, <2>7, <3>1 DEF HasItsPoint
  <2> QED
    BY <2>6, <2>7
<1> QED
  BY <1>2, <1>3

(* A request for an application works on a row that is still new. *)
LEMMA NewStep ==
    ASSUME IInv, UndisturbedOK, TypeOK', NEW r \in Reqs, Act(r), ~disturbed',
           job'[r].app # None,
           pc'[r] \in {"save", "owner", "names", "commit", "week", "boxes", "mark"}
    PROVE  app'[job'[r].app].status = "new"
<1> DEFINE j == job[r]
<1>0. ~disturbed /\ JobOK(r) /\ j \in Job
  BY Alone DEF IInv, JobsOK, TypeOK
<1>1. CASE Arrive(r)
  <2>1. CASE \E a \in Applications, phone \in Phones, full \in BOOLEAN,
                 then \in {"idle", "approve", "reject"} : Edit(r, a, phone, full, then)
    <3>1. PICK a \in Applications, phone \in Phones, full \in BOOLEAN,
               then \in {"idle", "approve", "reject"} : Edit(r, a, phone, full, then)
      BY <2>1
    <3>2. app' = app /\ app[a].status = "new"
          /\ \E row : job'[r] = [Idle EXCEPT !.app = a, !.then = then, !.row = row]
      BY <3>1 DEF Edit, Begin, IInv, TypeOK
    <3> QED
      BY <3>2 DEF Idle
  <2>2. CASE \E a \in Applications, verdict \in {"approve", "reject"} : Review(r, a, verdict)
    BY <2>2 DEF Review, Begin, IInv, TypeOK
  <2>3. ASSUME NEW phone, NEW full, Apply(r, phone, full) \/ Create(r, phone) PROVE FALSE
    BY <2>3 DEF Apply, Create, Begin, IInv, TypeOK
  <2>4. ASSUME NEW s, CreatePoint(r, s) PROVE FALSE
    BY <2>4 DEF CreatePoint, Begin, IInv, TypeOK, Idle
  <2>5. ASSUME NEW p, NEW role, CreateCredentials(r, p, role) PROVE FALSE
    <3>1. job'[r] = [Idle EXCEPT !.point = p, !.then = role]
      BY <2>5 DEF CreateCredentials, Begin, IInv, TypeOK
    <3> QED
      BY <3>1 DEF Idle
  <2>6. ASSUME NEW p, NEW s, UpdatePoint(r, p) \/ SetStatus(r, p, s) PROVE FALSE
    BY <2>6 DEF UpdatePoint, SetStatus, Begin, IInv, TypeOK
  <2> QED
    BY <1>1, <2>1, <2>2, <2>3, <2>4, <2>5, <2>6 DEF Arrive
<1>2. CASE Save(r)
  BY <1>0, <1>2 DEF Save, Finish, Advance, JobOK, IInv, TypeOK
<1>3. CASE Approve(r) \/ Reject(r)
  <2>1. /\ app' = app /\ app[j.app].status = "new"
        /\ \E row : job'[r] = [j EXCEPT !.row = row]
    BY <1>3 DEF Approve, Reject, Finish, Advance, IInv, TypeOK
  <2> QED
    BY <1>0, <2>1 DEF Job
<1>4. CASE FindOrCreateOwner(r) \/ PickNames(r) \/ CreateWithAccounts(r) \/ SeedSchedule(r)
           \/ SeedBox(r)
  <2>1. /\ app' = app /\ pc[r] \in {"owner", "names", "commit", "week", "boxes"}
    BY <1>4 DEF FindOrCreateOwner, PickNames, CreateWithAccounts, SeedSchedule, SeedBox
  <2>2. \/ job'[r] \in {j, Idle}
        \/ \E names : job'[r] = [j EXCEPT !.names = names]
        \/ \E p : job'[r] = [j EXCEPT !.point = p]
        \/ job'[r] = [j EXCEPT !.row.status = "approved"]
    BY <1>4 DEF FindOrCreateOwner, PickNames, CreateWithAccounts, SeedSchedule, SeedBox,
       Finish, Advance, IInv, TypeOK
  <2>3. job'[r].app = j.app
    BY <1>0, <2>2, IdleJob DEF Job
  <2> QED
    BY <1>0, <2>1, <2>3 DEF UndisturbedOK
<1>5. ~(Insert(r) \/ Mark(r) \/ ProvisionAccount(r) \/ SavePoint(r) \/ Fail(r))
  BY DEF Insert, Mark, ProvisionAccount, SavePoint, Fail, Finish, Advance, IInv, TypeOK
<1> QED
  BY <1>1, <1>2, <1>3, <1>4, <1>5 DEF Act, Step

(* A request for one more login found none, and finds none when it commits. *)
LEMMA LoginStep ==
    ASSUME IInv, UndisturbedOK, TypeOK', Grows, NEW r \in Reqs, Act(r), ~disturbed'
    PROVE  /\ pc'[r] \in {"names", "commit"} /\ job'[r].point # None =>
                 \A u \in users' : ~(u.point = job'[r].point /\ u.role = job'[r].then)
           /\ \A u, v \in users' : u.point = v.point /\ u.role = v.role => u = v
<1> DEFINE j == job[r]
<1>0. ~disturbed /\ JobOK(r) /\ j \in Job
  BY Alone DEF IInv, JobsOK, TypeOK
<1>1. ASSUME pc'[r] \in {"names", "commit"}, job'[r].point # None, NEW u \in users',
             u.point = job'[r].point, u.role = job'[r].then
      PROVE  FALSE
  <2>1. CASE Arrive(r)
    <3>1. PICK p \in Points, role \in Role : CreateCredentials(r, p, role)
      BY ZenonT(30), <1>1, <2>1, IdleJob DEF Arrive, Begin, Apply, Create, Edit, Review, CreatePoint,
         UpdatePoint, SetStatus, IInv, TypeOK, Idle
    <3>2. /\ job'[r] = [Idle EXCEPT !.point = p, !.then = role] /\ users' = users
          /\ \A v \in users : ~(v.point = p /\ v.role = role)
      BY <3>1 DEF CreateCredentials, Begin, IInv, TypeOK
    <3>3. job'[r].point = p /\ job'[r].then = role
      BY <3>2 DEF Idle
    <3> QED
      BY <1>1, <3>2, <3>3
  <2>2. CASE FindOrCreateOwner(r)
    <3>1. j.point = None /\ job'[r] = [j EXCEPT !.row.status = "approved"]
      BY <1>0, <2>2 DEF FindOrCreateOwner, JobOK, Advance, IInv, TypeOK
    <3> QED
      BY <1>0, <1>1, <3>1 DEF Job
  <2>3. CASE PickNames(r)
    <3>1. pc[r] = "names" /\ users' = users
      BY <2>3 DEF PickNames
    <3>2. PICK s, w \in 1 .. MaxLogins :
             Advance(r, "commit", [job[r] EXCEPT !.names =
                IF job[r].then = "staff" THEN {<<"staff", s>>}
                ELSE IF job[r].then = "worker" THEN {<<"worker", w>>}
                ELSE {<<"staff", s>>, <<"worker", w>>}])
      BY <2>3 DEF PickNames
    <3>3. job'[r] = [job[r] EXCEPT !.names =
                IF job[r].then = "staff" THEN {<<"staff", s>>}
                ELSE IF job[r].then = "worker" THEN {<<"worker", w>>}
                ELSE {<<"staff", s>>, <<"worker", w>>}]
      BY <3>2 DEF Advance, IInv, TypeOK
    <3>4. job'[r].point = j.point /\ job'[r].then = j.then
      BY <1>0, <3>3 DEF Job
    <3> QED
      BY <1>0, <1>1, <3>1, <3>4 DEF UndisturbedOK
  <2>4. CASE Save(r)
    BY <1>0, <1>1, <2>4 DEF Save, JobOK, Finish, Advance, IInv, TypeOK
  <2> QED
    BY <1>1, <2>1, <2>2, <2>3, <2>4 DEF Act, Step, Insert, Approve, Reject, Mark,
       CreateWithAccounts, SeedSchedule, SeedBox, ProvisionAccount, SavePoint, Fail,
       Finish, Advance, IInv, TypeOK
<1>2. ASSUME NEW u \in users', NEW v \in users', u.point = v.point, u.role = v.role
      PROVE  u = v
  <2>1. \A x, y \in users : x.point = y.point /\ x.role = y.role => x = y
    BY <1>0 DEF UndisturbedOK
  <2>2. CASE CreateWithAccounts(r)
    <3>1. PICK p \in Points : point[p] = None /\ users' = users \cup Logins(p, j.names)
      BY <2>2 DEF CreateWithAccounts
    <3>2. \A x \in users : x.point # p
      BY <3>1 DEF IInv, NothingWithoutPoint
    <3>3. PICK s, w \in Nat : j.names = {<<"staff", s>>, <<"worker", w>>}
      BY <1>0, <2>2 DEF CreateWithAccounts, JobOK, NamesOK
    <3>4. Logins(p, j.names) = {[point |-> p, role |-> "staff", suffix |-> s],
                                [point |-> p, role |-> "worker", suffix |-> w]}
      BY <3>3 DEF Logins
    <3> QED
      BY <1>2, <2>1, <3>1, <3>2, <3>4
  <2>3. CASE ProvisionAccount(r)
    <3>1. j.point # None /\ pc[r] = "commit" /\ users' = users \cup Logins(j.point, j.names)
      BY <2>3 DEF ProvisionAccount
    <3>2. \A x \in users : ~(x.point = j.point /\ x.role = j.then)
      BY <1>0, <3>1 DEF UndisturbedOK
    <3>3. PICK s \in Nat : j.names = {<<j.then, s>>}
      BY <1>0, <3>1 DEF JobOK, NamesOK
    <3>4. Logins(j.point, j.names) = {[point |-> j.point, role |-> j.then, suffix |-> s]}
      BY <3>3 DEF Logins
    <3> QED
      BY <1>2, <2>1, <3>1, <3>2, <3>4
  <2>4. CASE users' = users
    BY <1>2, <2>1, <2>4
  <2> QED
    BY <2>2, <2>3, <2>4 DEF Act, Arrive, Step, Apply, Create, Edit, Review, CreatePoint,
       CreateCredentials, UpdatePoint, SetStatus, Insert, Save, Approve, Reject, Mark,
       FindOrCreateOwner, PickNames, SeedSchedule, SeedBox, SavePoint, Fail
<1> QED
  BY <1>1, <1>2

LEMMA NextUndisturbed == IInv /\ UndisturbedOK /\ [Next]_vars => UndisturbedOK'
<1> SUFFICES ASSUME IInv, UndisturbedOK, [Next]_vars, ~disturbed' PROVE UndisturbedOK'
  BY DEF UndisturbedOK
<1>1. ASSUME NEW r \in Reqs, Act(r) PROVE UndisturbedOK'
  <2>1. Next
    BY <1>1 DEF Next, Act
  <2>2. TypeOK' /\ Grows
    BY <2>1, TypeNext, GrowsStep DEF IInv
  <2>3. \A s \in Reqs : s # r => pc[s] = "idle" /\ pc'[s] = "idle"
    BY <1>1, Alone
  <2>4. \A a \in Applications : IF Due(a)' THEN HasItsPoint(a)' ELSE PointsOf(a)' = {}
    BY <1>1, <2>2, PointsStep
  <2>5. /\ job'[r].app # None
        /\ pc'[r] \in {"save", "owner", "names", "commit", "week", "boxes", "mark"}
        => app'[job'[r].app].status = "new"
    BY <1>1, <2>2, NewStep
  <2>6. /\ pc'[r] \in {"names", "commit"} /\ job'[r].point # None =>
                 \A u \in users' : ~(u.point = job'[r].point /\ u.role = job'[r].then)
        /\ \A u, v \in users' : u.point = v.point /\ u.role = v.role => u = v
    BY <1>1, <2>2, LoginStep
  <2> QED
    BY <2>3, <2>4, <2>5, <2>6 DEF UndisturbedOK, Due
<1>2. ASSUME NEW p \in Points, Deactivate(p) PROVE UndisturbedOK'
  <2>1. ~disturbed /\ UNCHANGED <<app, users, pc, job>>
    BY <1>2 DEF Deactivate
  <2>2. Grows
    BY <1>2, GrowsStep DEF IInv, Next
  <2>3. \A q \in Points : point[q] = None <=> point'[q] = None
    BY <1>2, <2>2 DEF Deactivate, IInv, TypeOK, Grows
  <2>4. \A a : PointsOf(a)' = PointsOf(a)
    BY <2>2, <2>3 DEF PointsOf, Grows
  <2> QED
    BY <2>1, <2>4 DEF UndisturbedOK, Approved, Filling, HasPoint, HasItsPoint
<1>3. CASE UNCHANGED vars
  BY <1>3 DEF vars, UndisturbedOK, Approved, Filling, HasPoint, HasItsPoint, PointsOf
<1> QED
  BY <1>1, <1>2, <1>3 DEF Next, Act

LEMMA InitUndisturbed == Init => UndisturbedOK
<1> SUFFICES ASSUME Init PROVE UndisturbedOK
  OBVIOUS
<1>1. \A p \in Points : point[p] # None => point[p].from = None
  BY DEF Init
<1>2. \A a \in Applications : ~Approved(a) /\ PointsOf(a) = {} /\ \A r \in Reqs : ~Filling(r, a)
  BY <1>1, NoneIsNone DEF Init, Approved, PointsOf, Filling, HasPoint
<1> QED
  BY <1>2, IdleJob DEF Init, UndisturbedOK

-----------------------------------------------------------------------------
(* Theorems *)

(***************************************************************************)
(* Every reachable state satisfies the inductive invariant: requests and   *)
(* tables keep their types, and what a request has done is in place.       *)
(***************************************************************************)
THEOREM Invariance == Spec => []IInv
  BY InitIInv, NextIInv, PTL DEF Spec

(***************************************************************************)
(* Whatever fails and however requests overlap, an approved application    *)
(* has a complete point: Mark is the last statement of Approve.            *)
(***************************************************************************)
THEOREM ApprovalSafety == Spec => []ApprovedMeansReady
  BY Invariance, PTL DEF IInv

(***************************************************************************)
(* No point is active that no admin has made active, although a PATCH by   *)
(* its staff writes the status back.                                       *)
(***************************************************************************)
THEOREM ActivationSafety == Spec => []ActiveMeansActivated
  BY Invariance, PTL DEF IInv

(***************************************************************************)
(* Requests that neither overlap nor fail make one point for an approved   *)
(* application, none for any other, and no second login of a role.         *)
(***************************************************************************)
THEOREM UndisturbedSafety == Spec => []OncePerApplication
<1>1. UndisturbedOK => OncePerApplication
  <2> SUFFICES ASSUME UndisturbedOK, ~disturbed, ~Busy PROVE OncePerApplication
    BY DEF OncePerApplication
  <2>1. \A r \in Reqs : ~HasPoint(r)
    BY DEF Busy, HasPoint
  <2>2. ASSUME NEW a \in Applications
        PROVE  Cardinality(PointsOf(a)) = IF Approved(a) THEN 1 ELSE 0
    BY <2>1, FS_EmptySet, FS_Singleton DEF UndisturbedOK, Filling, HasItsPoint
  <2> QED
    BY <2>2 DEF OncePerApplication, UndisturbedOK, Approved
<1>2. Spec => []UndisturbedOK
  <2>1. IInv /\ UndisturbedOK /\ [Next]_vars => UndisturbedOK'
    BY NextUndisturbed
  <2> QED
    BY <2>1, Invariance, InitUndisturbed, PTL DEF Spec
<1> QED
  BY <1>1, <1>2, PTL
=============================================================================
