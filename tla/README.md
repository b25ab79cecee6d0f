# Formal model of the car-wash booking API

TLA+ modules for the core of this API: bookings and their slots, what the API
shows of them, live boards, pushes, sign-in and sessions, the lists staff edit,
the QR stickers, and how a washing point joins.
TLC checks them on small instances (`runs` in `PROJECT.json`); TLAPS proves the
most important properties for every value of the constants (`theorems`).

    tlc -workers 2 -config booking.cfg MCBooking     # a run
    tlapm BookingProof.tla                           # the proofs of a module

Source paths below are relative to `src/`.

## 1. The system

A Go HTTP API over PostgreSQL. Customers book a box of a washing point for an
interval, staff move bookings along (waiting, washing, ready, or canceled or
missed, from where they may be restored), lobby boards and customers' phones follow live.
A request is one goroutine; it issues SQL statements, mostly outside
transactions, so two requests interleave between any two statements. What keeps
the data right is a handful of devices: one row lock, one exclusion constraint,
a few unique indexes, a few guarded UPDATEs. The modules are about whether those
devices suffice.

| component | state | operations | hard part |
|---|---|---|---|
| Booking requests, `internal/queue` | table `queue` | create, walk-in, cancel, pause, status change | check and insert are apart; stale reads; announcements after the commit |
| Slot arithmetic, `queue/availability.go` | none | windows, free slots, sweep | boundaries; the same rules written twice |
| Weekly schedule, `internal/schedule` | a row per weekday | replace, seed | changes under a booking in flight |
| Boxes, `internal/box` | box rows | create, update, delete, seed | same; whether a flip is published |
| Live boards, `platform/eventbus`, `queue/handler.go` | subscriber channels | publish, subscribe, stream | lost wakeups, leaked subscriptions |
| Pushes, `internal/notification` | `notifications`, scheduler | NotifyStage, Tick | several instances, crashes, due windows |
| Device tokens, `internal/device` | `device_tokens` | register, unregister | a phone changes accounts |
| Sessions, `internal/auth` | `refresh_tokens` | sign in, refresh, logout, password change | rotation without a transaction |
| One-time codes, `internal/auth` | `otp_codes` | request, verify | whole-row saves of counters and marks |
| Login lockout, `platform/ratelimit` | in-memory map | Locked, Fail, Reset | counter and two times, sweep |
| Request limiter, `platform/ratelimit` | in-memory map | Allow | a clock read before the mutex, sweep |
| Services and prices, `internal/service` | price options | add, update, delete | moving the default in two statements |
| Photos, `internal/photo`, `internal/bookingphoto` | rows and files | upload, update, delete | rows and files are written apart |
| Connection requests, `internal/connectionrequest` | applications | apply, edit, approve, reject | many statements, any may fail |
| Washing points, accounts, owners | points, users, owners | create, update, deactivate, new login | whole-row saves of stale rows; free user names |
| QR codes, `internal/qrcode` | `qr_codes`, `qr_scans` | generate, assign, unassign, disable, replacement, scan, statistics | whole-row saves of stale rows; four queries of one moment |
| Views, `queue/handler*.go`, `queue/reports.go`, `internal/admin` | none | day view, boards, cars ahead, reports, utilization | tickets counted anew; totals summed in several ways |
| Cars, HTTP plumbing, adapters, seeds | | | see section 6 |

They interact as follows. A booking request reads the schedule, the boxes and
the point, locks the point's row, and inserts. After its commit it calls
`Publish` on the bus, which wakes the streams, and starts a goroutine that
calls `NotifyStatus`. The schedulers read the queue table on their own. Approve
calls the washing-point manager, which calls account provisioning and the
seeders of schedule and boxes. Password changes and the reset of a point's
credentials end sessions. The statistics of a QR code look for bookings made
soon after a scan. Reports and boards only read.

## 2. Modules and the code they model

`PROJECT.json` maps every definition to its lines; names follow the source.

**QueueTable** - a row of `queue` (`Row`), the statements of
`queue/repository.go` that read it, the exclusion constraint (`BoxTaken`) and
the partial unique index (`UserTaken`) of the migrations, and
`staffStatusTransitions`. Shared by the next two, Notification and Views.

**BookingLedger** - the abstract promise: a booking appears, moves, is canceled
or paused at one instant, and only when that is legal at that instant.

**Booking** - the requests of `queue/manager.go` step by step. `pc` and `job`
are the program counter and the locals of a handler, including what it read
earlier; `lock` is `SELECT ... FOR UPDATE` on a point. `insertLocked` is
`LockPoint`, `VerifyBox`, `CheckClient`, `Insert` or `InsertRefused`;
`CancelBooking`, `UpdateStatus` and `TogglePause` read and then `WriteStatus` or
`WritePausedAt` with the guard of the UPDATE; `Publish` is the code after the
commit. `Fail` may end any step before the commit. `unseen` and `stages`
record what was announced.

**Availability** - `queue/availability.go` as operators: `Windows`,
`freeBoxes`, `ComputeAvailableSlots*`, `maxOverlap`. The sweep of `maxOverlap`
folds the set of its events from the one sorting puts last (`lastEvent`);
events carry their booking, so equal ones stay two.

**PointDay** - one point on one day: schedule row, boxes, `boxes_count`,
bookings. Clients list free slots (`availability`) and book (`planBooking`, then
`insertLocked` as a later step with the hours planned earlier) while staff edit
the schedule and the boxes.

**BoardStream** - the bus (`subs`, one-place channels `signal`), the two SSE
handlers (connect, two reads, send, subscribe, sleep, wake, close) and writers
that commit and then publish. What a stream shows is the version of what it
read. A handler's write timeout is covered by `Close`, which may happen at any
time.

**StagePush** - the abstract promise of one stage of one booking, without
schedulers, calls or statements: it is taken up once, reaches a phone once at
most and only while it is under way, and is over for good once it is recorded,
or lost with whoever took it up or meant to. The acknowledgement of a receipt
may get lost, and the record goes by the acknowledged ones.

**Notification** - `NotifyStage` (list the phones, claim the stage by a unique
row, send, remove dead tokens, write the result), the scheduler (`Fire`,
`Select`, `Take`, `NextKind`) on several instances, and the goroutines a status
change starts, over the bookings of BookingLedger. `Error` and `Crash` consume
`faults`, and so does an answer that gets lost: the provider accepts the push and
`client.Do` fails all the same (`platform/push/fcm.go:84`), or the row is inserted
and the call told otherwise. The provider is external: a send is accepted, fails,
is accepted with its answer lost (`unheard` remembers which), or says the token is
dead. `StageState` maps a stage to StagePush: its row's status, where
`pending` is under way as long as a call attends to it, and lost afterwards.

**Sessions** - sign-in by password or phone, `Refresh` (find the token active,
`RevokeRefreshTokenIfActive`, `IssueTokenPair`), logout, change and reset of
passwords, and `Lockout` with its sweep. A login is the chain of tokens that
starts with a sign-in. `ended` and `fails` are history the properties speak of.

**Logins** - the abstract promise of Sessions, without tokens: a login opens
once, and once it is over (logged out, ended with its account's password,
lapsed, or lost to a failure) it is over for good. The mapping, `LoginState`,
calls a login open while a token of it is usable or a request is about to issue
one. A login whose refresh is between its two statements therefore counts as
open, and so it survives a password change, as in the code.

**PhoneSignIn** - one phone and one client address: `Limiter.Allow` in front of
the two endpoints (`Arrive` reads the clock, `Allow` runs under the mutex), the
codes, and `RequestOTP` and `VerifyOTP`, each a read, a decision and a save of
the row it read. `hits`, `tried`, `logins` and `smooth` are history.

**Catalog** - one list of one kind: price options, point photos or booking
photos, each handler statement by statement, with the files on disk. `disturbed`
records that two requests overlapped or a statement failed. `LoseAnswer` is an
INSERT that happened while its request hears an error: `Upload` then removes the
file of a row that exists, and `unheard` remembers the row. For the other
statements a lost answer is the statement followed by `Fail`.

**Onboarding** - connection requests, `CreateWithAccounts` (the one
transaction), seeding of schedule and boxes, provisioning of logins, and the
whole-row saves of points and applications.

**QRPool** - the pool of stickers. `Assign` reads the code, `FindExisting` what
the point has, `ReleaseExisting` frees that and `Save` writes the code, each a
statement of its own; the other handlers read and `Save`. `placed` is the code
a point ought to have as long as requests neither overlap nor fail.

**Views** - what readers are told, as operators over the table: `Ticket`
(`toDayItems`), `buildBoardResponse`, `toLiveBoxItems`, `CountActiveAhead`,
`buildReportsResponse` with its periods, sums and bars, `bookedMinutes` (the
admin statistics) and `Stats` of a code. The table changes by the steps of
BookingLedger, with the items and the creation time of each booking beside it;
the moment asked for, the point's boxes and its prices are arguments, since
they change without the bookings. A sum is the `Total` of a function, one value
per row or item, as the code adds them up.

Which module builds on which: Booking, BookingLedger, Notification and Views
extend QueueTable; Booking, Notification and Views instantiate BookingLedger
(the first implements it, the others take its steps); Sessions implements
Logins and Notification implements StagePush; PointDay extends Availability.
Each `MC*` module gives constants values or a symmetry set; the `*Proof`
modules hold the theorems about the modules they extend: PointProof those of
PointDay and Catalog, BoardProof those of Views and BoardStream. That is why
the specifications of Catalog and BoardStream have names of their own
(`ListSpec`, `StreamSpec`).

## 3. Runs

States are distinct states; `pass` unless marked.

| run | checks | shows |
|---|---|---|
| `booking` (195 k) | `NoDoubleBooking`, `OneActivePerUser`, `CanceledAtIffCanceled`, `EveryChangeAnnounced`, `PushesStayTrue`, `LockProtectsSlot`, `LedgerSpec`, `RequestsFinish` | under every interleaving of two requests a box and a customer have at most one booking, each commit is published, no "started" or "finished" push is contradicted later, a slot verified under the lock is lost only to a restore (which takes no lock and meets the constraint), the requests implement BookingLedger, and each is answered: no path keeps the lock |
| `point_day` (301 k) | `OfferedIffBookable`, `BoxesDisjoint`, `WindowsAreOpenHours`, `SweepCountsBusyBoxes` | the slots offered are those booking accepts, the arithmetic meets its reference definitions for rows accepted and refused, and two requests that race never overlap in a box, whatever the hours become between the plan and the insert of one of them |
| `board` (110 k) | `NoLostWakeup`, `ChangesReachStreams`, `TrackersEnd` | a stream that has been woken once never sleeps through a change of the bookings; trackers end with their booking |
| `board_gap` (violation) | `NoMissedChange` | a change between first snapshot and Subscribe is missed |
| `push_once` (150 k) | `AtMostOnce`, `RecordsAreTrue`, `StagesSpec` | with two instances and a fault or a lost answer anywhere a phone gets a stage once at most, the table says what the sender knows, and every stage behaves as StagePush says: nobody takes up again what was sent, recorded or lost |
| `push_due` (78 k) | `NeverEarly`, `DueStagesGoOut` | no timed push is early; a due stage gets its row or stops being due although the other booking of the list fails, crashes or is skipped |
| `sessions` (900 k) | `OneTokenPerLogin`, `LockedIffEarned`, `LoginsSpec` | a session never forks; Sessions implements Logins, so what is over stays over; the lockout locks exactly the names whose failures earn it |
| `phone_sign_in` (4.9 M) | `CodesAccountedFor`, `LimitRespected` | a code's counter, mark and cooldown are exact as long as requests do not overlap; the limiter keeps below twice its limit in any span shorter than a window by the longest wait for its mutex, and turns nobody away without cause |
| `catalog` (506 k) | `AtMostOneDefault`, `OneMarkWhenUndisturbed`, `RowsHaveFiles` | never two default options; a photo row lacks its file only when the answer of its INSERT was lost; undisturbed requests keep one default and one cover |
| `onboarding` (2.5 M) | `ApprovedMeansReady`, `OncePerApplication`, `ActiveMeansActivated` | an approved application has a complete point; only points an admin activated are active |
| `qr_pool` (142 k) | `PoolCoherent`, `PointHasItsCode`, `DisabledComesBackOnlyByUnassign` | whatever races or fails, a point has one code at most and a code has a point exactly when it is assigned; undisturbed requests take full effect |
| `views` (17 k) | `TicketsStable`, `OverflowInvisible`, `BoardLosesNobody`, `ReportsAgree`, `UtilizationWithinDay`, `ScansAddUp` | tickets keep; out-of-queue bookings stay out of the customers' sight; the lobby board loses nobody, unless two of that day wash in one box; every figure of a report, the network's minutes and a code's statistics agree |

Types are proved rather than checked where a module has theorems (`TypeOK`).

### Bounds

- **MCBooking**: two requests, two rows. Two customers want box 1 of `p1` at
  overlapping times, one in the app and one as a walk-in; under the lock of `p2` staff
  enter the first out of queue there. A conflict of the code is
  between two rows and two requests, so every kind occurs.
- **MCPointDay**: a day of 3 ticks, candidates every 2, durations 1 and 2, two
  boxes, two bookings and two requests, which are symmetric, so one may book and
  the staff edit between the plan and the insert of the other. The schedules
  accepted have no break, one that splits the day, or one that touches the
  closing time. The rows refused have their hours the wrong way round, or a
  break that exceeds the hours, swallows them, misses them or is inverted:
  `validateHours` keeps them from the table, and `WindowsAreOpenHours` asks the
  arithmetic about them all the same.
- **BoardStream**: one board, one tracker, two writers, one or two commits and
  one flip, which is enough to fill a one-place channel and drop a signal.
- **MCNotification**: `push_once` has two instances, two phones of one customer,
  one booking, one moment and one fault. `OneStage` keeps to one stage at a time:
  rows of different stages have no statement in common. `push_due` has two
  customers with a phone each, whose bookings share the due list (the second may
  be out of queue and is then selected and skipped at every tick), one instance
  and one fault, and time passes from before the reminder to the cap on late
  pushes (`ReminderLead` 2, `LateDelay` 1, `LateCap` 2, start at 2, `MaxClock` 4).
  `QuietWorld` holds back customers, staff and phones only (each booking and phone
  keeps its customer, bookings are made by tick 1, the second may be canceled and
  restored); it disables no step of a scheduler or a call, whose fairness the
  liveness property rests on.
- **MCSessions**: one user, three tokens (a sign-in and two rotations, or two
  sessions), two requests; two failures lock for two ticks; `MaxEntries` 0
  makes every failure sweep; three failures and three ticks reach a lock, its
  end, and a run that starts after it. Tokens and requests are symmetric.
- **MCPhoneSignIn**: two requests, two codes, two attempts, a limit of two per
  window of two ticks, four moments. The cooldown is a tick and a code is good
  only within the tick it was made in, so a code may be fresh, expired, locked
  or consumed. Only the endpoint that verifies is limited (a configured limit
  of 0 switches one off), or two windows of one kind would multiply the states.
  `MaxLag` bounds how long a request waits for the mutex, by less than a window.
  `LimitRespected` speaks of spans shorter than a window by `MaxLag`: in a span
  of a whole window two full windows may be counted, which TLC finds within the
  four moments. A late request after a sweep opens a window in the past, which
  they reach too.
- **Catalog**: two requests, three rows, a limit of two photos. Two requests that
  create after a first entry use all three; where rows are deleted, the one
  promoted is one of two that remain.
- **MCQRPool**: two requests, three codes, two points, all symmetric. Assigning
  involves two codes and one point; the third code and the second point are
  there for the request that interferes.
- **MCViews**: two bookings, in either order of creation and start, in box 1 of
  one point on two days of two hours, one of them possibly out of queue or in
  box 1 of another point, which must not be taken for the first; two services of
  which one has two options, one of them deleted (it then counts as 0); two scans. `ReportsAgree`
  and `BoardLosesNobody` take every set of boxes that may still be listed, the
  empty one included. Weeks and months are two days long, and views are asked
  for on both days and long afterwards (`Moments`), so every booking is at some
  moment today's, in the week or month, in the period compared with, and in
  none. `TicketsStable` needs two rows, sums need two summands. `ScansApart`
  follows scans only beside bookings of one kind that have not begun: the
  statistics of a code read neither items nor status, and nothing else reads
  the scans.
- **MCOnboarding**: one application, two points, each of which may predate logins,
  one phone, two requests, two boxes, at most two extra logins. Points and
  requests are symmetric. One application suffices: applications share only
  owners and user names, for which the second point competes as well.

Deadlock is not checked where row identifiers, tokens, codes or ticks are finite
in the instance and the system may run out of work: `booking`, `sessions`,
`catalog`, `onboarding`, `qr_pool`, `views`. In `phone_sign_in` requests keep
arriving.

### Fairness

Only steps that a running goroutine takes by itself are fair. In Booking each
request's next step is weakly fair, and `LockPoint` strongly, because
PostgreSQL queues the waiters of a row lock, so a waiter is not overtaken for
ever. In BoardStream the publish after a commit and the handler's own steps
are weakly fair. In Notification the scheduler's ticker keeps firing, and calls
go on. Nobody has to arrive, connect, write, fail or disconnect.

## 4. What is proved

Theorems hold for every number of requests, customers, points, boxes, tokens,
codes, phones and instances. Their assumptions are the named `ASSUME`s of the
modules, which TLC evaluates in the runs: parameters are naturals, positive
where the code's configuration is; sets of roles are disjoint; "nobody" and the
empty row are not somebody and not a row; a day has one break at most
(`DayAssumption`, as the schedule's row has); a booking lies within a day,
an hour divides the day, a basket is finite and its options have prices that are
naturals (`ViewsAssumption`; a deleted option counts as 0); and requests wait for the limiter's mutex for less than a
window (`PhoneSignInAssumption`).

- **BookingProof**. The inductive invariant
  adds to the safety invariants: `JobsOK` (what a request at a step has
  read), `LockOK` (who is inside the transaction holds the lock, and nobody
  else does), `IdsOK` (two requests never insert the same row), `PushOK`
  (what a request is about to push is already true for good). It is needed because
  `NoDoubleBooking` alone says nothing of what an insert in flight may do.
  From it: `BoxSafety`, `UserSafety`, `CanceledAtCorrect`, `Announced`,
  `PushSafety`. `SlotProtected`: while a request holds the lock, only a
  restore, which takes no lock, may occupy the slot it verified. `Refinement`:
  Booking implements BookingLedger under the identity mapping of `queue`; reads,
  locks and announcements are stutters, the writes are legal at the instant of
  their commit although the decision is older.
- **PointProof**, slots. `BoxSafety`: bookings of a box never overlap, although a
  plan is made on older hours. The argument: the rows a plan looks at are those
  within its window, the new interval lies inside that window, so whatever
  overlaps it has been looked at. `OffersCorrect`: the offer equals
  what booking accepts, for every schedule, step, number of boxes and duration.
  `HoursCorrect`: for the stored row and for every row staff may submit, also one
  that `validateHours` refuses (a break that touches, exceeds, swallows or misses
  the hours, or is inverted), `Windows` is the hours without the break.
- **PointProof**, sweep. `SweepCorrect`: the fold over sorted events yields the
  most bookings that share an instant of the candidate. By induction on the
  prefixes of the sorted order (a smallest prefix that is wrong is taken apart at
  its last event): after a prefix `occupied` is the number of
  bookings started and not ended in it, and `most` is the largest of these
  so far. Ends come before starts of their time, so no prefix has more open
  than share its instant (`SweepAtMost`), and after the last start of an
  instant everything that shares it is open (`SweepAtLeast`). Rows have positive
  length (`HeldOK`), and no start hides behind its own end.
- **PointProof**, lists (Catalog). `ListsInvariance`: numbers and files are given
  out once (`Numbered`), a photo being uploaded has its file and is nobody
  else's (`UploadsApart`), and `Between` says what is missing from the list
  between two statements of a request that nobody disturbs. The two defaults a
  race could make are refused by the index alone. From it: `OneDefault`, of price
  options only (cover photos have no such index, see section 5); `FilesStay`, of
  all photo rows but those in `unheard`; `MarkKept`.
- **BoardProof**, streams. The key part, `Remembered`, says that a stream whose
  reads are stale has a signal waiting or a publisher coming, from the moment of
  the read and not only when it sleeps. From it: `WakeupSafety`,
  `SubscriberSafety`.
- **BoardProof**, views. `ViewsInv`: rows last, are finitely many and bounded,
  never share a box's time, and no two of a point have one creation time.
  `TicketSafety`: the rows a ticket counts are those created before, which no
  step changes; of two rows in a box one counts the other and what that
  counts. `OverflowSafety`: the four queries filter the row that changes both
  before and after. `BoardSafety`: a live booking of the day is missing only if
  its box was removed or a later one of the same day washes in the same box of
  the same point; a box has a last wash and a first booking
  since starts are bounded, and one of each since rows that start together
  overlap.
- **BoardProof**, figures. `FiguresInv` adds to `ViewsInv` that rows are as asked
  for (`Asked`), items are a basket that was on offer (`Sold`) and scans have
  times. The rest is about `Total`: it adds over disjoint sets,
  exchanges the order of two sums, and is at most a bound per part times the
  number of parts. `ReportSafety`: services and bars each divide the rows that
  are summed, and a row lies in one day; the boxes divide them but for the rows
  out of queue and those of removed boxes, for any set of boxes
  that is left. `UtilizationSafety`: bookings of a
  box that do not overlap take at most the span they lie in; by the same kind of
  induction, since all others end before the one that starts last. `ScanSafety`: of
  the four queries each later one sees at least the scans of the earlier, and the bars
  divide the week.
- **NotificationProof**. `OneSender` (at most one live call has claimed a stage)
  carries `OnceSafety`; `CallsOK` (which phones a call has served, and
  whether one of them was heard of) and `UnheardOK` carry `RecordSafety`; `RipeOK`
  (what a scheduler holds was due when it looked, and due-by-time is never
  undone) carries `TimeSafety`.
  `Implementation`: each stage implements StagePush under `StageState`. A claim
  meets no row, a send comes from the one call that attends and from a phone it
  has not served, a result agrees with the answers that arrived, and the end of that call
  without a result is the loss; every other step is a stutter. `StageSafety` is the
  same as the property the run checks.
- **SessionsProof**. `JobsOK`, `LoginsIssued` (a login is named by an issued
  token) and the two properties together are inductive: `RotationSafety`,
  `EndSafety`. `Implementation`: Sessions implements Logins under `LoginState`.
  Revoking and lapsing narrow the usable tokens and close logins; a refresh
  keeps its login open because revoking the old token is what makes the request
  about to issue the new one; only a sign-in opens one, under a name that no
  token has carried before. `LockoutSafety`: `LockoutOK` says how an entry
  follows from the history of failures, which is split into runs: `lastFailure`
  is the newest, the counter is the place of the newest in its run modulo
  `MaxFailures`, `lockedUntil` is the last lock a full run has earned, and an
  entry is missing only when the next failure starts a run.
- **PhoneSignInProof**. `CodesSafety`: a counter may lag behind what was tried,
  since a save writes the row read earlier, but never runs ahead (`SavesCount`),
  and is exact while requests do not overlap (`CodesExact`). `LimiterSafety`:
  `LimiterOK` divides the requests let through into windows by who opened them;
  a window holds at most the limit, and two windows that follow each other open
  a window apart but for the longest wait, so a shorter span meets two.
- **OnboardingProof**. `JobsOK` says what a request at each statement of Approve,
  CreatePoint and the others has made already and what the rows it holds may
  say; `OneFiller` and `NothingWithoutPoint` keep two requests from filling one
  point. From it: `ApprovalSafety`, `ActivationSafety`; `UndisturbedSafety` from
  what holds between the statements of the only request.
- **QRPoolProof**. Coherence of the table alone is not inductive, since a save
  writes a row read long before: the invariant adds that every row a request
  holds is coherent as it is, and leaves two codes on a point to the index.
  From it: `PoolStaysCoherent`. For requests one after the other `Underway` adds
  what each is about to put where the last intention wants it:
  `PointKeepsItsCode`, `DisabledStays`.

The proofs corrected the models twice: two cases of `Intended` (QRPool)
overlapped, and `TicketsStable` claimed tickets to be unique where boxes share
a letter, which no instance with two boxes can show.

### What is only model-checked

Every invariant, action property and refinement that a passing run checks is
stated by a theorem. What remains is liveness (`RequestsFinish`,
`ChangesReachStreams`, `TrackersEnd`, `DueStagesGoOut`), since the prover
handles neither fairness nor ENABLED, and the counterexample of `board_gap`.
Induction over data is used where it can be put without an operator as a
parameter: a set of counterexamples has a smallest member, and there is none.

## 5. Findings

- **Changes between first snapshot and Subscribe are missed** (`board_gap`),
  until something else changes. This is why `NoLostWakeup` speaks of streams
  that have been woken at least once.

The others are places where the code and its documentation differ. The models
contain the steps, and the properties are stated around them:

- **A paused wash that is finished stays paused** (`queue/repository.go:283`).
  The guarded UPDATE of `paused_at` is there so that no ready booking is paused,
  but `UpdateStatus` never clears the field: pause, then finish.
- **Timed pushes of canceled bookings** (`notification/scheduler.go:36`). The due
  list is read once per tick and worked through without another look at the
  status.
- **A flip of a box may go unpublished** (`box/handler.go:134`). Whether to
  publish is decided on the row read at the start of the request. This is why
  `NoLostWakeup` speaks of bookings.
- **Disable is not terminal** (`qrcode/manager.go:107`). `Unassign` does not look
  at the status and returns a disabled code to the pool, its `disabled_at` kept.
- **A walk-in's first ticket is always number 11** (`queue/handler_day.go:133`):
  `createManual` counts tickets over the new row alone, and the day view then
  shows another number.
- **A gap of exactly the lockout's duration** (`platform/ratelimit/lockout.go:74`).
  The comment of `NewLockout` (lines 27-28) counts failures with "no gap longer than
  duration between them"; `Fail` starts anew at `>= l.duration`, so a gap of
  exactly the duration is already too long. `LockedIffEarned` has the code's
  boundary.
- **Two covers, or none** (`photo/manager.go:44`). `docs/DATA_MODEL.md:198` promises
  "exactly one cover per point, enforced in `photo.Manager`". Two first uploads at
  once both count no photo and make two covers, and a failure between
  `UnsetCover` and `Create`, or between `Delete` and `SetCover`, leaves none. This
  is why `OneMarkWhenUndisturbed` speaks of requests that neither overlap nor fail.
- **Two of the deltas are never null** (`queue/reports.go:203`), though the
  documentation says every one is when there is nothing to compare with.

Found too, but promised nowhere: a booking may be made in a box closed between
plan and insert; two uploads at once exceed the limit of photos; a photo whose
INSERT was committed and its answer lost has a row without a file, since `Upload`
removes the file again; a stage is recorded as failed although a phone got it,
when the provider's answer was lost; an approval that fails half-way and is repeated
makes a second point; a refresh between its two statements survives the
revocation of all sessions; two verifications at once count as one attempt; an
older code that was never used counts again once the newer one is consumed; of
two washes in one box the boards show the later; the `O-` of out-of-queue
tickets is also the letter of box 15, and letters repeat after box 26, so with
that many boxes two bookings of a day may carry one ticket; a request that reads the
clock, waits for the limiter's mutex and gets it after a sweep opens a window in
the past, so slightly more than twice the limit may pass within a window's span.

## 6. What the models leave out

- **Booking**: a commit whose answer is lost, and a crash of the process (the
  transaction rolls back; a change committed and never announced is left to the
  next change). Prices and cars are data.
- **PointDay**: the other days of the week. Two replacements of the week at once
  both insert all seven weekdays, so the unique key of
  `migrations/000016_create_washing_point_schedules.up.sql` makes one of them fail as a
  whole, and `Replace` is one step; two creates of a box at once meet the unique
  number.
- **BoardStream**: that creating or deleting a box publishes nothing.
- **Notification**: text messages. A stage whose process dies stays `pending`
  and is never tried again (at most once, by design), a "finished" push may
  overtake "started", and a phone may change accounts between the listing and
  the send: the model contains these, and lost answers, and no property forbids them.
- **Sessions**: the reviewer login and access tokens (which nothing revokes).
  The lockout reads the clock just before it takes its mutex; the model does
  both in one step, since PhoneSignIn shows what the distance means.
- **PhoneSignIn**: other phones of the same address, and other addresses except
  for their sweep; the message that carries a code, which may fail after the
  row is there; the reviewer's fixed code.
- **Onboarding**: the names of two points colliding through the `-worker` suffix,
  admins' edits of owners, and fields other than the ones approval needs. A
  stale whole-row save may undo a deactivation: the model contains it, and
  `ActiveMeansActivated` asks only that an admin once decided for it.
- **QRPool**: tokens, printed numbers, labels of batches, and points that are
  deleted.
- **Views**: names, labels, percentages, sort orders and pages; two rows created
  in the same instant at a point, which its lock and one clock exclude; that
  the queries of one answer may see different bookings (only the scans of a
  code do); the admin's list of points.
- **Not modelled at all**: cars, which are plain rows; HTTP decoding, wiring and
  configuration; adapters to files, cryptography and providers; seed programs.

## 7. Plan

The order was: bookings and their refinement, slot arithmetic, boards, pushes,
sessions and their refinement, lists, onboarding, the QR pool, what the API
shows, one-time codes, and the promise of a stage. The invariants were proved
in that order, the sums and the sweep last. What may follow:

1. Liveness with the prover, should it learn about ENABLED.
2. The admin's list of points and the text messages, if they come to matter.
