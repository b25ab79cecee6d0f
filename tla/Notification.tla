---------------------------- MODULE Notification ----------------------------
(***************************************************************************)
(* Booking-stage pushes: internal/notification (Manager.NotifyStage, the   *)
(* Scheduler, the notifications table) and internal/device (the table of   *)
(* push tokens), on top of the bookings that BookingLedger describes and   *)
(* module Booking implements.                                              *)
(*                                                                         *)
(* Several API instances run a scheduler each, and every change to washing *)
(* or ready starts a goroutine of its own.  They all run NotifyStage,      *)
(* whose statements and calls interleave with each other, with the staff,  *)
(* and with phones that register, unregister and change accounts.  Text    *)
(* messages (POST /notifications) are not modelled.                        *)
(***************************************************************************)
EXTENDS QueueTable

CONSTANTS
    Instances,     \* API processes
    Tokens,        \* push tokens of phones
    NoUser,        \* the owner of a token that is not registered
    ReminderLead,  \* how long before the start reminder_1h is due
    LateDelay,     \* how long after the start late_5m is due
    LateCap,       \* how long after the start it stops being due
    MaxClock,      \* bound on time
    MaxFaults      \* bound on database errors, lost answers and crashes

TimedKind == {"reminder_1h", "late_5m"}
StatusKind == {"started", "finished"}
Kind == TimedKind \cup StatusKind

ASSUME NotificationAssumption ==
    /\ ReminderLead \in Nat /\ LateDelay \in Nat /\ LateCap \in Nat
    /\ MaxClock \in Nat /\ MaxFaults \in Nat
    /\ NoUser \notin Users
    /\ Instances \cap (Ids \X StatusKind) = {}

VARIABLES
    created_at,    \* booking -> when it was made
    clock,
    device,        \* device_tokens: token -> user
    notifications, \* <<booking, kind>> -> status of its row, "none" without one
    tick,          \* instance -> where its scheduler stands
    call,          \* worker -> the NotifyStage call it is in
    pushes,        \* <<booking, kind, token>> -> pushes the provider accepted
    unheard,       \* (history) the pushes it accepted though the sender got an error
    faults

ledgerVars == <<queue, created_at, clock>>
pushVars == <<pushes, unheard>>
vars == <<ledgerVars, device, notifications, tick, call, pushVars, faults>>

(* A scheduler runs one call at a time; a status change starts a goroutine. *)
Workers == Instances \cup (Ids \X StatusKind)

NoTick == [at |-> "off"]
Tick == [at : {"find", "loop"}, kind : TimedKind, now : 0..MaxClock, due : SUBSET Ids]

NoCall == [at |-> "idle"]
Call ==
    [at : {"list", "create", "send", "drop", "result"}, id : Ids, kind : Kind,
     left : SUBSET Tokens, dead : SUBSET Tokens, delivered : BOOLEAN]

NotifyStage(id, kind) ==
    [at |-> "list", id |-> id, kind |-> kind, left |-> {}, dead |-> {}, delivered |-> FALSE]

Init ==
    /\ queue = [id \in Ids |-> NoRow]
    /\ created_at = [id \in Ids |-> 0]
    /\ clock = 0
    /\ device = [t \in Tokens |-> NoUser]
    /\ notifications = [n \in Ids \X Kind |-> "none"]
    /\ tick = [i \in Instances |-> NoTick]
    /\ call = [w \in Workers |-> NoCall]
    /\ pushes = [p \in Ids \X Kind \X Tokens |-> 0]
    /\ unheard = {}
    /\ faults = 0

-----------------------------------------------------------------------------
(* The world around it: bookings, phones and time *)

Ledger == INSTANCE BookingLedger

(* An app booking starts in the future; staff may enter one that has begun. *)
Book(id, a) ==
    /\ a.source = "app" => a.start > clock
    /\ Ledger!Book(id, a)
    /\ created_at' = [created_at EXCEPT ![id] = clock]
    /\ UNCHANGED <<clock, device, notifications, tick, call, pushVars, faults>>

kindForStatus(s) ==
    CASE s = "washing" -> {"started"}
      [] s = "ready"   -> {"finished"}
      [] OTHER         -> {}

(* A staff status change; NotifyStatus starts the goroutine of its stage. *)
Move(id, to) ==
    /\ Ledger!Move(id, to)
    /\ call' = [w \in Workers |-> IF \E k \in kindForStatus(to) : w = <<id, k>>
                                  THEN NotifyStage(id, w[2]) ELSE call[w]]
    /\ UNCHANGED <<created_at, clock, device, notifications, tick, pushVars, faults>>

Cancel(id) ==
    /\ Ledger!Cancel(id)
    /\ UNCHANGED <<created_at, clock, device, notifications, tick, call, pushVars, faults>>

(* PUT /me/devices: a known token moves to the caller. *)
Upsert(t, u) ==
    /\ device[t] # u
    /\ device' = [device EXCEPT ![t] = u]
    /\ UNCHANGED <<ledgerVars, notifications, tick, call, pushVars, faults>>

(* DELETE /me/devices/{token} by its owner; anybody else's does nothing. *)
DeleteOwned(t, u) ==
    /\ device[t] = u
    /\ device' = [device EXCEPT ![t] = NoUser]
    /\ UNCHANGED <<ledgerVars, notifications, tick, call, pushVars, faults>>

Advance ==
    /\ clock < MaxClock
    /\ clock' = clock + 1
    /\ UNCHANGED <<queue, created_at, device, notifications, tick, call, pushVars, faults>>

-----------------------------------------------------------------------------
(* Scheduler *)

(* dueWindows: is the stage of a booking that starts then due at now? *)
MutLateFromStart(kind, start, now) ==
    CASE kind = "reminder_1h" -> start <= now + ReminderLead /\ now < start
      [] kind = "late_5m"     -> start <= now /\ now < start + LateCap

InWindow(kind, start, now) ==
    CASE kind = "reminder_1h" -> start <= now + ReminderLead /\ now < start
      [] kind = "late_5m"     -> start + LateDelay <= now /\ now < start + LateCap

FindDue(kind, now) ==
    {id \in Ids :
        /\ queue[id].status \in {"queue", "waiting"}
        /\ InWindow(kind, queue[id].start, now)
        /\ \E t \in Tokens : device[t] = queue[id].user
        /\ notifications[<<id, kind>>] = "none"
        /\ kind = "reminder_1h" => created_at[id] + ReminderLead <= queue[id].start}

(* Run: the ticker fires and Tick(now) begins with the reminders. *)
Fire(i) ==
    /\ tick[i] = NoTick
    /\ tick' = [tick EXCEPT ![i] = [at |-> "find", kind |-> "reminder_1h", now |-> clock, due |-> {}]]
    /\ UNCHANGED <<ledgerVars, device, notifications, call, pushVars, faults>>

Select(i) ==
    /\ tick[i].at = "find"
    /\ tick' = [tick EXCEPT ![i].at = "loop", ![i].due = FindDue(tick[i].kind, tick[i].now)]
    /\ UNCHANGED <<ledgerVars, device, notifications, call, pushVars, faults>>

(* The next booking of the list, in the order of scheduled_start_at. *)
MutTakeOne(i) ==
    /\ tick[i].at = "loop" /\ call[i] = NoCall
    /\ \E id \in tick[i].due :
          /\ \A other \in tick[i].due : queue[id].start <= queue[other].start
          /\ call' = [call EXCEPT ![i] = NotifyStage(id, tick[i].kind)]
          /\ tick' = [tick EXCEPT ![i].due = {}]
    /\ UNCHANGED <<ledgerVars, device, notifications, pushVars, faults>>

Take(i) ==
    /\ tick[i].at = "loop" /\ call[i] = NoCall
    /\ \E id \in tick[i].due :
          /\ \A other \in tick[i].due : queue[id].start <= queue[other].start
          /\ call' = [call EXCEPT ![i] = NotifyStage(id, tick[i].kind)]
          /\ tick' = [tick EXCEPT ![i].due = @ \ {id}]
    /\ UNCHANGED <<ledgerVars, device, notifications, pushVars, faults>>

(* The list is done: on to the late bookings, with the same now, or finish. *)
NextKind(i) ==
    /\ tick[i].at = "loop" /\ call[i] = NoCall /\ tick[i].due = {}
    /\ tick' = [tick EXCEPT ![i] = IF tick[i].kind = "reminder_1h"
                                   THEN [tick[i] EXCEPT !.at = "find", !.kind = "late_5m"]
                                   ELSE NoTick]
    /\ UNCHANGED <<ledgerVars, device, notifications, call, pushVars, faults>>

-----------------------------------------------------------------------------
(* NotifyStage, statement by statement *)

Return(w) == call' = [call EXCEPT ![w] = NoCall]

(* Overflow bookings and owners without a phone are skipped. *)
ListByUser(w) ==
    LET c    == call[w]
        mine == {t \in Tokens : device[t] = queue[c.id].user}
    IN  /\ c.at = "list"
        /\ IF queue[c.id].overflow \/ mine = {} THEN Return(w)
           ELSE call' = [call EXCEPT ![w].at = "create", ![w].left = mine]
        /\ UNCHANGED <<ledgerVars, device, notifications, tick, pushVars, faults>>

(* INSERT ... ON CONFLICT DO NOTHING: only the one that inserts goes on. *)
MutIgnoreConflict(w) ==
    LET c == call[w]
    IN  /\ c.at = "create"
        /\ call' = [call EXCEPT ![w].at = "send"]
        /\ notifications' = [notifications EXCEPT ![<<c.id, c.kind>>] = "pending"]
        /\ UNCHANGED <<ledgerVars, device, tick, pushVars, faults>>

MutRetryFailed(w) ==
    LET c == call[w]
    IN  /\ c.at = "create"
        /\ \/ /\ notifications[<<c.id, c.kind>>] \in {"none", "failed"}
              /\ notifications' = [notifications EXCEPT ![<<c.id, c.kind>>] = "pending"]
              /\ call' = [call EXCEPT ![w].at = "send"]
           \/ /\ notifications[<<c.id, c.kind>>] \notin {"none", "failed"}
              /\ Return(w)
              /\ UNCHANGED notifications
        /\ UNCHANGED <<ledgerVars, device, tick, pushVars, faults>>

CreateOnce(w) ==
    LET c == call[w]
    IN  /\ c.at = "create"
        /\ \/ /\ notifications[<<c.id, c.kind>>] = "none"
              /\ notifications' = [notifications EXCEPT ![<<c.id, c.kind>>] = "pending"]
              /\ call' = [call EXCEPT ![w].at = "send"]
           \/ /\ notifications[<<c.id, c.kind>>] # "none"
              /\ Return(w)
              /\ UNCHANGED notifications
        /\ UNCHANGED <<ledgerVars, device, tick, pushVars, faults>>

Answer == {"ok", "error", "unregistered", "lost"}

(* After a token: its removal if it is dead, the next one, or the result. *)
AfterToken(left, dead) ==
    IF dead # {} THEN "drop" ELSE IF left = {} THEN "result" ELSE "send"

(***************************************************************************)
(* push.Send accepts, fails, or reports the token unregistered.  When the  *)
(* answer of an accepted push is lost (client.Do times out or its          *)
(* connection breaks), Send fails too, and the phone has the push.         *)
(***************************************************************************)
Send(w, t, answer) ==
    LET c    == call[w]
        p    == <<c.id, c.kind, t>>
        left == c.left \ {t}
        dead == IF answer = "unregistered" THEN {t} ELSE {}
    IN  /\ c.at = "send" /\ t \in c.left
        /\ answer = "lost" => faults < MaxFaults
        /\ faults' = IF answer = "lost" THEN faults + 1 ELSE faults
        /\ pushes' = [pushes EXCEPT ![p] = IF answer \in {"ok", "lost"} THEN @ + 1 ELSE @]
        /\ unheard' = IF answer = "lost" THEN unheard \cup {p} ELSE unheard
        /\ call' = [call EXCEPT ![w] =
                      [c EXCEPT !.at = AfterToken(left, dead), !.left = left, !.dead = dead,
                                !.delivered = @ \/ answer = "ok"]]
        /\ UNCHANGED <<ledgerVars, device, notifications, tick>>

DeleteByToken(w) ==
    LET c == call[w]
    IN  /\ c.at = "drop"
        /\ device' = [t \in Tokens |-> IF t \in c.dead THEN NoUser ELSE device[t]]
        /\ call' = [call EXCEPT ![w] = [c EXCEPT !.at = AfterToken(c.left, {}), !.dead = {}]]
        /\ UNCHANGED <<ledgerVars, notifications, tick, pushVars, faults>>

MutAlwaysSent(w) ==
    LET c == call[w]
    IN  /\ c.at = "result"
        /\ notifications' = [notifications EXCEPT ![<<c.id, c.kind>>] = "sent"]
        /\ Return(w)
        /\ UNCHANGED <<ledgerVars, device, tick, pushVars, faults>>

UpdateDeliveryResult(w) ==
    LET c == call[w]
    IN  /\ c.at = "result"
        /\ notifications' = [notifications EXCEPT ![<<c.id, c.kind>>] =
                               IF c.delivered THEN "sent" ELSE "failed"]
        /\ Return(w)
        /\ UNCHANGED <<ledgerVars, device, tick, pushVars, faults>>

-----------------------------------------------------------------------------
(* Failures *)

(***************************************************************************)
(* A database error.  NotifyStage returns, but keeps on after a failed     *)
(* removal; Tick goes on to its next booking or its next kind.  When the   *)
(* answer of CreateOnce is lost, the row is there and nobody sends.        *)
(***************************************************************************)
Error(w) ==
    LET c   == call[w]
        row == <<c.id, c.kind>>
    IN  /\ faults < MaxFaults
        /\ faults' = faults + 1
        /\ \/ c.at \in {"list", "create", "result"} /\ Return(w) /\ UNCHANGED <<tick, notifications>>
           \/ /\ c.at = "create" /\ notifications[row] = "none" /\ Return(w) /\ UNCHANGED tick
              /\ notifications' = [notifications EXCEPT ![row] = "pending"]
           \/ /\ c.at = "drop"
              /\ call' = [call EXCEPT ![w] = [c EXCEPT !.at = AfterToken(c.left, {}), !.dead = {}]]
              /\ UNCHANGED <<tick, notifications>>
           \/ /\ w \in Instances /\ tick[w].at = "find"
              /\ tick' = [tick EXCEPT ![w].at = "loop"]
              /\ UNCHANGED <<call, notifications>>
        /\ UNCHANGED <<ledgerVars, device, pushVars>>

(* The process dies, is shut down, or runs into NotifyStatus's timeout. *)
Crash(w) ==
    /\ faults < MaxFaults
    /\ call[w] # NoCall \/ (w \in Instances /\ tick[w] # NoTick)
    /\ faults' = faults + 1
    /\ Return(w)
    /\ tick' = [i \in Instances |-> IF i = w THEN NoTick ELSE tick[i]]
    /\ UNCHANGED <<ledgerVars, device, notifications, pushVars>>

-----------------------------------------------------------------------------

NotifyStep(w) ==
    \/ ListByUser(w) \/ CreateOnce(w) \/ DeleteByToken(w) \/ UpdateDeliveryResult(w)
    \/ \E t \in Tokens, answer \in Answer : Send(w, t, answer)

TickStep(i) == Fire(i) \/ Select(i) \/ Take(i) \/ NextKind(i)

Next ==
    \/ \E id \in Ids : \/ \E a \in Asks : Book(id, a)
                       \/ \E to \in Status : Move(id, to)
                       \/ Cancel(id)
    \/ \E t \in Tokens, u \in Users : Upsert(t, u) \/ DeleteOwned(t, u)
    \/ Advance
    \/ \E i \in Instances : TickStep(i)
    \/ \E w \in Workers : NotifyStep(w) \/ Error(w) \/ Crash(w)

Spec == Init /\ [][Next]_vars

(* Tickers keep firing and goroutines run on; nothing else has to happen. *)
FairSpec ==
    /\ Spec
    /\ \A i \in Instances : WF_vars(TickStep(i))
    /\ \A w \in Workers : WF_vars(NotifyStep(w))

-----------------------------------------------------------------------------
(* Properties *)

(* Bookings, tokens, rows, ticks and calls keep their shapes. *)
TypeOK ==
    /\ queue \in [Ids -> Row \cup {NoRow}]
    /\ created_at \in [Ids -> 0..MaxClock] /\ clock \in 0..MaxClock
    /\ device \in [Tokens -> Users \cup {NoUser}]
    /\ notifications \in [Ids \X Kind -> {"none", "pending", "sent", "failed"}]
    /\ tick \in [Instances -> Tick \cup {NoTick}]
    /\ call \in [Workers -> Call \cup {NoCall}]
    /\ pushes \in [Ids \X Kind \X Tokens -> Nat] /\ unheard \subseteq Ids \X Kind \X Tokens
    /\ faults \in 0..MaxFaults

(***************************************************************************)
(* "At most once per booking": no phone gets the same stage of a booking   *)
(* twice, with any number of schedulers, restarts of a call, restored      *)
(* bookings and phones that change hands (CreateOnce's unique index).      *)
(***************************************************************************)
AtMostOnce == \A p \in Ids \X Kind \X Tokens : pushes[p] <= 1

(* Has the stage of the booking reached a phone? *)
Got(id, k) == \E t \in Tokens : pushes[<<id, k, t>>] > 0

(* The phones it has reached with the sender's knowledge. *)
Known(id, k) == {t \in Tokens : pushes[<<id, k, t>>] > 0 /\ <<id, k, t>> \notin unheard}

(***************************************************************************)
(* What the notifications table says happened did happen, as far as the    *)
(* sender was told: a push stage recorded as sent was accepted for some    *)
(* phone and the sender heard so; of one recorded as failed, each push     *)
(* that was accepted all the same had its answer lost; and nothing is sent *)
(* without a record.                                                       *)
(***************************************************************************)
RecordsAreTrue ==
    \A id \in Ids, k \in Kind :
        /\ notifications[<<id, k>>] = "sent" => Known(id, k) # {}
        /\ notifications[<<id, k>>] = "failed" => Known(id, k) = {}
        /\ notifications[<<id, k>>] = "none" => ~Got(id, k)

(* Where a call has inserted its row and is sending. *)
Sending == {"send", "drop", "result"}

Attends(w, id, k) == call[w].at \in Sending /\ call[w].id = id /\ call[w].kind = k

(* A stage whose row waits for a result is under way while a call attends  *)
(* to it, and lost afterwards.                                             *)
StageState(id, k) ==
    IF notifications[<<id, k>>] # "pending" THEN notifications[<<id, k>>]
    ELSE IF \E w \in Workers : Attends(w, id, k) THEN "under way" ELSE "lost"

Received(id, k) == [t \in Tokens |-> pushes[<<id, k, t>>]]

Stage(id, k) ==
    INSTANCE StagePush WITH Phones <- Tokens, state <- StageState(id, k),
                            received <- Received(id, k), known <- Known(id, k)

(***************************************************************************)
(* Seen from outside, each stage behaves as StagePush says: whichever      *)
(* schedulers and goroutines work on it, fail or die on the way, nobody    *)
(* takes up what another has sent, recorded or lost (NotifyStage,          *)
(* CreateOnce, UpdateDeliveryResult; no transaction around them).          *)
(***************************************************************************)
StagesSpec ==
    /\ \A id \in Ids, k \in Kind : Stage(id, k)!Init
    /\ [][\A id \in Ids, k \in Kind : [Stage(id, k)!Next]_<<StageState(id, k), Received(id, k), Known(id, k)>>]_vars

(***************************************************************************)
(* No timed push is early, and no reminder goes to somebody who booked at  *)
(* short notice, although a tick works with the time it started at         *)
(* (dueWindows and FindDue).                                               *)
(***************************************************************************)
NeverEarly ==
    \A id \in Ids, t \in Tokens :
        /\ pushes[<<id, "reminder_1h", t>>] > 0 =>
              /\ queue[id].start <= clock + ReminderLead
              /\ created_at[id] + ReminderLead <= queue[id].start
        /\ pushes[<<id, "late_5m", t>>] > 0 => queue[id].start + LateDelay <= clock

(***************************************************************************)
(* A due stage goes out: a booking FindDue would select is recorded by     *)
(* some scheduler, or stops being due.  No call that fails or crashes and  *)
(* no other booking in the list keeps it waiting for ever.                 *)
(***************************************************************************)
DueStagesGoOut ==
    \A id \in Ids, k \in TimedKind :
        (id \in FindDue(k, clock) /\ ~queue[id].overflow) ~> id \notin FindDue(k, clock)
=============================================================================
