------------------------- MODULE NotificationProof -------------------------
(***************************************************************************)
(* At most one push per stage and phone, truthful records and no early     *)
(* pushes, for any number of instances, bookings, phones and faults.       *)
(***************************************************************************)
EXTENDS Notification, TLAPS

USE DEF pushVars

(* A row is absent exactly when its status is none of the statuses. *)
LEMMA RowShape ==
    ASSUME NEW q \in Row \cup {NoRow}
    PROVE  /\ q # NoRow <=> q \in Row
           /\ q # NoRow <=> q.status \in Status
  BY DEF Row, NoRow, Status

(* A booking that is asked for becomes a row. *)
LEMMA AskShape ==
    ASSUME NEW a \in Asks PROVE NewRow(a) \in Row
  BY AskAssumption DEF AskType, End, NewRow, Row, Status

(* A change of status keeps a row a row and does not move the booking. *)
LEMMA WithStatusShape ==
    ASSUME NEW q \in Row, NEW to \in Status
    PROVE  WithStatus(q, to) \in Row /\ WithStatus(q, to).start = q.start
  BY DEF WithStatus, Row, Status

(* Staff transitions lead from a status to a status. *)
LEMMA TransitionShape ==
    ASSUME NEW s, NEW to \in staffStatusTransitions(s)
    PROVE  s \in Status /\ to \in Status
  BY DEF staffStatusTransitions, Status

(***************************************************************************)
(* A call that is sending inserted the row, which still awaits a result,   *)
(* has pushed nothing to the phones that are left, and has heard of each   *)
(* push that is known.  A call that has not inserted has delivered nothing. *)
(***************************************************************************)
CallOK(w) ==
    /\ call[w].at \in Sending =>
          /\ notifications[<<call[w].id, call[w].kind>>] = "pending"
          /\ \A t \in call[w].left : pushes[<<call[w].id, call[w].kind, t>>] = 0
          /\ call[w].delivered <=> Known(call[w].id, call[w].kind) # {}
    /\ call[w].at \in {"list", "create"} => ~call[w].delivered

CallsOK == \A w \in Workers : CallOK(w)

(* Only the answer of a push that was accepted can be lost. *)
UnheardOK == \A p \in unheard : pushes[p] > 0

(* No two calls send the same stage of a booking. *)
OneSender ==
    \A v, w \in Workers :
        /\ call[v].at \in Sending /\ call[w].at \in Sending
        /\ call[v].id = call[w].id /\ call[v].kind = call[w].kind
        => v = w

(* Has the timed stage of the booking come due, and may it be sent? *)
Ripe(id, k) ==
    /\ queue[id] # NoRow
    /\ k = "reminder_1h" => /\ queue[id].start <= clock + ReminderLead
                            /\ created_at[id] + ReminderLead <= queue[id].start
    /\ k = "late_5m" => queue[id].start + LateDelay <= clock

(* What schedulers have selected or sent was due at the time. *)
RipeOK ==
    /\ \A i \in Instances : tick[i] # NoTick => tick[i].now <= clock
    /\ \A id \in Ids, k \in Kind :
          /\ \A i \in Instances : tick[i] # NoTick /\ id \in tick[i].due /\ k = tick[i].kind => Ripe(id, k)
          /\ \A w \in Workers : call[w] # NoCall /\ id = call[w].id /\ k = call[w].kind => Ripe(id, k)
          /\ Got(id, k) => Ripe(id, k)

IInv == TypeOK /\ CallsOK /\ OneSender /\ UnheardOK /\ RipeOK /\ AtMostOnce /\ RecordsAreTrue

-----------------------------------------------------------------------------
(* Shapes *)

(* A worker that is busy is in a call with all its fields. *)
LEMMA CallShape ==
    ASSUME NEW c \in Call \cup {NoCall}
    PROVE  /\ c # NoCall <=> c.at # "idle"
           /\ c # NoCall => /\ c \in Call /\ c.id \in Ids /\ c.kind \in Kind
                            /\ c.at \in {"list", "create", "send", "drop", "result"}
                            /\ c.left \in SUBSET Tokens /\ c.dead \in SUBSET Tokens
                            /\ c.delivered \in BOOLEAN
  BY DEF Call, NoCall

(* A tick that runs has a stage, a time and a list of bookings. *)
LEMMA TickShape ==
    ASSUME NEW k \in Tick \cup {NoTick}
    PROVE  /\ k # NoTick <=> k.at # "off"
           /\ k # NoTick => /\ k \in Tick /\ k.kind \in TimedKind
                            /\ k.now \in 0..MaxClock /\ k.due \in SUBSET Ids
  BY DEF Tick, NoTick

(* A new call is one that has only been made. *)
LEMMA NotifyShape ==
    ASSUME NEW id \in Ids, NEW k \in Kind
    PROVE  /\ NotifyStage(id, k) \in Call /\ NotifyStage(id, k).at = "list"
           /\ NotifyStage(id, k).id = id /\ NotifyStage(id, k).kind = k
           /\ NotifyStage(id, k).delivered = FALSE
  BY DEF NotifyStage, Call

(* The world around: booking, moving and canceling. *)
Ledgers ==
    \E id \in Ids : (\E a \in Asks : Book(id, a)) \/ (\E to \in Status : Move(id, to)) \/ Cancel(id)

(* What happens to bookings never removes one nor moves its start. *)
LEMMA TableStep ==
    ASSUME TypeOK, Ledgers
    PROVE  /\ queue' \in [Ids -> Row \cup {NoRow}]
           /\ created_at' \in [Ids -> 0..MaxClock]
           /\ \A id \in Ids : queue[id] # NoRow => /\ queue'[id] # NoRow
                                                   /\ queue'[id].start = queue[id].start
                                                   /\ created_at'[id] = created_at[id]
<1>1. ASSUME NEW id \in Ids, NEW a \in Asks, Book(id, a)
      PROVE  /\ queue' \in [Ids -> Row \cup {NoRow}]
             /\ created_at' \in [Ids -> 0..MaxClock]
             /\ \A o \in Ids : queue[o] # NoRow => /\ queue'[o] # NoRow
                                                   /\ queue'[o].start = queue[o].start
                                                   /\ created_at'[o] = created_at[o]
  <2>1. /\ queue[id] = NoRow /\ queue' = [queue EXCEPT ![id] = NewRow(a)]
        /\ created_at' = [created_at EXCEPT ![id] = clock]
    BY <1>1 DEF Book, Ledger!Book, Ledger!NoRow, NoRow, Ledger!NewRow, NewRow, Ledger!End, End
  <2>2. NewRow(a) \in Row
    BY AskShape
  <2>. QED
    BY <2>1, <2>2 DEF TypeOK
<1>2. ASSUME NEW id \in Ids, NEW to \in Status, queue[id] \in Row,
             queue' = [queue EXCEPT ![id] = WithStatus(queue[id], to)], created_at' = created_at
      PROVE  /\ queue' \in [Ids -> Row \cup {NoRow}]
             /\ created_at' \in [Ids -> 0..MaxClock]
             /\ \A o \in Ids : queue[o] # NoRow => /\ queue'[o] # NoRow
                                                   /\ queue'[o].start = queue[o].start
                                                   /\ created_at'[o] = created_at[o]
  <2>1. PICK n \in Row : n = WithStatus(queue[id], to) /\ n.start = queue[id].start
    BY <1>2, WithStatusShape
  <2>2. n # NoRow
    BY <2>1, RowShape
  <2>. QED
    BY <1>2, <2>1, <2>2 DEF TypeOK
<1>3. ASSUME NEW id \in Ids, NEW to \in Status, Move(id, to)
      PROVE  queue[id] \in Row /\ queue' = [queue EXCEPT ![id] = WithStatus(queue[id], to)]
             /\ created_at' = created_at
  <2>1. /\ to \in staffStatusTransitions(queue[id].status)
        /\ queue' = [queue EXCEPT ![id] = WithStatus(queue[id], to)]
        /\ created_at' = created_at
    BY <1>3 DEF Move, Ledger!Move, Ledger!staffStatusTransitions, staffStatusTransitions,
       Ledger!WithStatus, WithStatus
  <2>2. queue[id].status \in Status
    BY <2>1, TransitionShape
  <2>. QED
    BY <2>1, <2>2, RowShape DEF TypeOK
<1>4. ASSUME NEW id \in Ids, Cancel(id)
      PROVE  queue[id] \in Row /\ queue' = [queue EXCEPT ![id] = WithStatus(queue[id], "canceled")]
             /\ created_at' = created_at
  <2>1. /\ queue[id].status \in {"queue", "waiting"}
        /\ queue' = [queue EXCEPT ![id] = WithStatus(queue[id], "canceled")]
        /\ created_at' = created_at
    BY <1>4 DEF Cancel, Ledger!Cancel, Ledger!WithStatus, WithStatus
  <2>. QED
    BY <2>1, RowShape DEF TypeOK, Status
<1>5. "canceled" \in Status
  BY DEF Status
<1>. QED
  BY <1>1, <1>2, <1>3, <1>4, <1>5 DEF Ledgers

-----------------------------------------------------------------------------
(* Each step keeps the types *)

(* Replacing the call of one worker keeps the table of calls typed. *)
LEMMA CallsTyped ==
    ASSUME TypeOK, NEW w \in Workers, NEW c \in Call \cup {NoCall},
           call' = [call EXCEPT ![w] = c]
    PROVE  call' \in [Workers -> Call \cup {NoCall}]
  BY DEF TypeOK

(* Schedulers, and what ListByUser to UpdateDeliveryResult do to a call. *)
LEMMA NotifyTypes ==
    ASSUME TypeOK, NEW w \in Workers, NotifyStep(w)
    PROVE  TypeOK'
<1> DEFINE c == call[w]
<1>0. c \in Call \cup {NoCall}
  BY DEF TypeOK
<1>1. CASE ListByUser(w)
  <2>1. c \in Call
    BY <1>0, <1>1, CallShape DEF ListByUser
  <2>2. PICK mine \in SUBSET Tokens :
            \/ call' = [call EXCEPT ![w] = NoCall]
            \/ call' = [call EXCEPT ![w] = [c EXCEPT !.at = "create", !.left = mine]]
    BY <1>1 DEF ListByUser, Return
  <2>3. [c EXCEPT !.at = "create", !.left = mine] \in Call
    BY <2>1 DEF Call
  <2>. QED
    BY <1>1, <2>2, <2>3, CallsTyped DEF ListByUser, TypeOK, ledgerVars
<1>2. CASE CreateOnce(w)
  <2>1. c \in Call /\ c.id \in Ids /\ c.kind \in Kind
    BY <1>0, <1>2, CallShape DEF CreateOnce
  <2>2. [c EXCEPT !.at = "send"] \in Call
    BY <2>1 DEF Call
  <2>3. \/ call' = [call EXCEPT ![w] = NoCall]
        \/ call' = [call EXCEPT ![w] = [c EXCEPT !.at = "send"]]
    BY <1>2 DEF CreateOnce, Return
  <2>4. call' \in [Workers -> Call \cup {NoCall}]
    BY <2>2, <2>3, CallsTyped
  <2>5. notifications' \in [Ids \X Kind -> {"none", "pending", "sent", "failed"}]
    BY <1>2, <2>1 DEF CreateOnce, TypeOK
  <2>. QED
    BY <1>2, <2>4, <2>5 DEF CreateOnce, TypeOK, ledgerVars
<1>3. ASSUME NEW t \in Tokens, NEW answer \in Answer, Send(w, t, answer)
      PROVE  TypeOK'
  <2>1. c \in Call /\ c.id \in Ids /\ c.kind \in Kind /\ c.delivered \in BOOLEAN
        /\ c.left \in SUBSET Tokens
    BY <1>0, <1>3, CallShape DEF Send
  <2>2. PICK at, dead, delivered :
            /\ at \in Sending /\ dead \in SUBSET Tokens /\ delivered \in BOOLEAN
            /\ call' = [call EXCEPT ![w] = [c EXCEPT !.at = at, !.left = c.left \ {t},
                                                     !.dead = dead, !.delivered = delivered]]
    <3>1. AfterToken(c.left \ {t}, IF answer = "unregistered" THEN {t} ELSE {}) \in Sending
      BY DEF AfterToken, Sending
    <3>2. (c.delivered \/ answer = "ok") \in BOOLEAN
      OBVIOUS
    <3>. QED
      BY <1>3, <3>1, <3>2 DEF Send
  <2>3. [c EXCEPT !.at = at, !.left = c.left \ {t}, !.dead = dead, !.delivered = delivered] \in Call
    BY <2>1, <2>2 DEF Call, Sending
  <2>4. call' \in [Workers -> Call \cup {NoCall}]
    BY <2>2, <2>3, CallsTyped
  <2>5. /\ pushes' \in [Ids \X Kind \X Tokens -> Nat]
        /\ unheard' \subseteq Ids \X Kind \X Tokens
        /\ faults' \in 0..MaxFaults
    BY <1>3, <2>1, NotificationAssumption DEF Send, TypeOK
  <2>. QED
    BY <1>3, <2>4, <2>5 DEF Send, TypeOK, ledgerVars
<1>4. CASE DeleteByToken(w)
  <2>1. c \in Call
    BY <1>0, <1>4, CallShape DEF DeleteByToken
  <2>2. AfterToken(c.left, {}) \in Sending
    BY DEF AfterToken, Sending
  <2>3. [c EXCEPT !.at = AfterToken(c.left, {}), !.dead = {}] \in Call
    BY <2>1, <2>2 DEF Call, Sending
  <2>4. call' \in [Workers -> Call \cup {NoCall}]
    BY <1>4, <2>3, CallsTyped DEF DeleteByToken
  <2>5. device' \in [Tokens -> Users \cup {NoUser}]
    BY <1>4 DEF DeleteByToken, TypeOK
  <2>. QED
    BY <1>4, <2>4, <2>5 DEF DeleteByToken, TypeOK, ledgerVars
<1>5. CASE UpdateDeliveryResult(w)
  <2>1. c.id \in Ids /\ c.kind \in Kind
    BY <1>0, <1>5, CallShape DEF UpdateDeliveryResult
  <2>2. call' \in [Workers -> Call \cup {NoCall}]
    BY <1>5, CallsTyped DEF UpdateDeliveryResult, Return
  <2>3. notifications' \in [Ids \X Kind -> {"none", "pending", "sent", "failed"}]
    BY <1>5, <2>1 DEF UpdateDeliveryResult, TypeOK
  <2>. QED
    BY <1>5, <2>2, <2>3 DEF UpdateDeliveryResult, TypeOK, ledgerVars
<1>. QED
  BY <1>1, <1>2, <1>3, <1>4, <1>5 DEF NotifyStep

(* A status change starts calls of the stages of that booking only. *)
LEMMA MoveCalls ==
    ASSUME TypeOK, NEW id \in Ids, NEW to \in Status, Move(id, to)
    PROVE  \A w \in Workers :
              \/ call'[w] = call[w]
              \/ \E k \in StatusKind : call'[w] = NotifyStage(id, k)
<1>1. \A k \in kindForStatus(to) : k \in StatusKind
  BY DEF kindForStatus, StatusKind
<1>. QED
  BY <1>1 DEF Move

(* Each step keeps the type invariant. *)
LEMMA TypeStep ==
    ASSUME TypeOK, Next
    PROVE  TypeOK'
<1>1. CASE Ledgers
  <2>1. queue' \in [Ids -> Row \cup {NoRow}] /\ created_at' \in [Ids -> 0..MaxClock]
    BY <1>1, TableStep
  <2>2. ASSUME NEW id \in Ids, NEW a \in Asks, Book(id, a) PROVE TypeOK'
    BY <2>1, <2>2 DEF Book, TypeOK
  <2>3. ASSUME NEW id \in Ids, NEW to \in Status, Move(id, to) PROVE TypeOK'
    <3>0. \A k \in StatusKind : NotifyStage(id, k) \in Call
      BY NotifyShape DEF Kind
    <3>1. \A w \in Workers : call'[w] \in Call \cup {NoCall}
      <4>1. \A w \in Workers : call[w] \in Call \cup {NoCall}
        BY DEF TypeOK
      <4>. QED
        BY <2>3, <3>0, <4>1, MoveCalls
    <3>2. call' \in [Workers -> Call \cup {NoCall}]
      BY <2>3, <3>1 DEF Move
    <3>. QED
      BY <2>1, <2>3, <3>2 DEF Move, TypeOK
  <2>4. ASSUME NEW id \in Ids, Cancel(id) PROVE TypeOK'
    BY <2>1, <2>4 DEF Cancel, TypeOK
  <2>. QED
    BY <1>1, <2>2, <2>3, <2>4 DEF Ledgers
<1>2. ASSUME NEW t \in Tokens, NEW u \in Users, Upsert(t, u) \/ DeleteOwned(t, u)
      PROVE  TypeOK'
  BY <1>2 DEF Upsert, DeleteOwned, TypeOK, ledgerVars
<1>3. CASE Advance
  BY <1>3, NotificationAssumption DEF Advance, TypeOK
<1>4. ASSUME NEW i \in Instances, TickStep(i) PROVE TypeOK'
  <2>0. tick[i] \in Tick \cup {NoTick} /\ i \in Workers
    BY DEF TypeOK, Workers
  <2>1. CASE Fire(i)
    <3>1. [at |-> "find", kind |-> "reminder_1h", now |-> clock, due |-> {}] \in Tick
      BY DEF Tick, TypeOK, TimedKind
    <3>. QED
      BY <2>1, <3>1 DEF Fire, TypeOK, ledgerVars
  <2>2. CASE Select(i)
    <3>1. tick[i] \in Tick
      BY <2>0, <2>2, TickShape DEF Select
    <3>2. PICK due \in SUBSET Ids : due = FindDue(tick[i].kind, tick[i].now)
      BY DEF FindDue
    <3>3. [tick[i] EXCEPT !.at = "loop", !.due = due] \in Tick
      BY <3>1, <3>2 DEF Tick
    <3>4. tick' = [tick EXCEPT ![i] = [tick[i] EXCEPT !.at = "loop", !.due = due]]
      BY <2>2, <3>2 DEF Select, TypeOK
    <3>. QED
      BY ZenonT(30), <2>2, <3>3, <3>4 DEF Select, TypeOK, ledgerVars
  <2>3. CASE Take(i)
    <3>1. tick[i] \in Tick
      BY <2>0, <2>3, TickShape DEF Take
    <3>2. PICK id \in tick[i].due :
              /\ call' = [call EXCEPT ![i] = NotifyStage(id, tick[i].kind)]
              /\ tick' = [tick EXCEPT ![i] = [tick[i] EXCEPT !.due = @ \ {id}]]
      BY <2>3 DEF Take
    <3>3. id \in Ids /\ tick[i].kind \in Kind
      BY <3>1, <3>2 DEF Tick, Kind
    <3>4. [tick[i] EXCEPT !.due = @ \ {id}] \in Tick
      BY <3>1 DEF Tick
    <3>5. call' \in [Workers -> Call \cup {NoCall}]
      BY <2>0, <3>2, <3>3, NotifyShape, CallsTyped
    <3>. QED
      BY <2>3, <3>2, <3>4, <3>5 DEF Take, TypeOK, ledgerVars
  <2>4. CASE NextKind(i)
    <3>1. tick[i] \in Tick
      BY <2>0, <2>4, TickShape DEF NextKind
    <3>2. [tick[i] EXCEPT !.at = "find", !.kind = "late_5m"] \in Tick
      BY <3>1 DEF Tick, TimedKind
    <3>. QED
      BY <2>4, <3>2 DEF NextKind, TypeOK, ledgerVars
  <2>. QED
    BY <1>4, <2>1, <2>2, <2>3, <2>4 DEF TickStep
<1>5. ASSUME NEW w \in Workers, NotifyStep(w) PROVE TypeOK'
  BY <1>5, NotifyTypes
<1>6. ASSUME NEW w \in Workers, Error(w) PROVE TypeOK'
  <2>0. faults' \in 0..MaxFaults
    BY <1>6, NotificationAssumption DEF Error, TypeOK
  <2>4. notifications' \in [Ids \X Kind -> {"none", "pending", "sent", "failed"}]
    <3>1. CASE UNCHANGED notifications
      BY <3>1 DEF TypeOK
    <3>2. CASE /\ call[w].at = "create"
               /\ notifications' = [notifications EXCEPT ![<<call[w].id, call[w].kind>>] = "pending"]
      <4>1. call[w].id \in Ids /\ call[w].kind \in Kind
        BY <3>2, CallShape DEF TypeOK
      <4>. QED
        BY <3>2, <4>1 DEF TypeOK
    <3>. QED
      BY <1>6, <3>1, <3>2 DEF Error
  <2>1. CASE call' = [call EXCEPT ![w] = NoCall] /\ UNCHANGED tick
    BY <1>6, <2>4, <2>0, <2>1, CallsTyped DEF Error, TypeOK, ledgerVars
  <2>2. CASE call[w].at = "drop" /\ UNCHANGED tick
             /\ call' = [call EXCEPT ![w] = [call[w] EXCEPT !.at = AfterToken(call[w].left, {}), !.dead = {}]]
    <3>1. call[w] \in Call
      BY <2>2, CallShape DEF TypeOK
    <3>2. AfterToken(call[w].left, {}) \in Sending
      BY DEF AfterToken, Sending
    <3>3. [call[w] EXCEPT !.at = AfterToken(call[w].left, {}), !.dead = {}] \in Call
      BY <3>1, <3>2 DEF Call, Sending
    <3>4. call' \in [Workers -> Call \cup {NoCall}]
      BY <2>2, <3>3, CallsTyped
    <3>. QED
      BY <1>6, <2>4, <2>0, <2>2, <3>4 DEF Error, TypeOK, ledgerVars
  <2>3. CASE w \in Instances /\ tick[w].at = "find" /\ UNCHANGED call
             /\ tick' = [tick EXCEPT ![w] = [tick[w] EXCEPT !.at = "loop"]]
    <3>1. tick[w] \in Tick
      BY <2>3, TickShape DEF TypeOK
    <3>2. [tick[w] EXCEPT !.at = "loop"] \in Tick
      BY <3>1 DEF Tick
    <3>. QED
      BY <1>6, <2>4, <2>0, <2>3, <3>2 DEF Error, TypeOK, ledgerVars
  <2>. QED
    BY <1>6, <2>1, <2>2, <2>3 DEF Error, Return
<1>7. ASSUME NEW w \in Workers, Crash(w) PROVE TypeOK'
  <2>1. call' \in [Workers -> Call \cup {NoCall}]
    BY <1>7, CallsTyped DEF Crash, Return
  <2>2. tick' \in [Instances -> Tick \cup {NoTick}] /\ faults' \in 0..MaxFaults
    BY <1>7, NotificationAssumption DEF Crash, TypeOK
  <2>. QED
    BY <1>7, <2>1, <2>2 DEF Crash, TypeOK, ledgerVars
<1>. QED
  BY <1>1, <1>2, <1>3, <1>4, <1>5, <1>6, <1>7 DEF Next, Ledgers

-----------------------------------------------------------------------------
(* Each step keeps the records of calls and pushes in agreement *)

(* What the invariant says of rows, calls and pushes together. *)
Agree == CallsOK /\ OneSender /\ UnheardOK /\ AtMostOnce /\ RecordsAreTrue

(* Steps that only end calls, or make new ones. *)
Quiet ==
    /\ UNCHANGED <<notifications, pushes, unheard>>
    /\ \A w \in Workers : \/ call'[w] = call[w]
                          \/ call'[w] = NoCall
                          \/ call'[w].at \in {"list", "create"} /\ ~call'[w].delivered

(* A call in the middle of sending that goes on sending. *)
Onward(w) ==
    /\ UNCHANGED <<notifications, pushes, unheard>>
    /\ call[w].at \in Sending
    /\ \E n : /\ call' = [call EXCEPT ![w] = n]
             /\ n.at \in Sending /\ n.id = call[w].id /\ n.kind = call[w].kind
             /\ n.left = call[w].left /\ n.delivered = call[w].delivered

(* What RecordsAreTrue says of one stage. *)
Truthful(id, k) ==
    /\ notifications[<<id, k>>] = "sent" => Known(id, k) # {}
    /\ notifications[<<id, k>>] = "failed" => Known(id, k) = {}
    /\ notifications[<<id, k>>] = "none" => ~Got(id, k)

(* They change nothing here. *)
LEMMA QuietAgree ==
    ASSUME TypeOK, Agree, Quiet
    PROVE  Agree'
<1> USE DEF Quiet
<1>1. UnheardOK' /\ AtMostOnce' /\ RecordsAreTrue'
  BY DEF Agree, UnheardOK, AtMostOnce, RecordsAreTrue, Got, Known
<1>2. ASSUME NEW w \in Workers PROVE CallOK(w)'
  <2>1. CASE call'[w] = call[w]
    <3>1. CallOK(w)
      BY DEF Agree, CallsOK
    <3>. QED
      BY <2>1, <3>1 DEF CallOK, Got, Known
  <2>2. CASE call'[w] = NoCall
    BY <2>2 DEF CallOK, NoCall, Sending
  <2>3. CASE call'[w].at \in {"list", "create"} /\ ~call'[w].delivered
    BY <2>3 DEF CallOK, Sending
  <2>. QED
    BY <2>1, <2>2, <2>3
<1>3. ASSUME NEW v \in Workers, NEW w \in Workers,
             call'[v].at \in Sending, call'[w].at \in Sending,
             call'[v].id = call'[w].id, call'[v].kind = call'[w].kind
      PROVE  v = w
  <2>1. call'[v] = call[v] /\ call'[w] = call[w]
    BY <1>3 DEF NoCall, Sending
  <2>. QED
    BY <1>3, <2>1 DEF Agree, OneSender
<1>. QED
  BY <1>1, <1>2, <1>3 DEF Agree, CallsOK, OneSender

(* Nor does a call that goes on. *)
LEMMA OnwardAgree ==
    ASSUME TypeOK, Agree, NEW w \in Workers, Onward(w)
    PROVE  Agree'
<1>. PICK n : /\ call' = [call EXCEPT ![w] = n]
              /\ n.at \in Sending /\ n.id = call[w].id /\ n.kind = call[w].kind
              /\ n.left = call[w].left /\ n.delivered = call[w].delivered
  BY DEF Onward
<1>s. UNCHANGED <<notifications, pushes, unheard>> /\ call[w].at \in Sending
  BY DEF Onward
<1>0. \A v \in Workers : call'[v] = IF v = w THEN n ELSE call[v]
  BY DEF TypeOK
<1>1. UnheardOK' /\ AtMostOnce' /\ RecordsAreTrue'
  BY <1>s DEF Agree, UnheardOK, AtMostOnce, RecordsAreTrue, Got, Known
<1>2. ASSUME NEW v \in Workers PROVE CallOK(v)'
  <2>1. CallOK(v) /\ CallOK(w)
    BY DEF Agree, CallsOK
  <2>2. CASE v = w
    <3>1. call'[v] = n
      BY <1>0, <2>2
    <3>2. /\ notifications'[<<n.id, n.kind>>] = "pending"
          /\ \A t \in n.left : pushes'[<<n.id, n.kind, t>>] = 0
      BY <1>s, <2>1 DEF CallOK
    <3>3. n.delivered <=> (Known(n.id, n.kind) # {})'
      BY <1>s, <2>1 DEF CallOK, Got, Known
    <3> QED
      BY <3>1, <3>2, <3>3 DEF CallOK, Sending, Got, Known
  <2>3. CASE v # w
    BY <1>s, <1>0, <2>1, <2>3 DEF CallOK, Got, Known
  <2> QED
    BY <2>2, <2>3
<1>3. OneSender'
  BY <1>s, <1>0 DEF Agree, OneSender
<1>. QED
  BY <1>1, <1>2, <1>3 DEF Agree, CallsOK

(* Only the call that finds no row of its stage begins to send. *)
LEMMA CreateAgree ==
    ASSUME TypeOK, Agree, NEW w \in Workers, CreateOnce(w)
    PROVE  Agree'
<1>0. call[w] \in Call /\ call[w].id \in Ids /\ call[w].kind \in Kind
      /\ call[w].left \in SUBSET Tokens /\ call[w].at = "create"
  BY CallShape DEF CreateOnce, TypeOK
<1>1. CASE notifications[<<call[w].id, call[w].kind>>] # "none"
  BY <1>1, QuietAgree DEF CreateOnce, Return, TypeOK, Quiet
<1>2. CASE notifications[<<call[w].id, call[w].kind>>] = "none"
  <2>1. PICK i \in Ids, k \in Kind : i = call[w].id /\ k = call[w].kind
    BY <1>0
  <2>2. PICK n : n = [call[w] EXCEPT !.at = "send"]
    OBVIOUS
  <2>3. /\ n.at = "send" /\ n.id = i /\ n.kind = k
        /\ n.left = call[w].left /\ n.delivered = call[w].delivered
    BY <1>0, <2>1, <2>2 DEF Call
  <2>4. /\ \A v \in Workers : call'[v] = IF v = w THEN n ELSE call[v]
        /\ notifications' = [notifications EXCEPT ![<<i, k>>] = "pending"]
        /\ pushes' = pushes /\ unheard' = unheard
    BY <1>2, <2>1, <2>2 DEF CreateOnce, TypeOK
  <2>5. \A j \in Ids, l \in Kind :
           notifications'[<<j, l>>] = IF <<j, l>> = <<i, k>> THEN "pending" ELSE notifications[<<j, l>>]
    BY <2>4 DEF TypeOK
  <2>6. ~Got(i, k) /\ Known(i, k) = {}
    BY <1>2, <2>1 DEF Agree, RecordsAreTrue, Got, Known
  <2>7. ~call[w].delivered
    BY <1>0 DEF Agree, CallsOK, CallOK
  <2>8. \A v \in Workers : call[v].at \in Sending =>
           call[v].id \in Ids /\ call[v].kind \in Kind /\ <<call[v].id, call[v].kind>> # <<i, k>>
    <3>1. \A v \in Workers : call[v].at \in Sending => call[v].id \in Ids /\ call[v].kind \in Kind
      BY CallShape DEF TypeOK, Sending
    <3>2. \A v \in Workers : call[v].at \in Sending => notifications[<<call[v].id, call[v].kind>>] = "pending"
      BY DEF Agree, CallsOK, CallOK
    <3>. QED
      BY <1>2, <2>1, <3>1, <3>2
  <2>9. \A t \in Tokens : pushes[<<i, k, t>>] = 0
    <3>1. \A t \in Tokens : pushes[<<i, k, t>>] \in Nat /\ ~(pushes[<<i, k, t>>] > 0)
      BY <2>6 DEF Got, Known, TypeOK
    <3>. QED
      BY <3>1
  <2>10. UnheardOK' /\ AtMostOnce'
    BY <2>4 DEF Agree, UnheardOK, AtMostOnce
  <2>11. RecordsAreTrue'
    <3> SUFFICES ASSUME NEW j \in Ids, NEW l \in Kind
                 PROVE  Truthful(j, l)'
      BY DEF RecordsAreTrue, Truthful
    <3>1. (Got(j, l)' <=> Got(j, l)) /\ Known(j, l)' = Known(j, l)
      BY <2>4 DEF Got, Known
    <3>2. CASE <<j, l>> = <<i, k>>
      BY <2>5, <3>2 DEF Truthful
    <3>3. CASE <<j, l>> # <<i, k>>
      BY <2>5, <3>1, <3>3 DEF Agree, RecordsAreTrue, Truthful
    <3>. QED
      BY <3>2, <3>3
  <2>12. ASSUME NEW v \in Workers, v # w PROVE CallOK(v)'
    <3>1. call'[v] = call[v] /\ CallOK(v)
      BY <2>4, <2>12 DEF Agree, CallsOK
    <3>2. call[v].at \in Sending => notifications'[<<call[v].id, call[v].kind>>] = "pending"
      BY <2>5, <2>8, <3>1 DEF CallOK
    <3>. QED
      BY <2>4, <3>1, <3>2 DEF CallOK, Got, Known
  <2>13. CallOK(w)'
    <3>1. call'[w] = n /\ ~n.delivered
      BY <2>3, <2>4, <2>7
    <3>2. Known(i, k)' = {}
      BY <2>4, <2>6 DEF Known
    <3>3. \A t \in n.left : pushes'[<<i, k, t>>] = 0
      BY <1>0, <2>3, <2>4, <2>9
    <3>. QED
      BY <2>3, <2>5, <3>1, <3>2, <3>3 DEF CallOK, Sending, Got, Known
  <2>14. OneSender'
    BY <2>1, <2>3, <2>4, <2>8 DEF Agree, OneSender
  <2>. QED
    BY <2>10, <2>11, <2>12, <2>13, <2>14 DEF Agree, CallsOK
<1>. QED
  BY <1>1, <1>2

(* A push goes to a phone that has not had this stage, from its only sender. *)
LEMMA SendAgree ==
    ASSUME TypeOK, Agree, NEW w \in Workers, NEW t \in Tokens,
           NEW answer \in Answer, Send(w, t, answer)
    PROVE  Agree'
<1>0. call[w] \in Call /\ call[w].id \in Ids /\ call[w].kind \in Kind /\ call[w].delivered \in BOOLEAN
      /\ call[w].left \in SUBSET Tokens /\ call[w].at = "send" /\ t \in call[w].left
  BY CallShape DEF Send, TypeOK
<1>1. PICK i \in Ids, k \in Kind : i = call[w].id /\ k = call[w].kind
  BY <1>0
<1>2. PICK n : n = [call[w] EXCEPT
          !.at = AfterToken(call[w].left \ {t}, IF answer = "unregistered" THEN {t} ELSE {}),
          !.left = call[w].left \ {t},
          !.dead = IF answer = "unregistered" THEN {t} ELSE {},
          !.delivered = @ \/ answer = "ok"]
  OBVIOUS
<1>3. /\ n.at \in Sending /\ n.id = i /\ n.kind = k
      /\ n.left = call[w].left \ {t}
  BY <1>0, <1>1, <1>2 DEF Call, AfterToken, Sending
<1>4. n.delivered <=> (call[w].delivered \/ answer = "ok")
  BY <1>0, <1>2 DEF Call
<1>5. /\ \A v \in Workers : call'[v] = IF v = w THEN n ELSE call[v]
      /\ notifications' = notifications
  BY <1>2 DEF Send, TypeOK
<1>6. \A p \in Ids \X Kind \X Tokens :
         pushes'[p] = IF p = <<i, k, t>> /\ answer \in {"ok", "lost"} THEN pushes[p] + 1 ELSE pushes[p]
  BY <1>1 DEF Send, TypeOK
<1>u. unheard' = IF answer = "lost" THEN unheard \cup {<<i, k, t>>} ELSE unheard
  BY <1>1 DEF Send
<1>7. pushes[<<i, k, t>>] = 0 /\ notifications[<<i, k>>] = "pending"
  BY <1>0, <1>1 DEF Agree, CallsOK, CallOK, Sending
<1>8. AtMostOnce'
  BY <1>6, <1>7 DEF Agree, AtMostOnce
<1>v. UnheardOK'
  <2> SUFFICES ASSUME NEW p \in unheard' PROVE pushes'[p] > 0
    BY DEF UnheardOK
  <2>1. p \in unheard => p \in Ids \X Kind \X Tokens /\ pushes[p] \in Nat /\ pushes[p] > 0
    BY DEF Agree, UnheardOK, TypeOK
  <2>2. p \in unheard \/ (p = <<i, k, t>> /\ answer = "lost")
    BY <1>u
  <2>. QED
    BY <1>0, <1>6, <1>7, <2>1, <2>2
<1>9. \A j \in Ids, l \in Kind : <<j, l>> # <<i, k>> =>
         (Got(j, l)' <=> Got(j, l)) /\ Known(j, l)' = Known(j, l)
  <2> SUFFICES ASSUME NEW j \in Ids, NEW l \in Kind, <<j, l>> # <<i, k>>
               PROVE  (Got(j, l)' <=> Got(j, l)) /\ Known(j, l)' = Known(j, l)
    OBVIOUS
  <2>1. \A s \in Tokens : /\ pushes'[<<j, l, s>>] = pushes[<<j, l, s>>]
                          /\ <<j, l, s>> \in unheard' <=> <<j, l, s>> \in unheard
    BY <1>6, <1>u
  <2>. QED
    BY <2>1 DEF Got, Known
<1>10. Known(i, k)' # {} <=> Known(i, k) # {} \/ answer = "ok"
  <2>0. <<i, k, t>> \notin unheard /\ <<i, k, t>> \in Ids \X Kind \X Tokens
    BY <1>0, <1>7 DEF Agree, UnheardOK
  <2>1. CASE answer = "ok"
    <3>1. t \in Known(i, k)'
      BY <1>0, <1>6, <1>7, <1>u, <2>0, <2>1 DEF Known
    <3>. QED
      BY <2>1, <3>1
  <2>2. CASE answer # "ok"
    <3>1. ASSUME NEW s \in Tokens PROVE s \in Known(i, k)' <=> s \in Known(i, k)
      <4>1. CASE s = t
        BY <1>6, <1>7, <1>u, <2>0, <2>2, <4>1 DEF Known
      <4>2. CASE s # t
        <5>1. /\ pushes'[<<i, k, s>>] = pushes[<<i, k, s>>]
              /\ <<i, k, s>> \in unheard' <=> <<i, k, s>> \in unheard
          BY <1>6, <1>u, <4>2
        <5>. QED
          BY <5>1 DEF Known
      <4>. QED
        BY <4>1, <4>2
    <3>2. Known(i, k)' = Known(i, k)
      BY <3>1 DEF Known
    <3>. QED
      BY <2>2, <3>2
  <2>. QED
    BY <2>1, <2>2
<1>11. RecordsAreTrue'
  <2> SUFFICES ASSUME NEW j \in Ids, NEW l \in Kind
               PROVE  Truthful(j, l)'
    BY DEF RecordsAreTrue, Truthful
  <2>1. CASE <<j, l>> = <<i, k>>
    BY <1>5, <1>7, <2>1 DEF Truthful
  <2>2. CASE <<j, l>> # <<i, k>>
    BY <1>5, <1>9, <2>2 DEF Agree, RecordsAreTrue, Truthful
  <2>. QED
    BY <2>1, <2>2
<1>12. ASSUME NEW v \in Workers, v # w PROVE CallOK(v)'
  <2>1. call'[v] = call[v] /\ CallOK(v)
    BY <1>5, <1>12 DEF Agree, CallsOK
  <2>2. CASE call[v].at \in Sending
    <3>1. PICK j \in Ids, l \in Kind : j = call[v].id /\ l = call[v].kind /\ call[v].left \in SUBSET Tokens
      BY <2>2, CallShape DEF TypeOK, Sending
    <3>2. <<j, l>> # <<i, k>>
      BY <1>0, <1>1, <1>12, <2>2, <3>1 DEF Agree, OneSender, Sending
    <3>3. Known(j, l)' = Known(j, l)
      BY <1>9, <3>2
    <3>4. \A s \in call[v].left : pushes'[<<j, l, s>>] = pushes[<<j, l, s>>]
      BY <1>6, <3>1, <3>2
    <3>. QED
      BY <1>5, <2>1, <2>2, <3>1, <3>3, <3>4 DEF CallOK, Sending, Got, Known
  <2>3. CASE call[v].at \notin Sending
    BY <2>1, <2>3 DEF CallOK
  <2>. QED
    BY <2>2, <2>3
<1>13. CallOK(w)'
  <2>1. call'[w] = n
    BY <1>5
  <2>2. notifications'[<<i, k>>] = "pending"
    BY <1>5, <1>7
  <2>3. \A s \in n.left : pushes'[<<i, k, s>>] = 0
    <3>1. \A s \in n.left : s # t /\ s \in Tokens /\ pushes[<<i, k, s>>] = 0
      BY <1>0, <1>1, <1>3 DEF Agree, CallsOK, CallOK, Sending
    <3>. QED
      BY <1>6, <3>1
  <2>4. n.delivered <=> Known(i, k)' # {}
    BY <1>0, <1>1, <1>4, <1>10 DEF Agree, CallsOK, CallOK, Sending
  <2>. QED
    BY <1>3, <2>1, <2>2, <2>3, <2>4 DEF CallOK, Sending, Got, Known
<1>14. OneSender'
  BY <1>0, <1>1, <1>3, <1>5 DEF Agree, OneSender, Sending
<1>. QED
  BY <1>8, <1>v, <1>11, <1>12, <1>13, <1>14 DEF Agree, CallsOK

(* The result is recorded by the only sender, who knows what was accepted. *)
LEMMA ResultAgree ==
    ASSUME TypeOK, Agree, NEW w \in Workers, UpdateDeliveryResult(w)
    PROVE  Agree'
<1>0. call[w].id \in Ids /\ call[w].kind \in Kind /\ call[w].at = "result"
  BY CallShape DEF UpdateDeliveryResult, TypeOK
<1>1. PICK i \in Ids, k \in Kind : i = call[w].id /\ k = call[w].kind
  BY <1>0
<1>2. /\ \A v \in Workers : call'[v] = IF v = w THEN NoCall ELSE call[v]
      /\ pushes' = pushes /\ unheard' = unheard
  BY DEF UpdateDeliveryResult, Return, TypeOK
<1>3. \A j \in Ids, l \in Kind :
         notifications'[<<j, l>>] = IF <<j, l>> = <<i, k>>
                                    THEN IF call[w].delivered THEN "sent" ELSE "failed"
                                    ELSE notifications[<<j, l>>]
  BY <1>1 DEF UpdateDeliveryResult, TypeOK
<1>4. call[w].delivered <=> Known(i, k) # {}
  BY <1>0, <1>1 DEF Agree, CallsOK, CallOK, Sending
<1>5. \A j \in Ids, l \in Kind : (Got(j, l)' <=> Got(j, l)) /\ Known(j, l)' = Known(j, l)
  BY <1>2 DEF Got, Known
<1>6. RecordsAreTrue'
  <2> SUFFICES ASSUME NEW j \in Ids, NEW l \in Kind
               PROVE  Truthful(j, l)'
    BY DEF RecordsAreTrue, Truthful
  <2>1. CASE <<j, l>> = <<i, k>>
    BY <1>3, <1>4, <1>5, <2>1 DEF Truthful
  <2>2. CASE <<j, l>> # <<i, k>>
    BY <1>3, <1>5, <2>2 DEF Agree, RecordsAreTrue, Truthful
  <2>. QED
    BY <2>1, <2>2
<1>7. UnheardOK' /\ AtMostOnce'
  BY <1>2 DEF Agree, UnheardOK, AtMostOnce
<1>8. ASSUME NEW v \in Workers PROVE CallOK(v)'
  <2>1. CASE v = w
    BY <1>2, <2>1 DEF CallOK, NoCall, Sending
  <2>2. CASE v # w
    <3>1. call'[v] = call[v] /\ CallOK(v)
      BY <1>2, <2>2 DEF Agree, CallsOK
    <3>2. CASE call[v].at \in Sending
      <4>1. PICK j \in Ids, l \in Kind : j = call[v].id /\ l = call[v].kind
        BY <3>2, CallShape DEF TypeOK, Sending
      <4>2. <<j, l>> # <<i, k>>
        BY <1>0, <1>1, <2>2, <3>2, <4>1 DEF Agree, OneSender, Sending
      <4>3. notifications'[<<j, l>>] = "pending"
        BY <1>3, <3>1, <3>2, <4>1, <4>2 DEF CallOK
      <4>. QED
        BY <1>2, <3>1, <3>2, <4>1, <4>3 DEF CallOK, Got, Known, Sending
    <3>3. CASE call[v].at \notin Sending
      BY <3>1, <3>3 DEF CallOK
    <3>. QED
      BY <3>2, <3>3
  <2>. QED
    BY <2>1, <2>2
<1>9. OneSender'
  BY <1>2 DEF Agree, OneSender, NoCall, Sending
<1>. QED
  BY <1>6, <1>7, <1>8, <1>9 DEF Agree, CallsOK

(* When the answer of the insert is lost, nobody sends. *)
Abandon(w) ==
    LET c == call[w]
    IN  /\ c.at = "create" /\ notifications[<<c.id, c.kind>>] = "none"
        /\ notifications' = [notifications EXCEPT ![<<c.id, c.kind>>] = "pending"]
        /\ call' = [call EXCEPT ![w] = NoCall]
        /\ UNCHANGED <<pushes, unheard>>

(* A row that awaits a result in vain disagrees with nothing. *)
LEMMA AbandonAgree ==
    ASSUME TypeOK, Agree, NEW w \in Workers, Abandon(w)
    PROVE  Agree'
<1>0. call[w].id \in Ids /\ call[w].kind \in Kind /\ call[w].at = "create"
  BY CallShape DEF Abandon, TypeOK
<1>1. PICK i \in Ids, k \in Kind : i = call[w].id /\ k = call[w].kind
  BY <1>0
<1>2. /\ \A v \in Workers : call'[v] = IF v = w THEN NoCall ELSE call[v]
      /\ pushes' = pushes /\ unheard' = unheard
  BY DEF Abandon, TypeOK
<1>3. \A j \in Ids, l \in Kind :
         notifications'[<<j, l>>] = IF <<j, l>> = <<i, k>> THEN "pending" ELSE notifications[<<j, l>>]
  BY <1>1 DEF Abandon, TypeOK
<1>4. \A j \in Ids, l \in Kind : (Got(j, l)' <=> Got(j, l)) /\ Known(j, l)' = Known(j, l)
  BY <1>2 DEF Got, Known
<1>5. RecordsAreTrue'
  <2> SUFFICES ASSUME NEW j \in Ids, NEW l \in Kind
               PROVE  Truthful(j, l)'
    BY DEF RecordsAreTrue, Truthful
  <2>1. CASE <<j, l>> = <<i, k>>
    BY <1>3, <2>1 DEF Truthful
  <2>2. CASE <<j, l>> # <<i, k>>
    BY <1>3, <1>4, <2>2 DEF Agree, RecordsAreTrue, Truthful
  <2>. QED
    BY <2>1, <2>2
<1>6. UnheardOK' /\ AtMostOnce'
  BY <1>2 DEF Agree, UnheardOK, AtMostOnce
<1>7. ASSUME NEW v \in Workers PROVE CallOK(v)'
  <2>1. CASE v = w
    BY <1>2, <2>1 DEF CallOK, NoCall, Sending
  <2>2. CASE v # w
    <3>1. call'[v] = call[v] /\ CallOK(v)
      BY <1>2, <2>2 DEF Agree, CallsOK
    <3>2. CASE call[v].at \in Sending
      <4>1. PICK j \in Ids, l \in Kind : j = call[v].id /\ l = call[v].kind
        BY <3>2, CallShape DEF TypeOK, Sending
      <4>2. notifications'[<<j, l>>] = "pending"
        BY <1>3, <3>1, <3>2, <4>1 DEF CallOK
      <4>. QED
        BY <1>2, <3>1, <3>2, <4>1, <4>2 DEF CallOK, Known, Sending
    <3>3. CASE call[v].at \notin Sending
      BY <3>1, <3>3 DEF CallOK
    <3>. QED
      BY <3>2, <3>3
  <2>. QED
    BY <2>1, <2>2
<1>8. OneSender'
  BY <1>2 DEF Agree, OneSender, NoCall, Sending
<1>. QED
  BY <1>5, <1>6, <1>7, <1>8 DEF Agree, CallsOK

(* What a step may do to calls, rows and pushes. *)
CallsStep(w) ==
    \/ Onward(w) \/ CreateOnce(w) \/ UpdateDeliveryResult(w) \/ Abandon(w)
    \/ \E t \in Tokens, answer \in Answer : Send(w, t, answer)

(* Every step ends or makes calls, or is one of these. *)
LEMMA CallsStepShape ==
    ASSUME TypeOK, Agree, Next
    PROVE  Quiet \/ \E w \in Workers : CallsStep(w)
<1> DEFINE Goal == Quiet \/ \E w \in Workers : CallsStep(w)
<1>1. CASE Ledgers
  <2>1. ASSUME NEW id \in Ids, NEW a \in Asks, Book(id, a) PROVE Goal
    BY <2>1 DEF Quiet, Book
  <2>2. ASSUME NEW id \in Ids, NEW to \in Status, Move(id, to) PROVE Goal
    <3>1. \A k \in StatusKind : NotifyStage(id, k).at = "list" /\ NotifyStage(id, k).delivered = FALSE
      BY DEF NotifyStage
    <3>2. \A w \in Workers : call'[w] = call[w] \/ (call'[w].at = "list" /\ ~call'[w].delivered)
      BY <2>2, <3>1, MoveCalls
    <3>. QED
      BY <2>2, <3>2 DEF Quiet, Move
  <2>3. ASSUME NEW id \in Ids, Cancel(id) PROVE Goal
    BY <2>3 DEF Quiet, Cancel
  <2>. QED
    BY <1>1, <2>1, <2>2, <2>3 DEF Ledgers
<1>2. ASSUME NEW t \in Tokens, NEW u \in Users, Upsert(t, u) \/ DeleteOwned(t, u)
      PROVE  Goal
  BY <1>2 DEF Quiet, Upsert, DeleteOwned
<1>3. CASE Advance
  BY <1>3 DEF Quiet, Advance
<1>4. ASSUME NEW i \in Instances, TickStep(i) PROVE Goal
  <2>1. CASE Take(i)
    <3>1. PICK id, k : call' = [call EXCEPT ![i] = NotifyStage(id, k)]
      BY <2>1 DEF Take
    <3>2. NotifyStage(id, k).at = "list" /\ ~NotifyStage(id, k).delivered
      BY DEF NotifyStage
    <3>3. \A w \in Workers : call'[w] = call[w] \/ (call'[w].at = "list" /\ ~call'[w].delivered)
      BY <3>1, <3>2 DEF TypeOK
    <3>. QED
      BY <2>1, <3>3 DEF Quiet, Take
  <2>2. CASE Fire(i) \/ Select(i) \/ NextKind(i)
    BY <2>2 DEF Quiet, Fire, Select, NextKind
  <2>. QED
    BY <1>4, <2>1, <2>2 DEF TickStep
<1>5. ASSUME NEW w \in Workers, NotifyStep(w) PROVE Goal
  <2>0. call[w] \in Call \cup {NoCall}
    BY DEF TypeOK
  <2>1. CASE ListByUser(w)
    <3>1. call[w] \in Call /\ call[w].at = "list"
      BY <2>0, <2>1, CallShape DEF ListByUser
    <3>2. ~call[w].delivered
      BY <3>1 DEF Agree, CallsOK, CallOK
    <3>3. PICK mine : \/ call' = [call EXCEPT ![w] = NoCall]
                      \/ call' = [call EXCEPT ![w] = [call[w] EXCEPT !.at = "create", !.left = mine]]
      BY <2>1 DEF ListByUser, Return
    <3>4. PICK n : n = [call[w] EXCEPT !.at = "create", !.left = mine]
      OBVIOUS
    <3>5. n.at = "create" /\ ~n.delivered
      BY <3>1, <3>2, <3>4 DEF Call
    <3>6. \A v \in Workers : \/ call'[v] = call[v] \/ call'[v] = NoCall
                             \/ call'[v].at = "create" /\ ~call'[v].delivered
      BY <3>3, <3>4, <3>5 DEF TypeOK
    <3>. QED
      BY <2>1, <3>6 DEF Quiet, ListByUser
  <2>2. CASE DeleteByToken(w)
    <3>1. call[w] \in Call /\ call[w].at = "drop"
      BY <2>0, <2>2, CallShape DEF DeleteByToken
    <3>2. PICK n : n = [call[w] EXCEPT !.at = AfterToken(call[w].left, {}), !.dead = {}]
      OBVIOUS
    <3>3. /\ n.at \in Sending /\ n.id = call[w].id /\ n.kind = call[w].kind
          /\ n.left = call[w].left /\ n.delivered = call[w].delivered
      BY <3>1, <3>2 DEF Call, AfterToken, Sending
    <3>4. call' = [call EXCEPT ![w] = n] /\ UNCHANGED <<notifications, pushes, unheard>>
      BY <2>2, <3>2 DEF DeleteByToken
    <3>5. call[w].at \in Sending
      BY <3>1 DEF Sending
    <3>. QED
      BY <3>3, <3>4, <3>5 DEF Onward, CallsStep
  <2>. QED
    BY <1>5, <2>1, <2>2 DEF NotifyStep, CallsStep
<1>6. ASSUME NEW w \in Workers, Error(w) PROVE Goal
  <2>0. CASE Abandon(w)
    BY <2>0 DEF CallsStep
  <2>1. CASE call' = [call EXCEPT ![w] = NoCall] /\ UNCHANGED notifications
    <3>1. \A v \in Workers : call'[v] = call[v] \/ call'[v] = NoCall
      BY <2>1 DEF TypeOK
    <3>. QED
      BY <1>6, <2>1, <3>1 DEF Quiet, Error
  <2>2. CASE call[w].at = "drop"
             /\ call' = [call EXCEPT ![w] = [call[w] EXCEPT !.at = AfterToken(call[w].left, {}), !.dead = {}]]
    <3>1. call[w] \in Call
      BY <2>2, CallShape DEF TypeOK
    <3>2. PICK n : n = [call[w] EXCEPT !.at = AfterToken(call[w].left, {}), !.dead = {}]
      OBVIOUS
    <3>3. /\ n.at \in Sending /\ n.id = call[w].id /\ n.kind = call[w].kind
          /\ n.left = call[w].left /\ n.delivered = call[w].delivered
      BY <3>1, <3>2 DEF Call, AfterToken, Sending
    <3>4. call[w].at \in Sending /\ UNCHANGED <<notifications, pushes, unheard>>
      BY <1>6, <2>2 DEF Sending, Error
    <3>. QED
      BY <2>2, <3>2, <3>3, <3>4 DEF Onward, CallsStep
  <2>3. CASE UNCHANGED <<call, notifications>>
    BY <1>6, <2>3 DEF Quiet, Error
  <2>. QED
    BY <1>6, <2>0, <2>1, <2>2, <2>3 DEF Error, Return, Abandon
<1>7. ASSUME NEW w \in Workers, Crash(w) PROVE Goal
  <2>1. \A v \in Workers : call'[v] = call[v] \/ call'[v] = NoCall
    BY <1>7 DEF Crash, Return, TypeOK
  <2>. QED
    BY <1>7, <2>1 DEF Quiet, Crash
<1>. QED
  BY <1>1, <1>2, <1>3, <1>4, <1>5, <1>6, <1>7 DEF Next, Ledgers

(* Each step keeps rows, calls and pushes in agreement. *)
LEMMA AgreeStep ==
    ASSUME TypeOK, Agree, Next
    PROVE  Agree'
  BY CallsStepShape, QuietAgree, OnwardAgree, CreateAgree, SendAgree, ResultAgree, AbandonAgree
  DEF CallsStep

-----------------------------------------------------------------------------
(* Each step keeps what was selected or sent due *)

(* Everything but a change of bookings or of the time. *)
LEMMA WorldStays ==
    ASSUME Next, ~Ledgers, ~Advance
    PROVE  UNCHANGED ledgerVars
<1>1. ASSUME NEW t \in Tokens, NEW u \in Users, Upsert(t, u) \/ DeleteOwned(t, u)
      PROVE  UNCHANGED ledgerVars
  BY <1>1 DEF Upsert, DeleteOwned
<1>2. ASSUME NEW i \in Instances, TickStep(i) PROVE UNCHANGED ledgerVars
  BY <1>2 DEF TickStep, Fire, Select, Take, NextKind
<1>3. ASSUME NEW w \in Workers, NotifyStep(w) PROVE UNCHANGED ledgerVars
  BY <1>3 DEF NotifyStep, ListByUser, CreateOnce, Send, DeleteByToken, UpdateDeliveryResult
<1>4. ASSUME NEW w \in Workers, Error(w) \/ Crash(w) PROVE UNCHANGED ledgerVars
  BY <1>4 DEF Error, Crash
<1>. QED
  BY <1>1, <1>2, <1>3, <1>4 DEF Next, Ledgers

(* A stage that has come due does not stop having come due. *)
LEMMA StaysRipe ==
    ASSUME TypeOK, Next
    PROVE  /\ clock \in Nat /\ clock' \in Nat /\ clock <= clock'
           /\ \A id \in Ids, k \in Kind : Ripe(id, k) => Ripe(id, k)'
<1>0. clock \in Nat /\ (\A id \in Ids : created_at[id] \in Nat)
      /\ \A id \in Ids : queue[id] # NoRow => queue[id].start \in Nat
  <2>1. \A id \in Ids : queue[id] # NoRow => queue[id] \in Row
    BY RowShape DEF TypeOK
  <2>. QED
    BY <2>1, NotificationAssumption DEF TypeOK, Row
<1>1. CASE Ledgers
  <2>1. clock' = clock
    BY <1>1 DEF Ledgers, Book, Move, Cancel
  <2>. QED
    BY <1>0, <1>1, <2>1, TableStep DEF Ripe
<1>2. CASE Advance
  BY <1>0, <1>2, NotificationAssumption DEF Advance, Ripe
<1>3. CASE ~Ledgers /\ ~Advance
  BY <1>0, <1>3, WorldStays DEF ledgerVars, Ripe
<1>. QED
  BY <1>1, <1>2, <1>3

(* FindDue selects only what has come due at the time it is given. *)
LEMMA DueIsRipe ==
    ASSUME TypeOK, NEW k \in TimedKind, NEW now \in Nat, now <= clock, NEW id \in FindDue(k, now)
    PROVE  Ripe(id, k)
<1>1. id \in Ids /\ queue[id].status \in {"queue", "waiting"} /\ InWindow(k, queue[id].start, now)
      /\ (k = "reminder_1h" => created_at[id] + ReminderLead <= queue[id].start)
  BY DEF FindDue
<1>2. queue[id] \in Row /\ queue[id] # NoRow
  BY <1>1, RowShape DEF TypeOK, NoRow
<1>3. queue[id].start \in Nat /\ clock \in Nat
  BY <1>2, NotificationAssumption DEF Row, TypeOK
<1>4. k = "reminder_1h" => queue[id].start <= now + ReminderLead
  BY <1>1 DEF InWindow
<1>5. k = "late_5m" => queue[id].start + LateDelay <= now
  BY <1>1 DEF InWindow
<1>. QED
  BY <1>1, <1>2, <1>3, <1>4, <1>5, NotificationAssumption DEF Ripe

(* Each step keeps RipeOK. *)
LEMMA RipeStep ==
    ASSUME TypeOK, RipeOK, Next
    PROVE  RipeOK'
<1>0. /\ clock \in Nat /\ clock' \in Nat /\ clock <= clock'
      /\ \A id \in Ids, k \in Kind : Ripe(id, k) => Ripe(id, k)'
  BY StaysRipe
<1>1. ASSUME NEW i \in Instances, tick'[i] # NoTick
      PROVE  /\ tick'[i].now <= clock'
             /\ \A id \in Ids, k \in Kind : id \in tick'[i].due /\ k = tick'[i].kind => Ripe(id, k)'
  <2>1. ASSUME tick[i] # NoTick, tick'[i].now = tick[i].now,
               tick'[i].due \subseteq tick[i].due, tick'[i].due = {} \/ tick'[i].kind = tick[i].kind
        PROVE  /\ tick'[i].now <= clock'
               /\ \A id \in Ids, k \in Kind : id \in tick'[i].due /\ k = tick'[i].kind => Ripe(id, k)'
    <3>1. tick[i].now \in Nat /\ tick[i].now <= clock
      BY <2>1, TickShape, NotificationAssumption DEF TypeOK, RipeOK
    <3>2. tick'[i].now <= clock'
      BY <1>0, <2>1, <3>1
    <3>3. \A id \in Ids, k \in Kind : id \in tick[i].due /\ k = tick[i].kind => Ripe(id, k)
      BY <2>1 DEF RipeOK
    <3>. QED
      BY <1>0, <2>1, <3>2, <3>3
  <2>2. CASE Fire(i)
    <3>1. tick'[i] = [at |-> "find", kind |-> "reminder_1h", now |-> clock, due |-> {}]
      BY <2>2 DEF Fire, TypeOK
    <3>. QED
      BY <1>0, <3>1
  <2>3. CASE Select(i)
    <3>1. tick[i] \in Tick /\ tick[i] # NoTick
      BY <2>3, TickShape DEF Select, TypeOK, NoTick
    <3>2. tick[i].now \in Nat /\ tick[i].now <= clock /\ tick[i].kind \in TimedKind
      BY <3>1, NotificationAssumption DEF RipeOK, Tick
    <3>3. PICK due : due = FindDue(tick[i].kind, tick[i].now)
      OBVIOUS
    <3>4. tick'[i] = [tick[i] EXCEPT !.at = "loop", !.due = due]
      BY <2>3, <3>3 DEF Select, TypeOK
    <3>5. tick'[i].now = tick[i].now /\ tick'[i].kind = tick[i].kind /\ tick'[i].due = due
      BY <3>1, <3>4 DEF Tick
    <3>6. \A id \in due : Ripe(id, tick[i].kind)
      BY <3>2, <3>3, DueIsRipe
    <3>7. tick'[i].now <= clock'
      BY <1>0, <3>2, <3>5
    <3>. QED
      BY <1>0, <3>5, <3>6, <3>7
  <2>4. CASE Take(i)
    <3>1. tick[i] \in Tick /\ tick[i] # NoTick
      BY <2>4, TickShape DEF Take, TypeOK, NoTick
    <3>2. PICK id : tick'[i] = [tick[i] EXCEPT !.due = @ \ {id}]
      BY <2>4 DEF Take, TypeOK
    <3>3. tick'[i].now = tick[i].now /\ tick'[i].kind = tick[i].kind /\ tick'[i].due = tick[i].due \ {id}
      BY <3>1, <3>2 DEF Tick
    <3>. QED
      BY <2>1, <3>1, <3>3
  <2>5. CASE NextKind(i)
    <3>1. tick[i] \in Tick /\ tick[i] # NoTick /\ tick[i].due = {}
      BY <2>5, TickShape DEF NextKind, TypeOK, NoTick
    <3>2. tick'[i] = [tick[i] EXCEPT !.at = "find", !.kind = "late_5m"]
      BY <1>1, <2>5 DEF NextKind, TypeOK
    <3>3. tick'[i].now = tick[i].now /\ tick'[i].due = {}
      BY <3>1, <3>2 DEF Tick
    <3>. QED
      BY <2>1, <3>1, <3>3
  <2>6. CASE tick[i] # NoTick /\ tick'[i] = [tick[i] EXCEPT !.at = "loop"]
    <3>1. tick[i] \in Tick
      BY <2>6, TickShape DEF TypeOK
    <3>2. tick'[i].now = tick[i].now /\ tick'[i].kind = tick[i].kind /\ tick'[i].due = tick[i].due
      BY <2>6, <3>1 DEF Tick
    <3>. QED
      BY <2>1, <2>6, <3>2
  <2>7. \/ tick'[i] = tick[i] \/ Fire(i) \/ Select(i) \/ Take(i) \/ NextKind(i)
        \/ tick[i] # NoTick /\ tick'[i] = [tick[i] EXCEPT !.at = "loop"]
    <3>1. ASSUME NEW w \in Workers, Error(w)
          PROVE  \/ tick'[i] = tick[i]
                 \/ tick[i] # NoTick /\ tick'[i] = [tick[i] EXCEPT !.at = "loop"]
      BY <3>1 DEF Error, TypeOK, NoTick
    <3>2. ASSUME NEW w \in Workers, Crash(w) PROVE tick'[i] = tick[i]
      BY <1>1, <3>2 DEF Crash
    <3>3. ASSUME NEW j \in Instances, TickStep(j), j # i PROVE tick'[i] = tick[i]
      BY <3>3 DEF TickStep, Fire, Select, Take, NextKind, TypeOK
    <3>4. ASSUME NEW w \in Workers, NotifyStep(w) PROVE tick' = tick
      BY <3>4 DEF NotifyStep, ListByUser, CreateOnce, Send, DeleteByToken, UpdateDeliveryResult
    <3>. QED
      BY <3>1, <3>2, <3>3, <3>4 DEF Next, Book, Move, Cancel, Upsert, DeleteOwned, Advance, TickStep
  <2>. QED
    BY <1>1, <2>1, <2>2, <2>3, <2>4, <2>5, <2>6, <2>7
<1>2. ASSUME NEW w \in Workers, call'[w] # NoCall,
             NEW id \in Ids, NEW k \in Kind, id = call'[w].id, k = call'[w].kind
      PROVE  Ripe(id, k)'
  <2>1. ASSUME call[w] # NoCall, call'[w].id = call[w].id, call'[w].kind = call[w].kind
        PROVE  Ripe(id, k)'
    BY <1>0, <1>2, <2>1 DEF RipeOK
  <2>2. ASSUME NEW i \in Instances, Take(i) PROVE Ripe(id, k)'
    <3>1. tick[i] \in Tick /\ tick[i] # NoTick
      BY <2>2, TickShape DEF Take, TypeOK, NoTick
    <3>2. PICK o \in tick[i].due : call' = [call EXCEPT ![i] = NotifyStage(o, tick[i].kind)]
      BY <2>2 DEF Take
    <3>3. o \in Ids /\ tick[i].kind \in Kind
      BY <3>1, <3>2 DEF Tick, Kind
    <3>4. CASE w = i
      <4>1. id = o /\ k = tick[i].kind
        <5>1. call'[w] = NotifyStage(o, tick[i].kind)
          BY <3>2, <3>4 DEF TypeOK
        <5>. QED
          BY <1>2, <5>1 DEF NotifyStage
      <4>. QED
        BY <1>0, <3>1, <3>2, <4>1 DEF RipeOK
    <3>5. CASE w # i
      <4>1. call'[w] = call[w]
        BY <3>2, <3>5 DEF TypeOK
      <4>. QED
        BY <1>2, <2>1, <4>1
    <3>. QED
      BY <3>4, <3>5
  <2>3. ASSUME NEW o \in Ids, NEW to \in Status, Move(o, to) PROVE Ripe(id, k)'
    <3>1. CASE call'[w] = call[w]
      BY <1>2, <2>1, <3>1
    <3>2. ASSUME NEW l \in StatusKind, call'[w] = NotifyStage(o, l)
          PROVE  Ripe(id, k)'
      <4>1. queue[o] # NoRow
        <5>1. to \in staffStatusTransitions(queue[o].status)
          BY <2>3 DEF Move, Ledger!Move, Ledger!staffStatusTransitions, staffStatusTransitions
        <5>. QED
          BY <5>1, TransitionShape, RowShape DEF TypeOK
      <4>2. id = o /\ k = l
        BY <1>2, <3>2 DEF NotifyStage
      <4>3. Ripe(id, k)
        BY <4>1, <4>2 DEF StatusKind, Ripe
      <4>. QED
        BY <1>0, <4>3
    <3>. QED
      BY <2>3, <3>1, <3>2, MoveCalls
  <2>4. ASSUME NEW v \in Workers, NotifyStep(v) \/ Error(v) \/ Crash(v)
        PROVE  \/ call'[w] = call[w]
               \/ /\ call[w] # NoCall
                  /\ call'[w].id = call[w].id /\ call'[w].kind = call[w].kind
    <3>1. CASE v # w
      BY <2>4, <3>1 DEF NotifyStep, ListByUser, CreateOnce, Send, DeleteByToken,
         UpdateDeliveryResult, Error, Crash, Return, TypeOK
    <3>2. CASE v = w /\ call[w] = NoCall
      BY <1>2, <2>4, <3>2 DEF NotifyStep, ListByUser, CreateOnce, Send, DeleteByToken,
         UpdateDeliveryResult, Error, Crash, Return, TypeOK, NoCall
    <3>3. CASE v = w /\ call[w] # NoCall
      <4>0. call[w] \in Call
        BY <3>3, CallShape DEF TypeOK
      <4>i. call' # [call EXCEPT ![w] = NoCall]
        BY <1>2 DEF TypeOK
      <4>1. CASE ListByUser(w) \/ CreateOnce(w)
        <5>1. PICK mine \in SUBSET Tokens :
                 \/ call' = [call EXCEPT ![w] = [call[w] EXCEPT !.at = "create", !.left = mine]]
                 \/ call' = [call EXCEPT ![w] = [call[w] EXCEPT !.at = "send"]]
          BY <4>1, <4>i DEF ListByUser, CreateOnce, Return
        <5>2. /\ [call[w] EXCEPT !.at = "create", !.left = mine].id = call[w].id
              /\ [call[w] EXCEPT !.at = "create", !.left = mine].kind = call[w].kind
              /\ [call[w] EXCEPT !.at = "send"].id = call[w].id
              /\ [call[w] EXCEPT !.at = "send"].kind = call[w].kind
          BY <4>0 DEF Call
        <5>. QED
          BY <3>3, <5>1, <5>2 DEF TypeOK
      <4>2. ASSUME NEW t, NEW answer, Send(w, t, answer)
            PROVE  call'[w].id = call[w].id /\ call'[w].kind = call[w].kind
        <5>1. PICK at, left, dead, delivered :
                 call'[w] = [call[w] EXCEPT !.at = at, !.left = left, !.dead = dead, !.delivered = delivered]
          BY <4>2 DEF Send, TypeOK
        <5>. QED
          BY <4>0, <5>1 DEF Call
      <4>d. /\ [call[w] EXCEPT !.at = AfterToken(call[w].left, {}), !.dead = {}].id = call[w].id
            /\ [call[w] EXCEPT !.at = AfterToken(call[w].left, {}), !.dead = {}].kind = call[w].kind
        BY <4>0 DEF Call
      <4>3. CASE DeleteByToken(w) \/ UpdateDeliveryResult(w)
        <5>1. call' = [call EXCEPT ![w] = [call[w] EXCEPT !.at = AfterToken(call[w].left, {}), !.dead = {}]]
          BY <4>3, <4>i DEF DeleteByToken, UpdateDeliveryResult, Return
        <5>. QED
          BY <3>3, <4>d, <5>1 DEF TypeOK
      <4>4. CASE Error(w) \/ Crash(w)
        <5>1. \/ call' = [call EXCEPT ![w] = [call[w] EXCEPT !.at = AfterToken(call[w].left, {}), !.dead = {}]]
              \/ call' = call
          BY <4>4, <4>i DEF Error, Crash, Return
        <5>. QED
          BY <3>3, <4>d, <5>1 DEF TypeOK
      <4>. QED
        BY <2>4, <3>3, <4>1, <4>2, <4>3, <4>4 DEF NotifyStep
    <3>. QED
      BY <3>1, <3>2, <3>3
  <2>5. CASE call'[w] = call[w]
    BY <1>2, <2>1, <2>5
  <2>. QED
    BY <2>1, <2>2, <2>3, <2>4, <2>5 DEF Next, Book, Cancel, Upsert, DeleteOwned, Advance, TickStep,
       Fire, Select, NextKind
<1>3. ASSUME NEW id \in Ids, NEW k \in Kind, Got(id, k)' PROVE Ripe(id, k)'
  <2>1. CASE Got(id, k)
    BY <1>0, <2>1 DEF RipeOK
  <2>2. ASSUME NEW w \in Workers, NEW t \in Tokens, NEW answer, Send(w, t, answer), ~Got(id, k)
        PROVE  Ripe(id, k)'
    <3>1. call[w] # NoCall /\ call[w].id \in Ids /\ call[w].kind \in Kind
      BY <2>2, CallShape DEF Send, TypeOK, NoCall
    <3>2. call[w].id = id /\ call[w].kind = k
      BY <1>3, <2>2, <3>1 DEF Send, Got, TypeOK
    <3>. QED
      BY <1>0, <3>1, <3>2 DEF RipeOK
  <2>3. CASE pushes' = pushes
    BY <1>3, <2>1, <2>3 DEF Got
  <2>4. \/ pushes' = pushes
        \/ \E w \in Workers, t \in Tokens, answer \in Answer : Send(w, t, answer)
    BY DEF Next, Book, Move, Cancel, Upsert, DeleteOwned, Advance, TickStep, Fire, Select, Take,
       NextKind, NotifyStep, ListByUser, CreateOnce, DeleteByToken, UpdateDeliveryResult, Error, Crash
  <2>. QED
    BY <2>1, <2>2, <2>3, <2>4
<1>. QED
  BY <1>1, <1>2, <1>3 DEF RipeOK, Ripe, Got

-----------------------------------------------------------------------------
(* The invariants of every behaviour *)

(* Without bookings, calls and pushes the invariant holds. *)
LEMMA InitIInv == Init => IInv
<1> SUFFICES ASSUME Init PROVE IInv
  OBVIOUS
<1>1. TypeOK
  BY NotificationAssumption DEF Init, TypeOK
<1>2. \A w \in Workers : call[w] = NoCall
  BY DEF Init
<1>3. \A id \in Ids, k \in Kind, t \in Tokens : pushes[<<id, k, t>>] = 0
  BY DEF Init
<1>4. \A p \in Ids \X Kind \X Tokens : pushes[p] = 0
  BY DEF Init
<1>5. \A id \in Ids, k \in Kind : ~Got(id, k)
  <2> SUFFICES ASSUME NEW id \in Ids, NEW k \in Kind, NEW t \in Tokens, pushes[<<id, k, t>>] > 0
               PROVE  FALSE
    BY DEF Got
  <2>1. pushes[<<id, k, t>>] = 0
    BY <1>3
  <2>. QED
    BY <2>1
<1>6. \A id \in Ids, k \in Kind : notifications[<<id, k>>] = "none"
  BY DEF Init
<1>7. CallsOK /\ OneSender
  BY <1>2 DEF CallsOK, CallOK, OneSender, NoCall, Sending
<1>8. RipeOK
  BY <1>2, <1>5 DEF RipeOK, Init
<1>9. AtMostOnce
  BY <1>4 DEF AtMostOnce
<1>10. RecordsAreTrue
  BY <1>5, <1>6 DEF RecordsAreTrue
<1>11. UnheardOK
  BY DEF Init, UnheardOK
<1>. QED
  BY <1>1, <1>7, <1>8, <1>9, <1>10, <1>11 DEF IInv

(* The invariant is inductive. *)
LEMMA NextIInv == IInv /\ [Next]_vars => IInv'
<1> SUFFICES ASSUME IInv, [Next]_vars PROVE IInv'
  OBVIOUS
<1>1. CASE Next
  BY <1>1, TypeStep, AgreeStep, RipeStep DEF IInv, Agree
<1>2. CASE UNCHANGED vars
  <2>1. UNCHANGED <<queue, created_at, clock, device, notifications, tick, call, pushes, unheard, faults>>
    BY <1>2 DEF vars, ledgerVars
  <2>2. TypeOK'
    BY <2>1 DEF IInv, TypeOK
  <2>3. CallsOK' /\ OneSender' /\ UnheardOK'
    BY <2>1 DEF IInv, CallsOK, CallOK, OneSender, UnheardOK, Known
  <2>4. RipeOK'
    BY <2>1 DEF IInv, RipeOK, Ripe, Got
  <2>5. AtMostOnce' /\ RecordsAreTrue'
    BY <2>1 DEF IInv, AtMostOnce, RecordsAreTrue, Got, Known
  <2>. QED
    BY <2>2, <2>3, <2>4, <2>5 DEF IInv
<1>. QED
  BY <1>1, <1>2

(* Every reachable state satisfies the inductive invariant. *)
THEOREM Invariance == Spec => []IInv
  BY InitIInv, NextIInv, PTL DEF Spec

(* Bookings, tokens, rows, ticks and calls keep their types. *)
THEOREM TypeCorrect == Spec => []TypeOK
  BY Invariance, PTL DEF IInv

(* No phone is pushed the same stage of a booking twice. *)
THEOREM OnceSafety == Spec => []AtMostOnce
  BY Invariance, PTL DEF IInv

(* The notifications table claims a push only where the sender knows of *)
(* one, and denies one only where there is none or its answer was lost. *)
THEOREM RecordSafety == Spec => []RecordsAreTrue
  BY Invariance, PTL DEF IInv

(* No timed push is sent before its window, or at short notice. *)
THEOREM TimeSafety == Spec => []NeverEarly
<1>1. IInv => NeverEarly
  <2> SUFFICES ASSUME IInv, NEW id \in Ids, NEW t \in Tokens
               PROVE  /\ pushes[<<id, "reminder_1h", t>>] > 0 =>
                            /\ queue[id].start <= clock + ReminderLead
                            /\ created_at[id] + ReminderLead <= queue[id].start
                      /\ pushes[<<id, "late_5m", t>>] > 0 => queue[id].start + LateDelay <= clock
    BY DEF NeverEarly
  <2>1. \A k \in Kind : pushes[<<id, k, t>>] > 0 => Ripe(id, k)
    BY DEF IInv, RipeOK, Got
  <2>2. "reminder_1h" \in Kind /\ "late_5m" \in Kind
    BY DEF Kind, TimedKind
  <2>. QED
    BY <2>1, <2>2 DEF Ripe
<1>. QED
  BY <1>1, Invariance, PTL

-----------------------------------------------------------------------------
(* Stages, seen from outside *)

StageNext(id, k) == [Stage(id, k)!Next]_<<StageState(id, k), Received(id, k), Known(id, k)>>

(* Does some call attend to the stage? *)
Attended(id, k) == \E w \in Workers : Attends(w, id, k)

(* What is seen of a stage whose row waits, and of one whose row does not. *)
LEMMA StageView ==
    ASSUME NEW id \in Ids, NEW k \in Kind
    PROVE  /\ notifications[<<id, k>>] # "pending" => StageState(id, k) = notifications[<<id, k>>]
           /\ notifications[<<id, k>>] = "pending" =>
                 StageState(id, k) = IF Attended(id, k) THEN "under way" ELSE "lost"
           /\ \A t \in Tokens : Received(id, k)[t] = pushes[<<id, k, t>>]
  BY DEF StageState, Received, Attended

(* Where the row, its pushes and its attendance stay, nothing is seen. *)
LEMMA NothingSeen ==
    ASSUME NEW id \in Ids, NEW k \in Kind,
           notifications'[<<id, k>>] = notifications[<<id, k>>],
           \A t \in Tokens : /\ pushes'[<<id, k, t>>] = pushes[<<id, k, t>>]
                             /\ <<id, k, t>> \in unheard' <=> <<id, k, t>> \in unheard,
           Attended(id, k)' <=> Attended(id, k)
    PROVE  StageNext(id, k)
<1>1. Received(id, k)' = Received(id, k) /\ Known(id, k)' = Known(id, k)
  BY DEF Received, Known
<1>2. StageState(id, k)' = StageState(id, k)
  BY DEF StageState, Attended
<1> QED
  BY <1>1, <1>2 DEF StageNext

(* Whoever attends to a stage has its row waiting. *)
LEMMA AttendedRow ==
    ASSUME Agree, NEW id \in Ids, NEW k \in Kind, NEW w \in Workers, Attends(w, id, k)
    PROVE  /\ notifications[<<id, k>>] = "pending"
           /\ StageState(id, k) = "under way"
<1>1. notifications[<<id, k>>] = "pending"
  BY DEF Agree, CallsOK, CallOK, Attends
<1> QED
  BY <1>1, StageView DEF Attended

(* A call that ends while it attends to a stage loses it. *)
LEMMA QuietSeen ==
    ASSUME Agree, Quiet, NEW id \in Ids, NEW k \in Kind
    PROVE  StageNext(id, k)
<1>1. Attended(id, k)' => Attended(id, k)
  BY DEF Attended, Attends, Quiet, Sending, NoCall
<1>2. CASE Attended(id, k)' <=> Attended(id, k)
  BY <1>2, NothingSeen DEF Quiet
<1>3. CASE Attended(id, k) /\ ~Attended(id, k)'
  <2>1. notifications[<<id, k>>] = "pending" /\ StageState(id, k) = "under way"
    BY <1>3, AttendedRow DEF Attended
  <2>2. StageState(id, k)' = "lost"
    BY <1>3, <2>1 DEF Quiet, StageState, Attended
  <2>3. Received(id, k)' = Received(id, k) /\ Known(id, k)' = Known(id, k)
    BY DEF Quiet, Received, Known
  <2> QED
    BY <2>1, <2>2, <2>3 DEF StageNext, Stage!Next, Stage!Lose
<1> QED
  BY <1>1, <1>2, <1>3

(* A call that goes on attends to what it attended to. *)
LEMMA OnwardSeen ==
    ASSUME TypeOK, NEW w \in Workers, Onward(w), NEW id \in Ids, NEW k \in Kind
    PROVE  StageNext(id, k)
<1>1. PICK n : /\ call' = [call EXCEPT ![w] = n]
               /\ n.at \in Sending /\ n.id = call[w].id /\ n.kind = call[w].kind
  BY DEF Onward
<1>2. call[w].at \in Sending /\ UNCHANGED <<notifications, pushes, unheard>>
  BY DEF Onward
<1>3. \A v \in Workers : call'[v] = IF v = w THEN n ELSE call[v]
  BY <1>1 DEF TypeOK
<1>4. ASSUME NEW v \in Workers PROVE Attends(v, id, k)' <=> Attends(v, id, k)
  BY <1>1, <1>2, <1>3 DEF Attends
<1>5. Attended(id, k)' <=> Attended(id, k)
  BY <1>4 DEF Attended
<1> QED
  BY <1>2, <1>5, NothingSeen

(* The call that inserts the row takes up the stage. *)
LEMMA CreateSeen ==
    ASSUME TypeOK, Agree, NEW w \in Workers, CreateOnce(w), NEW id \in Ids, NEW k \in Kind
    PROVE  StageNext(id, k)
<1>0. call[w] \in Call /\ call[w].id \in Ids /\ call[w].kind \in Kind /\ call[w].at = "create"
  BY CallShape DEF CreateOnce, TypeOK
<1>1. CASE notifications[<<call[w].id, call[w].kind>>] # "none"
  <2>1. Quiet
    BY <1>1 DEF CreateOnce, Return, TypeOK, Quiet
  <2> QED
    BY <2>1, QuietSeen
<1>2. CASE notifications[<<call[w].id, call[w].kind>>] = "none"
  <2>1. PICK i \in Ids, l \in Kind : i = call[w].id /\ l = call[w].kind
    BY <1>0
  <2>2. PICK n : n = [call[w] EXCEPT !.at = "send"]
    OBVIOUS
  <2>3. n.at = "send" /\ n.id = i /\ n.kind = l
    BY <1>0, <2>1, <2>2 DEF Call
  <2>4. /\ \A v \in Workers : call'[v] = IF v = w THEN n ELSE call[v]
        /\ notifications' = [notifications EXCEPT ![<<i, l>>] = "pending"]
        /\ pushes' = pushes /\ unheard' = unheard
    BY <1>2, <2>1, <2>2 DEF CreateOnce, TypeOK
  <2>5. notifications'[<<id, k>>] = IF <<id, k>> = <<i, l>> THEN "pending" ELSE notifications[<<id, k>>]
    BY <2>4 DEF TypeOK
  <2>6. CASE id = i /\ k = l
    <3>1. StageState(id, k) = "none"
      BY <1>2, <2>1, <2>6, StageView
    <3>2. Attends(w, id, k)'
      BY <2>3, <2>4, <2>6 DEF Attends, Sending
    <3>3. StageState(id, k)' = "under way"
      BY <2>5, <2>6, <3>2 DEF StageState
    <3>4. Received(id, k)' = Received(id, k) /\ Known(id, k)' = Known(id, k)
      BY <2>4 DEF Received, Known
    <3> QED
      BY <3>1, <3>3, <3>4 DEF StageNext, Stage!Next, Stage!TakeUp
  <2>7. CASE <<id, k>> # <<i, l>>
    <3>1. ASSUME NEW v \in Workers PROVE Attends(v, id, k)' <=> Attends(v, id, k)
      BY <1>0, <2>1, <2>3, <2>4, <2>7 DEF Attends, Sending
    <3>2. Attended(id, k)' <=> Attended(id, k)
      BY <3>1 DEF Attended
    <3> QED
      BY <2>4, <2>5, <2>7, <3>2, NothingSeen
  <2> QED
    BY <2>6, <2>7
<1> QED
  BY <1>1, <1>2

(* A push that is accepted reaches a phone the stage has not reached. *)
LEMMA SendSeen ==
    ASSUME TypeOK, Agree, NEW w \in Workers, NEW t \in Tokens,
           NEW answer \in Answer, Send(w, t, answer),
           NEW id \in Ids, NEW k \in Kind
    PROVE  StageNext(id, k)
<1>0. call[w] \in Call /\ call[w].id \in Ids /\ call[w].kind \in Kind /\ call[w].at = "send" /\ t \in call[w].left
  BY CallShape DEF Send, TypeOK
<1>1. PICK i \in Ids, l \in Kind : i = call[w].id /\ l = call[w].kind
  BY <1>0
<1>2. PICK n : n = [call[w] EXCEPT
          !.at = AfterToken(call[w].left \ {t}, IF answer = "unregistered" THEN {t} ELSE {}),
          !.left = call[w].left \ {t},
          !.dead = IF answer = "unregistered" THEN {t} ELSE {},
          !.delivered = @ \/ answer = "ok"]
  OBVIOUS
<1>3. n.at \in Sending /\ n.id = i /\ n.kind = l
  BY <1>0, <1>1, <1>2 DEF Call, AfterToken, Sending
<1>4. /\ \A v \in Workers : call'[v] = IF v = w THEN n ELSE call[v]
      /\ notifications' = notifications
  BY <1>2 DEF Send, TypeOK
<1>5. \A p \in Ids \X Kind \X Tokens :
         pushes'[p] = IF p = <<i, l, t>> /\ answer \in {"ok", "lost"} THEN pushes[p] + 1 ELSE pushes[p]
  BY <1>1 DEF Send, TypeOK
<1>u. unheard' = IF answer = "lost" THEN unheard \cup {<<i, l, t>>} ELSE unheard
  BY <1>1 DEF Send
<1>6. pushes[<<i, l, t>>] = 0
  BY <1>0, <1>1 DEF Agree, CallsOK, CallOK, Sending
<1>7. ASSUME NEW v \in Workers PROVE Attends(v, id, k)' <=> Attends(v, id, k)
  BY <1>0, <1>1, <1>3, <1>4 DEF Attends, Sending
<1>8. Attended(id, k)' <=> Attended(id, k)
  BY <1>7 DEF Attended
<1>9. CASE id = i /\ k = l /\ answer \in {"ok", "lost"}
  <2>1. StageState(id, k) = "under way"
    BY <1>0, <1>1, <1>9, AttendedRow DEF Attends, Sending
  <2>2. StageState(id, k)' = StageState(id, k)
    BY <1>4, <1>8 DEF StageState, Attended
  <2>3. Received(id, k)[t] = 0
    BY <1>6, <1>9 DEF Received
  <2>4. Received(id, k)' = [Received(id, k) EXCEPT ![t] = 1]
    <3>1. ASSUME NEW p \in Tokens
          PROVE  pushes'[<<id, k, p>>] = IF p = t THEN 1 ELSE pushes[<<id, k, p>>]
      <4>1. <<id, k, p>> \in Ids \X Kind \X Tokens /\ (<<id, k, p>> = <<i, l, t>> <=> p = t)
        BY <1>9
      <4> QED
        BY <1>5, <1>6, <1>9, <4>1
    <3> QED
      BY <3>1 DEF Received
  <2>5. Known(id, k)' \in {Known(id, k), Known(id, k) \cup {t}}
    <3>1. \A p \in Tokens : p # t => (p \in Known(id, k)' <=> p \in Known(id, k))
      <4>1. ASSUME NEW p \in Tokens, p # t PROVE p \in Known(id, k)' <=> p \in Known(id, k)
        <5>1. /\ <<id, k, p>> \in Ids \X Kind \X Tokens /\ <<id, k, p>> # <<i, l, t>>
              /\ <<id, k, p>> \in unheard' <=> <<id, k, p>> \in unheard
          BY <1>u, <4>1
        <5> QED
          BY <1>5, <5>1 DEF Known
      <4> QED
        BY <4>1
    <3>2. t \notin Known(id, k)
      BY <1>6, <1>9 DEF Known
    <3>3. Known(id, k) \subseteq Tokens /\ Known(id, k)' \subseteq Tokens
      BY DEF Known
    <3>4. CASE t \in Known(id, k)'
      <4>1. Known(id, k)' = Known(id, k) \cup {t}
        BY <3>1, <3>3, <3>4
      <4> QED
        BY <4>1
    <3>5. CASE t \notin Known(id, k)'
      <4>1. Known(id, k)' = Known(id, k)
        BY <3>1, <3>2, <3>3, <3>5
      <4> QED
        BY <4>1
    <3> QED
      BY <3>4, <3>5
  <2> QED
    BY <2>1, <2>2, <2>3, <2>4, <2>5 DEF StageNext, Stage!Next, Stage!Reach
<1>10. CASE ~(id = i /\ k = l /\ answer \in {"ok", "lost"})
  <2>1. \A p \in Tokens : /\ pushes'[<<id, k, p>>] = pushes[<<id, k, p>>]
                          /\ <<id, k, p>> \in unheard' <=> <<id, k, p>> \in unheard
    BY <1>5, <1>u, <1>10
  <2> QED
    BY <1>4, <1>8, <2>1, NothingSeen
<1> QED
  BY <1>9, <1>10

(* The only call that attends to a stage records what it has delivered. *)
LEMMA ResultSeen ==
    ASSUME TypeOK, Agree, NEW w \in Workers, UpdateDeliveryResult(w), NEW id \in Ids, NEW k \in Kind
    PROVE  StageNext(id, k)
<1>0. call[w].id \in Ids /\ call[w].kind \in Kind /\ call[w].at = "result"
  BY CallShape DEF UpdateDeliveryResult, TypeOK
<1>1. PICK i \in Ids, l \in Kind : i = call[w].id /\ l = call[w].kind
  BY <1>0
<1>2. /\ \A v \in Workers : call'[v] = IF v = w THEN NoCall ELSE call[v]
      /\ pushes' = pushes /\ unheard' = unheard
  BY DEF UpdateDeliveryResult, Return, TypeOK
<1>3. notifications'[<<id, k>>] = IF <<id, k>> = <<i, l>>
                                  THEN IF call[w].delivered THEN "sent" ELSE "failed"
                                  ELSE notifications[<<id, k>>]
  BY <1>1 DEF UpdateDeliveryResult, TypeOK
<1>4. call[w].delivered <=> Known(i, l) # {}
  BY <1>0, <1>1 DEF Agree, CallsOK, CallOK, Sending
<1>5. Received(id, k)' = Received(id, k) /\ Known(id, k)' = Known(id, k)
  BY <1>2 DEF Received, Known
<1>6. CASE id = i /\ k = l
  <2>1. StageState(id, k) = "under way"
    BY <1>0, <1>1, <1>6, AttendedRow DEF Attends, Sending
  <2>2. StageState(id, k)' = IF Known(id, k) # {} THEN "sent" ELSE "failed"
    BY <1>3, <1>4, <1>6 DEF StageState
  <2> QED
    BY <1>5, <2>1, <2>2 DEF StageNext, Stage!Next, Stage!Record
<1>7. CASE <<id, k>> # <<i, l>>
  <2>1. ASSUME NEW v \in Workers PROVE Attends(v, id, k)' <=> Attends(v, id, k)
    BY <1>1, <1>2, <1>7 DEF Attends, Sending, NoCall
  <2>2. Attended(id, k)' <=> Attended(id, k)
    BY <2>1 DEF Attended
  <2> QED
    BY <1>2, <1>3, <1>7, <2>2, NothingSeen
<1> QED
  BY <1>6, <1>7

(* A row whose insert was not answered is lost from the start. *)
LEMMA AbandonSeen ==
    ASSUME TypeOK, Agree, NEW w \in Workers, Abandon(w), NEW id \in Ids, NEW k \in Kind
    PROVE  StageNext(id, k)
<1>0. call[w].id \in Ids /\ call[w].kind \in Kind /\ call[w].at = "create"
  BY CallShape DEF Abandon, TypeOK
<1>1. PICK i \in Ids, l \in Kind : i = call[w].id /\ l = call[w].kind
  BY <1>0
<1>2. /\ \A v \in Workers : call'[v] = IF v = w THEN NoCall ELSE call[v]
      /\ pushes' = pushes /\ unheard' = unheard
  BY DEF Abandon, TypeOK
<1>3. notifications'[<<id, k>>] = IF <<id, k>> = <<i, l>> THEN "pending" ELSE notifications[<<id, k>>]
  BY <1>1 DEF Abandon, TypeOK
<1>4. Received(id, k)' = Received(id, k) /\ Known(id, k)' = Known(id, k)
  BY <1>2 DEF Received, Known
<1>5. ASSUME NEW v \in Workers PROVE Attends(v, id, k)' <=> Attends(v, id, k)
  BY <1>0, <1>2 DEF Attends, Sending, NoCall
<1>6. Attended(id, k)' <=> Attended(id, k)
  BY <1>5 DEF Attended
<1>7. CASE id = i /\ k = l
  <2>1. notifications[<<id, k>>] = "none"
    BY <1>1, <1>7 DEF Abandon
  <2>2. StageState(id, k) = "none" /\ ~Attended(id, k)
    BY <2>1, StageView, AttendedRow DEF Attended
  <2>3. StageState(id, k)' = "lost"
    BY <1>3, <1>6, <1>7, <2>2 DEF StageState, Attended
  <2> QED
    BY <1>4, <2>2, <2>3 DEF StageNext, Stage!Next, Stage!Lose
<1>8. CASE <<id, k>> # <<i, l>>
  BY <1>2, <1>3, <1>6, <1>8, NothingSeen
<1> QED
  BY <1>7, <1>8

(* Each step is, for each stage, one that StagePush allows, or nothing. *)
LEMMA NextSeen == IInv /\ [Next]_vars => \A id \in Ids, k \in Kind : StageNext(id, k)
<1> SUFFICES ASSUME IInv, [Next]_vars, NEW id \in Ids, NEW k \in Kind PROVE StageNext(id, k)
  OBVIOUS
<1>1. TypeOK /\ Agree
  BY DEF IInv, Agree
<1>2. CASE Next
  BY <1>1, <1>2, CallsStepShape, QuietSeen, OnwardSeen, CreateSeen, SendSeen, ResultSeen, AbandonSeen
  DEF CallsStep
<1>3. CASE UNCHANGED vars
  <2>1. Quiet
    BY <1>3 DEF vars, Quiet
  <2> QED
    BY <1>1, <2>1, QuietSeen
<1> QED
  BY <1>2, <1>3

(* At first no stage has been taken up. *)
LEMMA InitSeen == Init => \A id \in Ids, k \in Kind : Stage(id, k)!Init
<1> SUFFICES ASSUME Init, NEW id \in Ids, NEW k \in Kind PROVE Stage(id, k)!Init
  OBVIOUS
<1>1. StageState(id, k) = "none"
  BY DEF Init, StageState
<1>2. Received(id, k) = [t \in Tokens |-> 0] /\ Known(id, k) = {}
  BY DEF Init, Received, Known
<1> QED
  BY <1>1, <1>2 DEF Stage!Init

(***************************************************************************)
(* Notification implements StagePush for every stage of every booking: a   *)
(* stage is taken up once, by one call, reaches a phone once at most, and  *)
(* is over for good when it is recorded or its call is gone.               *)
(***************************************************************************)
THEOREM Implementation == Spec => \A id \in Ids, k \in Kind : Stage(id, k)!Spec
<1>1. ASSUME NEW id \in Ids, NEW k \in Kind PROVE Spec => Stage(id, k)!Spec
  <2>1. Init => Stage(id, k)!Init
    BY InitSeen
  <2>2. IInv /\ [Next]_vars => [Stage(id, k)!Next]_(Stage(id, k)!vars)
    BY NextSeen DEF StageNext, Stage!vars
  <2> QED
    BY <2>1, <2>2, Invariance, PTL DEF Spec, Stage!Spec
<1> QED
  BY <1>1

(* The same with all stages side by side, as the run checks it. *)
THEOREM StageSafety == Spec => StagesSpec
<1>1. IInv /\ [Next]_vars =>
         [\A id \in Ids, k \in Kind : [Stage(id, k)!Next]_<<StageState(id, k), Received(id, k), Known(id, k)>>]_vars
  BY NextSeen DEF StageNext
<1> QED
  BY <1>1, InitSeen, Invariance, PTL DEF Spec, StagesSpec
=============================================================================
