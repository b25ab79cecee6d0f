------------------------------- MODULE Views --------------------------------
(***************************************************************************)
(* What the API computes from the queue table for its readers: the day     *)
(* view with its tickets, the lobby board and the live boxes, the number   *)
(* of cars ahead, the reports of the cabinet, the utilization of the       *)
(* network, and the scan statistics of a point's QR code.                  *)
(*                                                                         *)
(* The table changes by the steps of BookingLedger (Booking implements     *)
(* them); a view is read from a committed state.  A moment to read at, the *)
(* boxes a point has then and its prices then are arguments of the views,  *)
(* since all of them change independently of the bookings.  A booking lies *)
(* inside one day (planBooking: the hours of its weekday).                 *)
(***************************************************************************)
EXTENDS QueueTable, Integers, Sequences, FiniteSets, FiniteSetsExt

CONSTANTS
    Prices,     \* what the price options cost: option -> amount, 0 for a deleted one
    Baskets,    \* the sets of [service, option] a booking may be made of
    Day, Hour,  \* their lengths in units of time
    WeekDays,   \* days of the trailing week
    MonthDays,  \* days of every calendar month
    Window,     \* bookingAttributionWindow
    Moments,    \* the times a view may be asked for
    MaxClock, MaxScans

ASSUME ViewsAssumption ==
    /\ Day \in Nat \ {0} /\ Hour \in Nat \ {0} /\ Day % Hour = 0
    /\ WeekDays \in Nat \ {0} /\ MonthDays \in Nat \ {0}
    /\ Window \in Nat /\ Moments \subseteq Nat
    /\ \A a \in Asks : a.start \div Day = (End(a) - 1) \div Day
    /\ \A basket \in Baskets :
          /\ IsFiniteSet(basket)
          /\ \A it \in basket, prices \in Prices : prices[it.option] \in Nat

VARIABLES
    items,      \* queue_items: id -> basket
    created_at, \* id -> the time its row was inserted
    scans,      \* the scan times of the code, in order
    clock

vars == <<queue, items, created_at, scans, clock>>

Ledger == INSTANCE BookingLedger

Booked == {o \in Ids : queue[o] # NoRow}

-----------------------------------------------------------------------------

Init ==
    /\ Ledger!Init
    /\ items = [o \in Ids |-> {}]
    /\ created_at = [o \in Ids |-> 0]
    /\ scans = <<>>
    /\ clock = 0

(* The insert runs under the lock of the point: no two at one time. *)
Book(o, a, basket) ==
    /\ \A x \in Booked : queue[x].point = a.point => created_at[x] < clock
    /\ Ledger!Book(o, a)
    /\ items' = [items EXCEPT ![o] = basket]
    /\ created_at' = [created_at EXCEPT ![o] = clock]
    /\ UNCHANGED <<scans, clock>>

Move(o) ==
    /\ (\E to \in Status : Ledger!Move(o, to)) \/ Ledger!Cancel(o)
    /\ UNCHANGED <<items, created_at, scans, clock>>

Scan ==
    /\ Len(scans) < MaxScans
    /\ scans' = Append(scans, clock)
    /\ UNCHANGED <<queue, items, created_at, clock>>

Tick ==
    /\ clock < MaxClock
    /\ clock' = clock + 1
    /\ UNCHANGED <<queue, items, created_at, scans>>

Next ==
    \/ \E o \in Ids : Move(o) \/ \E a \in Asks, basket \in Baskets : Book(o, a, basket)
    \/ Scan
    \/ Tick

Spec == Init /\ [][Next]_vars

-----------------------------------------------------------------------------
(* Days and the queries. *)

dayStart(t) == Day * (t \div Day)

FindByWashingPointAndRange(p, from, to) ==
    {o \in Booked : /\ queue[o].point = p
                    /\ from <= queue[o].start /\ queue[o].start < to}

Live == {o \in Ids : queue[o].status \in ActiveStatus}

ListLive(p) == {o \in Live : queue[o].point = p /\ ~queue[o].overflow}

MutAnyDay(p, now) == ListLive(p)

ListLiveByWashingPointAndDate(p, now) ==
    {o \in Live \cap FindByWashingPointAndRange(p, dayStart(now), dayStart(now) + Day) :
        ~queue[o].overflow}

MutCountOverflowAhead(p, startAt) ==
    Cardinality({o \in Live : queue[o].point = p /\ queue[o].start < startAt})

CountActiveAhead(p, startAt) ==
    Cardinality({o \in Live : /\ queue[o].point = p /\ ~queue[o].overflow
                              /\ queue[o].start < startAt})

FindScheduledInRangeNetworkWide(from, to) ==
    {o \in Booked : Overlap(queue[o].start, queue[o].end, from, to)}

-----------------------------------------------------------------------------
(* The day view's tickets, the lobby board and the live boxes. *)

(* The letter of a box, counted from A; the O of overflow is letter 14. *)
ticketPrefix(box) == IF box = 0 THEN 14 ELSE (box - 1) % 26

MutByStart(x, o) == queue[x].start < queue[o].start

CreatedBefore(x, o) == created_at[x] < created_at[o]

ticketNumberBase == 10

Ticket(o) ==
    LET day  == dayStart(queue[o].start)
        rows == FindByWashingPointAndRange(queue[o].point, day, day + Day)
    IN  <<ticketPrefix(queue[o].box),
          ticketNumberBase + 1 +
            Cardinality({x \in rows : queue[x].box = queue[o].box /\ CreatedBefore(x, o)})>>

(* Rows come in the order of their starts: the last washing one remains,   *)
(* and the first of the others.                                            *)
currentByBox(rows, b) ==
    LET washing == {o \in rows : queue[o].status = "washing" /\ queue[o].box = b}
    IN  {o \in washing : \A x \in washing : queue[x].start <= queue[o].start}

nextByBox(rows, b) ==
    LET others == {o \in rows : queue[o].status # "washing" /\ queue[o].box = b}
    IN  {o \in others : \A x \in others : queue[o].start <= queue[x].start}

buildBoardResponse(p, now, boxes) ==
    LET rows == ListLiveByWashingPointAndDate(p, now)
    IN  [boxes   |-> [b \in boxes |-> currentByBox(rows, b)],
         waiting |-> {o \in rows : queue[o].status # "washing"}]

toLiveBoxItems(p, boxes) ==
    [b \in boxes |->
        [current |-> currentByBox(ListLive(p), b),
         next    |-> IF currentByBox(ListLive(p), b) # {} THEN {}
                     ELSE nextByBox(ListLive(p), b)]]

-----------------------------------------------------------------------------
(* The reports of a point. *)

Period == {"today", "week", "month"}

periodBounds(period, now) ==
    LET today == dayStart(now)
    IN  [start |-> CASE period = "today" -> today
                     [] period = "week"  -> today - (WeekDays - 1) * Day
                     [] period = "month" -> MonthDays * Day * (today \div (MonthDays * Day)),
         end   |-> today + Day]

previousPeriodBounds(bounds) ==
    [start |-> bounds.start - (bounds.end - bounds.start), end |-> bounds.start]

Total(f) == MapThenSumSet(LAMBDA i : f[i], DOMAIN f)

bookingPrice(o, prices) == Total([it \in items[o] |-> prices[it.option]])

Revenue(S, prices) == Total([o \in S |-> bookingPrice(o, prices)])

Minutes(o) == queue[o].end - queue[o].start

Ready(rows) == {o \in rows : queue[o].status = "ready"}

(* Overflow washes count, but take up no box and none of its minutes. *)
summarizeReportRows(rows, prices) ==
    LET inBoxes  == {o \in Ready(rows) : ~queue[o].overflow}
        services == {it.service : it \in UNION {items[o] : o \in Ready(rows)}}
        total(S) == [cars    |-> Cardinality(S),
                     revenue |-> Revenue(S, prices),
                     minutes |-> Total([o \in S \cap inBoxes |-> Minutes(o)])]
    IN  [total     |-> total(Ready(rows)),
         byService |-> [s \in services |->
             Total([o \in Ready(rows) |->
                 Total([it \in {it \in items[o] : it.service = s} |-> prices[it.option]])])],
         byBox     |-> [b \in {queue[o].box : o \in inBoxes} |->
             total({o \in inBoxes : queue[o].box = b})]]

bucketIndex(period, start, t) ==
    IF period = "today" THEN (t % Day) \div Hour ELSE (t - start) \div Day

Buckets(period, bounds) ==
    0 .. (IF period = "today" THEN Day \div Hour ELSE (bounds.end - bounds.start) \div Day) - 1

MutBarsFromTomorrow(period, bounds, rows, prices) ==
    [i \in Buckets(period, bounds) |->
        Revenue({o \in Ready(rows) : bucketIndex(period, bounds.start, queue[o].start) = i + 1},
                prices)]

reportBars(period, bounds, rows, prices) ==
    [i \in Buckets(period, bounds) |->
        Revenue({o \in Ready(rows) : bucketIndex(period, bounds.start, queue[o].start) = i},
                prices)]

buildReportsResponse(p, period, now, boxes, prices) ==
    LET bounds   == periodBounds(period, now)
        before   == previousPeriodBounds(bounds)
        rows     == FindByWashingPointAndRange(p, bounds.start, bounds.end)
        current  == summarizeReportRows(rows, prices)
        previous == summarizeReportRows(
                        FindByWashingPointAndRange(p, before.start, before.end), prices)
    IN  [current  |-> current.total,
         previous |-> previous.total,
         bars     |-> reportBars(period, bounds, rows, prices),
         services |-> current.byService,
         boxes    |-> [b \in boxes \cap DOMAIN current.byBox |-> current.byBox[b]]]

-----------------------------------------------------------------------------
(* The network's figures of a day, and the statistics of a QR code. *)

MutCountMissed(now) ==
    Total([o \in {o \in FindScheduledInRangeNetworkWide(dayStart(now), dayStart(now) + Day) :
                      ~queue[o].overflow} |-> Minutes(o)])

bookedMinutes(now) ==
    LET booked == {o \in FindScheduledInRangeNetworkWide(dayStart(now), dayStart(now) + Day) :
                      HoldsBox(o)}
    IN  Total([o \in booked |-> Min({queue[o].end, dayStart(now) + Day})
                                  - Max({queue[o].start, dayStart(now)})])

(* A query sees the first n scans. *)
CountScans(n, since) == Cardinality({i \in 1 .. n : scans[i] >= since})

ScanTimesSince(n, since) == {i \in 1 .. n : scans[i] >= since}

MutCountPerScan(p, times) ==
    Cardinality({e \in Booked \X times :
        /\ queue[e[1]].point = p
        /\ scans[e[2]] <= created_at[e[1]] /\ created_at[e[1]] <= scans[e[2]] + Window})

CountCreatedNearTimes(p, times) ==
    Cardinality({o \in Booked :
        /\ queue[o].point = p
        /\ \E i \in times : scans[i] <= created_at[o] /\ created_at[o] <= scans[i] + Window})

(* The queries of Stats run one after the other, after n1 <= n2 <= n3 scans. *)
Stats(p, now, n1, n2, n3) ==
    LET weekAgo == dayStart(now) - (WeekDays - 1) * Day
        times   == ScanTimesSince(n3, weekAgo)
    IN  [scansToday    |-> CountScans(n1, dayStart(now)),
         scans7d       |-> CountScans(n2, weekAgo),
         scansByDay    |-> [d \in 0 .. WeekDays - 1 |->
             Cardinality({i \in times : (scans[i] - weekAgo) \div Day = d})],
         bookingsViaQR |-> CountCreatedNearTimes(p, times)]

-----------------------------------------------------------------------------

Starts == {a.start : a \in Asks}
Boxes == {a.box : a \in Asks}

(* Letters repeat after 26 boxes, and box 15 has the O of overflow. *)
ShareLetter(x, o) ==
    queue[x].box # queue[o].box /\ ticketPrefix(queue[x].box) = ticketPrefix(queue[o].box)

(***************************************************************************)
(* A booking keeps its ticket through later bookings and every change of   *)
(* status, and no other booking of its day carries it, but for boxes with  *)
(* one letter (toDayItems: tickets are not stored but counted anew in      *)
(* creation order for every answer).                                       *)
(***************************************************************************)
TicketsStable ==
    [][\A o \in Booked :
        /\ Ticket(o)' = Ticket(o)
        /\ \A x \in Booked \ {o} :
            /\ queue[x].point = queue[o].point
            /\ dayStart(queue[x].start) = dayStart(queue[o].start)
            /\ ~ShareLetter(x, o)
            => Ticket(x) # Ticket(o)]_vars

(***************************************************************************)
(* Nothing that happens to an out-of-queue booking is seen by customers:   *)
(* the busy intervals behind the slots, the cars ahead, the lobby board    *)
(* and the live boxes all stay as they were (the NOT is_overflow of four   *)
(* separate queries).                                                      *)
(***************************************************************************)
CustomersSee(p) ==
    <<FindActiveBookingsInRange(p, 0, Max({End(a) : a \in Asks})),
      [t \in Starts |-> CountActiveAhead(p, t)],
      [t \in Moments |-> buildBoardResponse(p, t, Boxes)],
      toLiveBoxItems(p, Boxes)>>

OverflowInvisible ==
    [][\A o \in Ids :
        queue'[o] # queue[o] /\ queue'[o].overflow
        => \A p \in Points : CustomersSee(p)' = CustomersSee(p)]_vars

(***************************************************************************)
(* The lobby board loses no live booking of the day: it waits, or it is    *)
(* what its box washes, or the same box of the same point was started on a *)
(* later booking of that day too, or its box was removed.  A box never     *)
(* shows two washes; a live box without a wash shows its earliest booking  *)
(* (buildBoardResponse, toLiveBoxItems: maps keyed by the number of a box, *)
(* the last or first row wins).                                            *)
(***************************************************************************)
BoardLosesNobody ==
    \A p \in Points, t \in Moments, boxes \in SUBSET Boxes :
        LET board == buildBoardResponse(p, t, boxes)
            live  == toLiveBoxItems(p, boxes)
        IN  /\ \A o \in ListLive(p) :
                LET b == queue[o].box
                IN  /\ dayStart(queue[o].start) = dayStart(t)
                       => \/ o \in board.waiting
                          \/ b \notin boxes
                          \/ o \in board.boxes[b]
                          \/ \E x \in ListLive(p) :
                                /\ queue[x].status = "washing" /\ queue[x].box = b
                                /\ dayStart(queue[x].start) = dayStart(t)
                                /\ queue[x].start > queue[o].start
                    /\ b \in boxes /\ live[b].current = {}
                       => \E x \in live[b].next : queue[x].start <= queue[o].start
            /\ \A b \in boxes : /\ Cardinality(board.boxes[b]) <= 1
                                 /\ Cardinality(live[b].current \cup live[b].next) <= 1

(***************************************************************************)
(* A report agrees with itself, whichever boxes the point still has: the   *)
(* bars of every period add up to its revenue, and so do the services; the *)
(* cars and minutes of its boxes fall short of the totals by exactly those *)
(* of removed boxes and of out-of-queue bookings, which count no minutes.  *)
(* And it agrees with the reports of its days: each bar of a week or month *)
(* is the revenue of that day, and the figures it is compared with are     *)
(* those of the days before (buildReportsResponse sums three ways over two *)
(* ranges, and Box.Delete asks for no bookings).                           *)
(***************************************************************************)
ReportsAgree ==
    \A p \in Points, period \in Period, t \in Moments, prices \in Prices, boxes \in SUBSET Boxes :
        LET r      == buildReportsResponse(p, period, t, boxes, prices)
            bounds == periodBounds(period, t)
            days   == (bounds.end - bounds.start) \div Day
            revenueOf(d) == buildReportsResponse(p, "today", d, {}, prices).current.revenue
            inNoBox == {o \in Ready(FindByWashingPointAndRange(p, bounds.start, bounds.end)) :
                            queue[o].box \notin boxes}
            removed == {o \in inNoBox : ~queue[o].overflow}
        IN  /\ r.current.revenue = Total(r.bars)
            /\ r.current.revenue = Total(r.services)
            /\ r.current.cars = Cardinality(inNoBox) + Total([b \in DOMAIN r.boxes |-> r.boxes[b].cars])
            /\ r.current.minutes = Total([o \in removed |-> Minutes(o)])
                                    + Total([b \in DOMAIN r.boxes |-> r.boxes[b].minutes])
            /\ period # "today" =>
                 \A i \in DOMAIN r.bars : r.bars[i] = revenueOf(bounds.start + i * Day)
            /\ r.previous.revenue = Total([i \in 1 .. days |-> revenueOf(bounds.start - i * Day)])

(***************************************************************************)
(* No box is counted busy for longer than there is time: the booked        *)
(* minutes of a day never exceed a day for every box they fall into, and   *)
(* those of a report never its period (admin stats, which adds up the      *)
(* minutes of rows and relies on their not overlapping).                   *)
(***************************************************************************)
UtilizationWithinDay ==
    \A t \in Moments :
        LET used == {<<queue[o].point, queue[o].box>> :
                        o \in {o \in Booked : ~queue[o].overflow
                                             /\ dayStart(queue[o].start) = dayStart(t)}}
        IN  /\ bookedMinutes(t) <= Day * Cardinality(used)
            /\ \A p \in Points, period \in Period, boxes \in SUBSET Boxes :
                LET r == buildReportsResponse(p, period, t, boxes, CHOOSE c \in Prices : TRUE)
                IN  \A b \in DOMAIN r.boxes :
                        r.boxes[b].minutes <= periodBounds(period, t).end - periodBounds(period, t).start

(***************************************************************************)
(* The figures of a code add up although its four queries see different    *)
(* scans: today's never exceed the week's nor the last bar, the week's     *)
(* never the bars, except for scans made after midnight passed meanwhile,  *)
(* and a booking is attributed to the code at most once (Manager.Stats).   *)
(***************************************************************************)
ScansAddUp ==
    \A p \in Points, now \in 0 .. clock, n1, n2, n3 \in 0 .. Len(scans) :
        n1 <= n2 /\ n2 <= n3 /\ (\A i \in 1 .. Len(scans) : scans[i] < now => i <= n1)
        => LET s == Stats(p, now, n1, n2, n3)
               afterMidnight == CountScans(n3, dayStart(now) + Day)
           IN  /\ s.scansToday <= s.scans7d
               /\ s.scansToday <= s.scansByDay[WeekDays - 1] + afterMidnight
               /\ s.scans7d <= Total(s.scansByDay) + afterMidnight
               /\ s.bookingsViaQR <= Cardinality({o \in Booked : queue[o].point = p})
=============================================================================
