---------------------------- MODULE BoardStream ----------------------------
(***************************************************************************)
(* The live streams of one washing point: the event bus (internal/platform *)
(* /eventbus), the handlers boardEvents and events (internal/queue/        *)
(* handler.go) that sleep on it, and the requests that commit a change and *)
(* then call Publish (internal/queue/manager.go, internal/box/handler.go). *)
(*                                                                         *)
(* What streams show is abstracted to version numbers: how often the       *)
(* bookings of the point and the open flag of one of its boxes have        *)
(* changed.                                                                *)
(***************************************************************************)
EXTENDS Naturals

CONSTANTS
    Boards,     \* lobby screens on /washing-points/{id}/board/events
    Trackers,   \* customers on /queue/{id}/events, all of one booking
    Writers,    \* requests that change something at the point
    MaxCommits, \* bound on the changes of bookings
    MaxFlips    \* bound on the changes of the box's flag

ASSUME StreamAssumption ==
    Boards \cap Trackers = {} /\ MaxCommits \in Nat /\ MaxFlips \in Nat

Streams == Boards \cup Trackers

VARIABLES
    version,    \* "rows", "open" -> number of committed changes
    is_open,    \* the box's flag
    ended,      \* is the tracked booking ready or canceled?
    wpc, wjob,  \* where a writer stands; the is_open it wants, whether it changes it
    subs,       \* bus.subs of the point
    signal,     \* stream -> wakeups in its channel, which has room for one
    spc,        \* where a stream stands
    seen,       \* stream -> the versions of its two reads
    last,       \* tracker -> was the booking ended when it read it?
    woken       \* auxiliary: has the stream taken a wakeup since it subscribed?

writerVars == <<version, is_open, ended, wpc, wjob>>
streamVars == <<subs, signal, spc, seen, last, woken>>
boardVars == <<writerVars, streamVars>>

NoJob == [want |-> TRUE, openChanged |-> FALSE]

(***************************************************************************)
(* A board reads the boxes and then the live bookings; a tracker reads its *)
(* booking and then counts the cars ahead.                                 *)
(***************************************************************************)
Reads(s, k) == IF s \in Boards /\ k = 1 THEN "open" ELSE "rows"

StreamInit ==
    /\ version = [rows |-> 0, open |-> 0]
    /\ is_open = TRUE /\ ended = FALSE
    /\ wpc = [w \in Writers |-> "idle"] /\ wjob = [w \in Writers |-> NoJob]
    /\ subs = {}
    /\ signal = [s \in Streams |-> 0]
    /\ spc = [s \in Streams |-> "off"]
    /\ seen = [s \in Streams |-> [k \in {1, 2} |-> 0]]
    /\ last = [s \in Streams |-> FALSE] /\ woken = [s \in Streams |-> FALSE]

-----------------------------------------------------------------------------
(* Writers *)

(* A booking request of module Booking commits; it may end or restore the *)
(* tracked booking.                                                        *)
CommitBooking(w) ==
    /\ wpc[w] = "idle" /\ version.rows < MaxCommits
    /\ version' = [version EXCEPT !.rows = @ + 1]
    /\ ended' \in BOOLEAN
    /\ wpc' = [wpc EXCEPT ![w] = "publish"]
    /\ UNCHANGED <<is_open, wjob, streamVars>>

(* PATCH .../boxes/{boxId} reads the box and compares the flag. *)
BoxRead(w, want) ==
    /\ wpc[w] = "idle"
    /\ wjob' = [wjob EXCEPT ![w] = [want |-> want, openChanged |-> want # is_open]]
    /\ wpc' = [wpc EXCEPT ![w] = "box"]
    /\ UNCHANGED <<version, is_open, ended, streamVars>>

(* It writes the flag, and publishes if the flag it read differed. *)
BoxWrite(w) ==
    LET j == wjob[w]
    IN  /\ wpc[w] = "box"
        /\ j.want # is_open => version.open < MaxFlips
        /\ version' = [version EXCEPT !.open = IF j.want # is_open THEN @ + 1 ELSE @]
        /\ is_open' = j.want
        /\ wpc' = [wpc EXCEPT ![w] = IF j.openChanged THEN "publish" ELSE "idle"]
        /\ wjob' = [wjob EXCEPT ![w] = IF j.openChanged THEN j ELSE NoJob]
        /\ UNCHANGED <<ended, streamVars>>

(* Bus.Publish: a signal for every subscriber, coalesced with a waiting one. *)
MutUnbuffered(w) ==
    /\ wpc[w] = "publish"
    /\ signal' = [s \in Streams |-> IF s \in subs /\ spc[s] = "wait" THEN 1 ELSE signal[s]]
    /\ wpc' = [wpc EXCEPT ![w] = "idle"] /\ wjob' = [wjob EXCEPT ![w] = NoJob]
    /\ UNCHANGED <<version, is_open, ended, subs, spc, seen, last, woken>>

Publish(w) ==
    /\ wpc[w] = "publish"
    /\ signal' = [s \in Streams |-> IF s \in subs THEN 1 ELSE signal[s]]
    /\ wpc' = [wpc EXCEPT ![w] = "idle"] /\ wjob' = [wjob EXCEPT ![w] = NoJob]
    /\ UNCHANGED <<version, is_open, ended, subs, spc, seen, last, woken>>

-----------------------------------------------------------------------------
(* Streams *)

Connect(s) ==
    /\ spc[s] = "off"
    /\ spc' = [spc EXCEPT ![s] = "read1"]
    /\ UNCHANGED <<writerVars, subs, signal, seen, last, woken>>

(* One of the two queries of a snapshot. *)
Read(s, k) ==
    /\ spc[s] = IF k = 1 THEN "read1" ELSE "read2"
    /\ seen' = [seen EXCEPT ![s][k] = version[Reads(s, k)]]
    /\ last' = [last EXCEPT ![s] = IF s \in Trackers /\ k = 1 THEN ended ELSE @]
    /\ spc' = [spc EXCEPT ![s] = IF k = 1 THEN "read2" ELSE "send"]
    /\ UNCHANGED <<writerVars, subs, signal, woken>>

(* The deferred unsubscribe, and the stream is gone with all it knew. *)
Forget(s) ==
    /\ spc' = [spc EXCEPT ![s] = "off"]
    /\ signal' = [signal EXCEPT ![s] = 0]
    /\ seen' = [seen EXCEPT ![s] = [k \in {1, 2} |-> 0]]
    /\ last' = [last EXCEPT ![s] = FALSE]
    /\ woken' = [woken EXCEPT ![s] = FALSE]

Gone(s) == Forget(s) /\ subs' = subs \ {s}

(***************************************************************************)
(* The snapshot is written.  A tracker whose booking was ready or canceled *)
(* ends here; the first snapshot is followed by Subscribe.                 *)
(***************************************************************************)
MutTrackerNeverEnds(s) ==
    /\ spc[s] = "send"
    /\ spc' = [spc EXCEPT ![s] = IF s \in subs THEN "wait" ELSE "subscribe"]
    /\ UNCHANGED <<writerVars, subs, signal, seen, last, woken>>

Send(s) ==
    /\ spc[s] = "send"
    /\ \/ last[s] /\ Gone(s)
       \/ /\ ~last[s]
          /\ spc' = [spc EXCEPT ![s] = IF s \in subs THEN "wait" ELSE "subscribe"]
          /\ UNCHANGED <<subs, signal, seen, last, woken>>
    /\ UNCHANGED writerVars

(* Bus.Subscribe with an empty channel. *)
Subscribe(s) ==
    /\ spc[s] = "subscribe"
    /\ subs' = subs \cup {s}
    /\ spc' = [spc EXCEPT ![s] = "wait"]
    /\ UNCHANGED <<writerVars, signal, seen, last, woken>>

(* The stream takes the signal out of its channel, then reads. *)
Wake(s) ==
    /\ spc[s] = "wait" /\ signal[s] = 1
    /\ signal' = [signal EXCEPT ![s] = 0]
    /\ woken' = [woken EXCEPT ![s] = TRUE]
    /\ spc' = [spc EXCEPT ![s] = "read1"]
    /\ UNCHANGED <<writerVars, subs, seen, last>>

(* The client leaves, a query or a write fails, or WriteTimeout strikes. *)
Close(s) ==
    /\ spc[s] # "off"
    /\ Gone(s)
    /\ UNCHANGED writerVars

-----------------------------------------------------------------------------

Snapshot(s) == Read(s, 1) \/ Read(s, 2) \/ Send(s)

StreamNext ==
    \/ \E w \in Writers : \/ CommitBooking(w) \/ BoxWrite(w) \/ Publish(w)
                          \/ \E want \in BOOLEAN : BoxRead(w, want)
    \/ \E s \in Streams : Connect(s) \/ Snapshot(s) \/ Subscribe(s) \/ Wake(s) \/ Close(s)

StreamSpec == StreamInit /\ [][StreamNext]_boardVars

(***************************************************************************)
(* A handler goroutine that can run does run: it publishes what it         *)
(* committed, and takes a waiting signal through to the next snapshot.     *)
(* Nobody has to connect, to write, or to stay connected.                  *)
(***************************************************************************)
FairSpec ==
    /\ StreamSpec
    /\ \A w \in Writers : WF_boardVars(Publish(w))
    /\ \A s \in Streams : WF_boardVars(Snapshot(s)) /\ WF_boardVars(Subscribe(s)) /\ WF_boardVars(Wake(s))

-----------------------------------------------------------------------------
(* Properties *)

(* A stream's channel never holds more than one wakeup. *)
TypeOK ==
    /\ version \in [rows : 0..MaxCommits, open : 0..MaxFlips]
    /\ is_open \in BOOLEAN /\ ended \in BOOLEAN
    /\ wpc \in [Writers -> {"idle", "box", "publish"}]
    /\ wjob \in [Writers -> [want : BOOLEAN, openChanged : BOOLEAN]]
    /\ subs \in SUBSET Streams
    /\ signal \in [Streams -> 0..1]
    /\ spc \in [Streams -> {"off", "read1", "read2", "send", "subscribe", "wait"}]
    /\ seen \in [Streams -> [{1, 2} -> Nat]]
    /\ last \in [Streams -> BOOLEAN] /\ woken \in [Streams -> BOOLEAN]

(* Has what the stream showed at its k-th read changed since? *)
Stale(s, k) == seen[s][k] < version[Reads(s, k)]

(* Somebody has committed and will publish. *)
PublishComing == \E w \in Writers : wpc[w] = "publish"

(***************************************************************************)
(* No lost wakeup: a stream that sleeps on bookings that have changed      *)
(* since it read them has a signal waiting, or the writer has yet to       *)
(* publish.  Coalescing signals in a channel of capacity one loses         *)
(* nothing, because the channel is drained before the snapshot is read.    *)
(* This starts with the first wakeup after Subscribe (see NoMissedChange). *)
(***************************************************************************)
NoLostWakeup ==
    \A s \in Streams, k \in {1, 2} :
        /\ spc[s] = "wait" /\ woken[s] /\ Reads(s, k) = "rows" /\ Stale(s, k)
        => signal[s] = 1 \/ PublishComing

(***************************************************************************)
(* Only live streams are subscribed, so the bus never keeps a channel that *)
(* nobody drains: unsubscribe runs on every way out of a handler.          *)
(***************************************************************************)
NoLeakedSubscriber ==
    \A s \in Streams : /\ s \in subs => spc[s] \in {"read1", "read2", "send", "wait"}
                       /\ spc[s] = "wait" => s \in subs
                       /\ signal[s] = 1 => s \in subs

(***************************************************************************)
(* A change of the bookings reaches every stream that has been woken once  *)
(* and stays connected, while other changes keep coming.                   *)
(***************************************************************************)
ChangesReachStreams ==
    \A s \in Streams, v \in 0..MaxCommits :
        (s \in subs /\ woken[s] /\ version.rows >= v) ~> (s \notin subs \/ seen[s][2] >= v)

(***************************************************************************)
(* A customer's stream ends by itself once the booking is ready or         *)
(* canceled, unless staff restore the booking first.                       *)
(***************************************************************************)
TrackersEnd ==
    \A s \in Trackers : (s \in subs /\ woken[s] /\ ended) ~> (s \notin subs \/ ~ended)

(***************************************************************************)
(* boardEvents and docs/API.md: an initial snapshot, then a fresh one      *)
(* "whenever anything changes": as NoLostWakeup, from the first snapshot.  *)
(***************************************************************************)
NoMissedChange ==
    \A s \in Streams, k \in {1, 2} :
        spc[s] = "wait" /\ Reads(s, k) = "rows" /\ Stale(s, k) => signal[s] = 1 \/ PublishComing
=============================================================================
