------------------------------ MODULE Catalog ------------------------------
(***************************************************************************)
(* The lists staff edit: the price options of a service                    *)
(* (internal/service), the photos of a washing point (internal/photo) and  *)
(* the photos of a booking (internal/bookingphoto).                        *)
(*                                                                         *)
(* Price options and point photos share one protocol: one row is marked    *)
(* (is_default, is_cover), and the mark is moved by an UPDATE that clears  *)
(* it everywhere and a second statement that sets it, in no transaction.   *)
(* Only price options have a unique index on the mark.  Photos have files. *)
(* A behaviour is about one list of one kind, chosen at the start; lists   *)
(* do not influence each other.  Names, prices, sort orders and contents   *)
(* are data; so is which of several rows is first in order.  The booking   *)
(* is being washed throughout (upload refuses any other).                  *)
(***************************************************************************)
EXTENDS Naturals, FiniteSets

CONSTANTS
    Edits,                \* concurrently running requests
    MaxRows,              \* bound on the rows ever inserted
    maxPhotosPerBooking

ASSUME CatalogAssumption ==
    /\ MaxRows \in Nat /\ maxPhotosPerBooking \in Nat \ {0}
    /\ IsFiniteSet(Edits)

Rows == 1 .. MaxRows

VARIABLES
    list,       \* the kind of list
    row,        \* the table: absent or marked or plain, by order of insertion
    made,       \* rows inserted so far
    files,      \* rows whose file is stored
    pc,         \* where each request stands
    job,        \* the row, the mark it is to get, and what follows Unset
    disturbed,  \* two requests overlapped or a statement failed
    unheard     \* (history) rows whose INSERT was done though its caller got an error

listVars == <<list, row, made, files, pc, job, disturbed, unheard>>

Kind == {"options", "photos", "booking"}

Present == {n \in Rows : row[n] # "absent"}
Marked  == {n \in Rows : row[n] = "marked"}

Mark(m) == IF m THEN "marked" ELSE "plain"

Idle == [row |-> 0, mark |-> FALSE, next |-> "idle"]

(* createRequest requires an option and marks exactly one of them.         *)
CreateService ==
    /\ list = "options"
    /\ made \in 1 .. MaxRows
    /\ \E d \in 1 .. made :
          row = [n \in Rows |-> IF n <= made THEN Mark(n = d) ELSE "absent"]

ListInit ==
    /\ \/ CreateService
       \/ list \in {"photos", "booking"} /\ made = 0 /\ row = [n \in Rows |-> "absent"]
    /\ files = {}
    /\ pc = [r \in Edits |-> "idle"]
    /\ job = [r \in Edits |-> Idle]
    /\ disturbed = FALSE
    /\ unheard = {}

Begin(r, step, n, m, next) ==
    /\ pc[r] = "idle"
    /\ pc' = [pc EXCEPT ![r] = step]
    /\ job' = [job EXCEPT ![r] = [row |-> n, mark |-> m, next |-> next]]
    /\ disturbed' = (disturbed \/ \E s \in Edits : pc[s] # "idle")

Goto(r, step) == pc' = [pc EXCEPT ![r] = step] /\ UNCHANGED job

Finish(r) ==
    /\ pc' = [pc EXCEPT ![r] = "idle"]
    /\ job' = [job EXCEPT ![r] = Idle]

-----------------------------------------------------------------------------
(* A request arrives and does what precedes its first write.               *)

AddPriceOption(r, m) ==
    /\ list = "options"
    /\ Begin(r, IF m THEN "unset" ELSE "create", 0, m, "create")
    /\ UNCHANGED <<list, row, made, files, unheard>>

(* UpdatePriceOption reads the row.  Clearing the mark is refused; any     *)
(* other update writes the mark back as it was read.                       *)
UpdateRow(r, n) ==
    /\ list \in {"options", "photos"} /\ n \in Present
    /\ \/ Begin(r, "unset", n, TRUE, "write")
       \/ Begin(r, "write", n, row[n] = "marked", "idle")
    /\ UNCHANGED <<list, row, made, files, unheard>>

(* DeletePriceOption counts before it deletes; photos go unconditionally.  *)
(* The mark decides later whether another row is promoted.                 *)
DeleteRow(r, n) ==
    /\ n \in Present
    /\ Begin(r, IF list = "options" THEN "count" ELSE "delete", n, row[n] = "marked", "idle")
    /\ UNCHANGED <<list, row, made, files, unheard>>

(* The last option is refused, and so is one that a booking refers to;     *)
(* bookings are not part of this module, so any option may be in use.      *)
CountOptions(r) ==
    /\ pc[r] = "count" /\ list = "options"
    /\ \/ Cardinality(Present) > 1 /\ Goto(r, "delete")
       \/ Finish(r)
    /\ UNCHANGED <<list, row, made, files, disturbed, unheard>>

(* Upload of a point photo: the file is stored before the row exists.      *)
UploadPhoto(r, m) ==
    /\ list = "photos" /\ made < MaxRows
    /\ Begin(r, "count", made + 1, m, "create")
    /\ made' = made + 1
    /\ files' = files \cup {made + 1}
    /\ UNCHANGED <<list, row, unheard>>

(* The first photo becomes the cover whatever was asked. *)
CountPhotos(r) ==
    LET m == job[r].mark \/ Present = {}
    IN  /\ pc[r] = "count" /\ list = "photos"
        /\ pc' = [pc EXCEPT ![r] = IF m THEN "unset" ELSE "create"]
        /\ job' = [job EXCEPT ![r].mark = m]
        /\ UNCHANGED <<list, row, made, files, disturbed, unheard>>

(* Upload of a booking photo: the limit is checked before the file is stored. *)
UploadBookingPhoto(r) ==
    /\ list = "booking" /\ Cardinality(Present) < maxPhotosPerBooking
    /\ Begin(r, "put", 0, FALSE, "create")
    /\ UNCHANGED <<list, row, made, files, unheard>>

Put(r) ==
    /\ pc[r] = "put" /\ made < MaxRows
    /\ made' = made + 1
    /\ files' = files \cup {made + 1}
    /\ pc' = [pc EXCEPT ![r] = "create"]
    /\ job' = [job EXCEPT ![r].row = made + 1]
    /\ UNCHANGED <<list, row, disturbed, unheard>>

-----------------------------------------------------------------------------
(* Statements *)

(* UnsetDefaultPriceOptions, UnsetCover *)
Unset(r) ==
    /\ pc[r] = "unset"
    /\ row' = [n \in Rows |-> IF row[n] = "marked" THEN "plain" ELSE row[n]]
    /\ Goto(r, job[r].next)
    /\ UNCHANGED <<list, made, files, disturbed, unheard>>

(* idx_service_price_options_one_default refuses a second mark. *)
MutNoIndex(n, m) == FALSE

IndexRefuses(n, m) == list = "options" /\ m /\ Marked \ {n} # {}

(* The INSERT, of a photo under the id its file already has. *)
InsertedRow(r) == IF list = "options" THEN made + 1 ELSE job[r].row

Insert(r) ==
    LET n == InsertedRow(r)
    IN  /\ pc[r] = "create" /\ n \in Rows
        /\ ~IndexRefuses(n, job[r].mark)
        /\ row' = [row EXCEPT ![n] = Mark(job[r].mark)]
        /\ made' = IF list = "options" THEN made + 1 ELSE made
        /\ Finish(r)
        /\ UNCHANGED list

Create(r) == Insert(r) /\ UNCHANGED <<files, disturbed, unheard>>

(***************************************************************************)
(* The answer of the COMMIT is lost: the row is there, and Upload, which   *)
(* sees an error, tries to remove its file.  To the other statements a     *)
(* lost answer is the statement followed by Fail.                          *)
(***************************************************************************)
LoseAnswer(r) ==
    /\ Insert(r)
    /\ files' \in {files, files \ {InsertedRow(r)}}
    /\ disturbed' = TRUE
    /\ unheard' = unheard \cup {InsertedRow(r)}

(* UPDATE ... WHERE id: no row, no change.  A photo's PATCH with is_cover  *)
(* and sort_order writes the row a second time.                            *)
Write(r) ==
    LET n == job[r].row
    IN  /\ pc[r] = "write"
        /\ n \notin Present \/ ~IndexRefuses(n, job[r].mark)
        /\ row' = IF n \in Present THEN [row EXCEPT ![n] = Mark(job[r].mark)] ELSE row
        /\ \/ Finish(r)
           \/ /\ list = "photos" /\ job[r].next = "write"
              /\ job' = [job EXCEPT ![r].next = "idle"] /\ UNCHANGED pc
        /\ UNCHANGED <<list, made, files, disturbed, unheard>>

(* DELETE ... WHERE id; the file goes after the row. *)
Delete(r) ==
    /\ pc[r] = "delete"
    /\ row' = [row EXCEPT ![job[r].row] = "absent"]
    /\ Goto(r, IF list = "options" THEN "promote" ELSE "unlink")
    /\ UNCHANGED <<list, made, files, disturbed, unheard>>

(* storage.Delete, whose error is ignored. *)
Unlink(r) ==
    /\ pc[r] = "unlink"
    /\ files' \in {files, files \ {job[r].row}}
    /\ \/ list = "photos" /\ Goto(r, "promote")
       \/ list = "booking" /\ Finish(r)
    /\ UNCHANGED <<list, row, made, disturbed, unheard>>

(* If the deleted row had the mark when it was read, another row gets it.  *)
MutForgetPromotion(r) ==
    /\ pc[r] = "promote"
    /\ Finish(r)
    /\ UNCHANGED <<list, row, made, files, disturbed, unheard>>

Promote(r) ==
    /\ pc[r] = "promote"
    /\ \/ /\ job[r].mark
          /\ \E n \in Present \ {job[r].row} :
                /\ job' = [job EXCEPT ![r].row = n]
                /\ pc' = [pc EXCEPT ![r] = "write"]
       \/ (~job[r].mark \/ Present \subseteq {job[r].row}) /\ Finish(r)
    /\ UNCHANGED <<list, row, made, files, disturbed, unheard>>

(* A statement fails, refused by the index or not.  A failed upload tries  *)
(* to remove the file it stored.                                           *)
MutCleanUpAlways(r) ==
    /\ pc[r] # "idle"
    /\ files' \in {files, files \ {job[r].row}}
    /\ disturbed' = TRUE
    /\ Finish(r)
    /\ UNCHANGED <<list, row, made, unheard>>

Fail(r) ==
    /\ pc[r] # "idle"
    /\ \/ files' = files
       \/ job[r].next = "create" /\ files' = files \ {job[r].row}
    /\ disturbed' = TRUE
    /\ Finish(r)
    /\ UNCHANGED <<list, row, made, unheard>>

-----------------------------------------------------------------------------
Arrive(r) ==
    \/ \E m \in BOOLEAN : AddPriceOption(r, m) \/ UploadPhoto(r, m)
    \/ UploadBookingPhoto(r)
    \/ \E n \in Rows : UpdateRow(r, n) \/ DeleteRow(r, n)

Step(r) ==
    \/ CountOptions(r) \/ CountPhotos(r) \/ Put(r)
    \/ Unset(r) \/ Create(r) \/ Write(r)
    \/ Delete(r) \/ Unlink(r) \/ Promote(r)
    \/ LoseAnswer(r) \/ Fail(r)

ListNext == \E r \in Edits : Arrive(r) \/ Step(r)

ListSpec == ListInit /\ [][ListNext]_listVars

-----------------------------------------------------------------------------
(* Properties *)

Quiet == \A r \in Edits : pc[r] = "idle"

(* A service never has two default price options, although the mark is     *)
(* moved by two statements and written back from stale reads.              *)
AtMostOneDefault == list = "options" => \A m, n \in Marked : m = n

(* Requests that neither overlap nor fail leave a service with its options *)
(* and exactly one default, and a point that has photos with exactly one   *)
(* cover ("so a service never ends up without one", service/manager.go).   *)
OneMarkWhenUndisturbed ==
    Quiet /\ ~disturbed =>
        /\ list = "options" => Present # {}
        /\ list # "booking" /\ Present # {} => \E n \in Rows : Marked = {n}

(* A photo row has its file, whatever overlaps and whichever statement     *)
(* fails: Upload stores the file first and Delete removes it last.  Only   *)
(* the row of an INSERT whose answer was lost may be without: Upload takes *)
(* it for a failed one and removes the file (photo/manager.go's defer).    *)
RowsHaveFiles == list # "options" => Present \ unheard \subseteq files
=============================================================================
