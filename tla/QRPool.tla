------------------------------- MODULE QRPool -------------------------------
(***************************************************************************)
(* The pool of QR stickers: internal/qrcode.  Admins generate codes,       *)
(* assign them to washing points, unassign and disable them; the staff of  *)
(* a point ask for a replacement.                                          *)
(*                                                                         *)
(* Every handler reads whole rows and later saves them whole, in no        *)
(* transaction.  The one thing the schema refuses is two codes on a point. *)
(* Tokens, batch labels and times are data; of a time only whether it is   *)
(* set is kept.  Scans and their counts are in module Views.               *)
(***************************************************************************)

CONSTANTS
    Codes,    \* ids a code may get
    Points,   \* washing points, all existing
    Reqs,     \* requests at work at the same time
    None      \* no point, no code

VARIABLES
    code,       \* table qr_codes
    pc,         \* where each request stands
    job,        \* the rows it has read and will save
    placed,     \* point -> the code the last request about it meant it to have,
                \*   as long as requests have neither overlapped nor failed
    disturbed   \* two requests overlapped or a statement failed

vars == <<code, pc, job, placed, disturbed>>

CodeRow ==
    [status : {"free", "assigned", "disabled"}, point : Points \cup {None},
     disabled_at : BOOLEAN, replacement_requested_at : BOOLEAN]

NoCode == [status |-> "none", point |-> None,
           disabled_at |-> FALSE, replacement_requested_at |-> FALSE]

Nothing == [p \in Points |-> None]

Idle == [kind |-> "none", id |-> None, row |-> NoCode, point |-> None, old |-> None]

Old == [id : Codes, row : CodeRow]

ASSUME PoolAssumption == None \notin Codes \cup Points \cup Old

Job ==
    [kind : {"assign", "unassign", "disable", "replace"}, id : Codes,
     row : CodeRow \cup {NoCode}, point : Points \cup {None}, old : Old \cup {None}]

Exists(c) == code[c] # NoCode

Init ==
    /\ code = [c \in Codes |-> NoCode]
    /\ pc = [r \in Reqs |-> "idle"]
    /\ job = [r \in Reqs |-> Idle]
    /\ placed = Nothing
    /\ disturbed = FALSE

Busy == \E r \in Reqs : pc[r] # "idle"

(* Assign means p to have c; Assign, Unassign and Disable take c from the  *)
(* point that has it.                                                      *)
Intended(kind, c, p) ==
    [q \in Points |-> IF kind = "assign" /\ q = p THEN c
                      ELSE IF kind # "replace" /\ placed[q] = c THEN None ELSE placed[q]]

(* A request has read row c and is to save it as row; point is Assign's.   *)
Begin(r, step, kind, c, row, p) ==
    /\ pc[r] = "idle"
    /\ pc' = [pc EXCEPT ![r] = step]
    /\ job' = [job EXCEPT ![r] = [kind |-> kind, id |-> c, row |-> row, point |-> p, old |-> None]]
    /\ disturbed' = (disturbed \/ Busy)
    /\ placed' = IF disturbed' THEN Nothing ELSE Intended(kind, c, p)

Finish(r) ==
    /\ pc' = [pc EXCEPT ![r] = "idle"]
    /\ job' = [job EXCEPT ![r] = Idle]

-----------------------------------------------------------------------------
(* What the handlers make of a row *)

Freed(row) ==
    [row EXCEPT !.status = "free", !.point = None, !.replacement_requested_at = FALSE]

Assigned(row, p) ==
    [row EXCEPT !.status = "assigned", !.point = p, !.replacement_requested_at = FALSE]

Disabled(row) ==
    [row EXCEPT !.status = "disabled", !.point = None, !.disabled_at = TRUE]

(* UNIQUE (washing_point_id) *)
MutNoIndex(c, row) == FALSE

IndexRefuses(c, row) ==
    row.point # None /\ \E o \in Codes \ {c} : code[o].point = row.point

(* FindByWashingPointID *)
CodesAt(p) == {c \in Codes : code[c].point = p}

-----------------------------------------------------------------------------
(* Manager.GenerateBatch *)
GenerateBatch(batch) ==
    /\ batch # {} /\ \A c \in batch : ~Exists(c)
    /\ code' = [c \in Codes |-> IF c \in batch THEN [NoCode EXCEPT !.status = "free"] ELSE code[c]]
    /\ UNCHANGED <<pc, job, placed, disturbed>>

MutAssignDisabled(r, c, p) ==
    /\ Exists(c)
    /\ Begin(r, "existing", "assign", c, Assigned(code[c], p), p)
    /\ UNCHANGED code

(* Manager.Assign reads the code and refuses a disabled one ... *)
Assign(r, c, p) ==
    /\ Exists(c) /\ code[c].status # "disabled"
    /\ Begin(r, "existing", "assign", c, Assigned(code[c], p), p)
    /\ UNCHANGED code

(* ... looks up what the point has ... *)
FindExisting(r) ==
    /\ pc[r] = "existing"
    /\ \/ /\ CodesAt(job[r].point) \subseteq {job[r].id}
          /\ pc' = [pc EXCEPT ![r] = "save"]
          /\ UNCHANGED job
       \/ \E o \in CodesAt(job[r].point) \ {job[r].id} :
             /\ pc' = [pc EXCEPT ![r] = "release"]
             /\ job' = [job EXCEPT ![r].old = [id |-> o, row |-> Freed(code[o])]]
    /\ UNCHANGED <<code, placed, disturbed>>

(* ... and frees it, before it saves the code itself. *)
MutSkipRelease(r) ==
    /\ pc[r] = "release"
    /\ pc' = [pc EXCEPT ![r] = "save"]
    /\ UNCHANGED <<code, job, placed, disturbed>>

ReleaseExisting(r) ==
    /\ pc[r] = "release"
    /\ code' = [code EXCEPT ![job[r].old.id] = job[r].old.row]
    /\ pc' = [pc EXCEPT ![r] = "save"]
    /\ job' = [job EXCEPT ![r].old = None]
    /\ UNCHANGED <<placed, disturbed>>

Unassign(r, c) ==
    /\ Exists(c)
    /\ Begin(r, "save", "unassign", c, Freed(code[c]), None)
    /\ UNCHANGED code

Disable(r, c) ==
    /\ Exists(c)
    /\ Begin(r, "save", "disable", c, Disabled(code[c]), None)
    /\ UNCHANGED code

(* The handler finds the point's code, RequestReplacement reads it again   *)
(* and refuses one that is not assigned.                                   *)
FindMine(r, p) ==
    /\ \E c \in CodesAt(p) : Begin(r, "reread", "replace", c, NoCode, None)
    /\ UNCHANGED code

RequestReplacement(r) ==
    LET row == code[job[r].id]
    IN  /\ pc[r] = "reread"
        /\ \/ /\ row.status = "assigned"
              /\ job' = [job EXCEPT ![r].row = [row EXCEPT !.replacement_requested_at = TRUE]]
              /\ pc' = [pc EXCEPT ![r] = "save"]
           \/ row.status # "assigned" /\ Finish(r)
        /\ UNCHANGED <<code, placed, disturbed>>

(* Repository.Update: Save writes every column. *)
Save(r) ==
    LET j == job[r]
    IN  /\ pc[r] = "save" /\ ~IndexRefuses(j.id, j.row)
        /\ code' = [code EXCEPT ![j.id] = j.row]
        /\ Finish(r)
        /\ UNCHANGED <<placed, disturbed>>

SaveRefused(r) ==
    /\ pc[r] = "save" /\ IndexRefuses(job[r].id, job[r].row)
    /\ Finish(r)
    /\ UNCHANGED <<code, placed, disturbed>>

(* A statement fails: the request ends with what it has done so far. *)
Fail(r) ==
    /\ pc[r] # "idle"
    /\ Finish(r)
    /\ disturbed' = TRUE
    /\ placed' = Nothing
    /\ UNCHANGED code

Arrive(r) ==
    \/ \E c \in Codes : \/ \E p \in Points : Assign(r, c, p)
                        \/ Unassign(r, c)
                        \/ Disable(r, c)
    \/ \E p \in Points : FindMine(r, p)

Step(r) ==
    \/ FindExisting(r) \/ ReleaseExisting(r)
    \/ RequestReplacement(r)
    \/ Save(r) \/ SaveRefused(r)
    \/ Fail(r)

Next ==
    \/ \E batch \in SUBSET Codes : GenerateBatch(batch)
    \/ \E r \in Reqs : Arrive(r) \/ Step(r)

Spec == Init /\ [][Next]_vars

-----------------------------------------------------------------------------
(* Properties *)

(* Every variable stays within its type; a request that has a row to save  *)
(* names it.                                                               *)
TypeOK ==
    /\ code \in [Codes -> CodeRow \cup {NoCode}]
    /\ pc \in [Reqs -> {"idle", "existing", "release", "reread", "save"}]
    /\ job \in [Reqs -> Job \cup {Idle}]
    /\ \A r \in Reqs : pc[r] = "idle" <=> job[r] = Idle
    /\ \A r \in Reqs : pc[r] \in {"existing", "release"} => job[r].point \in Points
    /\ \A r \in Reqs : pc[r] = "release" <=> job[r].old # None
    /\ placed \in [Points -> Codes \cup {None}]
    /\ disturbed \in BOOLEAN

Coherent(row) ==
    /\ row.point # None <=> row.status = "assigned"
    /\ row.replacement_requested_at => row.status \in {"assigned", "disabled"}

(* "status plus the nullable washing_point_id is the whole assignment      *)
(* state machine" (DATA_MODEL.md): through stale saves, failures and       *)
(* racing handlers a code has a point exactly when it is assigned, a       *)
(* replacement is asked for no free code, and a point has one code at most.*)
PoolCoherent ==
    /\ \A c \in Codes : Coherent(code[c])
    /\ \A p \in Points : \A c, d \in CodesAt(p) : c = d

(* As long as requests neither overlap nor fail, every one of them takes   *)
(* full effect: between requests a point has exactly the code the last     *)
(* Assign gave it, or none if that code was moved, unassigned or disabled  *)
(* since; giving a point a second code frees the first and is never        *)
(* refused by the index (Manager.Assign, Unassign, Disable).               *)
PointHasItsCode ==
    ~disturbed /\ ~Busy => \A p \in Points : CodesAt(p) = {placed[p]} \ {None}

(* As long as requests neither overlap nor fail, a disabled code leaves    *)
(* that state only through an Unassign of it: no Assign, replacement or    *)
(* second Disable revives it ("it does not return to the free pool",       *)
(* Manager.Disable).                                                       *)
DisabledComesBackOnlyByUnassign ==
    [][\A c \in Codes :
          code[c].status = "disabled" /\ code'[c].status # "disabled" =>
              disturbed \/ \E r \in Reqs : job[r].kind = "unassign" /\ job[r].id = c]_vars
=============================================================================
