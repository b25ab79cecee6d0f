----------------------------- MODULE QRPoolProof -----------------------------
(***************************************************************************)
(* The pool of codes stays coherent whatever the handlers save and however *)
(* they overlap, for any set of codes, points and requests.                *)
(*                                                                         *)
(* A save writes back a row read earlier, so what must be invariant is not *)
(* only the table but every row a request holds: it is coherent, and the   *)
(* row of a code to be released has no point.                              *)
(***************************************************************************)
EXTENDS QRPool, TLAPS

RowsHeld ==
    \A r \in Reqs :
        /\ Coherent(job[r].row)
        /\ pc[r] = "release" => /\ Coherent(job[r].old.row)
                                /\ job[r].old.row.point = None

Inv == TypeOK /\ PoolCoherent /\ RowsHeld

(* What the handlers make of a coherent row is coherent. *)
LEMMA RowsMade ==
    ASSUME NEW row \in CodeRow
    PROVE  /\ Freed(row) \in CodeRow /\ Coherent(Freed(row)) /\ Freed(row).point = None
           /\ \A p \in Points : Assigned(row, p) \in CodeRow /\ Coherent(Assigned(row, p))
           /\ Disabled(row) \in CodeRow /\ Coherent(Disabled(row))
  BY PoolAssumption DEF CodeRow, Freed, Assigned, Disabled, Coherent

LEMMA NoCodeCoherent == Coherent(NoCode) /\ NoCode.point = None /\ NoCode.status = "none"
  BY DEF NoCode, Coherent

LEMMA IdleCoherent == Coherent(Idle.row) /\ Idle.old = None
  BY NoCodeCoherent DEF Idle

(* A request that begins with a coherent row keeps the invariant. *)
LEMMA BeginKeeps ==
    ASSUME Inv, NEW r \in Reqs, NEW c \in Codes, NEW row \in CodeRow \cup {NoCode},
           Coherent(row), NEW p \in Points \cup {None},
           NEW step \in {"existing", "reread", "save"}, step = "existing" => p \in Points,
           NEW kind \in {"assign", "unassign", "disable", "replace"},
           Begin(r, step, kind, c, row, p), UNCHANGED code
    PROVE  Inv'
<1> DEFINE j == [kind |-> kind, id |-> c, row |-> row, point |-> p, old |-> None]
<1>1. j \in Job
  BY DEF Job
<1>2. j # Idle
  BY DEF Idle
<1>3. job' = [job EXCEPT ![r] = j] /\ pc' = [pc EXCEPT ![r] = step]
  BY DEF Begin
<1>4. placed' \in [Points -> Codes \cup {None}] /\ disturbed' \in BOOLEAN
  <2>1. Nothing \in [Points -> Codes \cup {None}]
    BY DEF Nothing
  <2>2. Intended(kind, c, p) \in [Points -> Codes \cup {None}]
    BY DEF Intended, Inv, TypeOK
  <2>3. disturbed' \in BOOLEAN
    BY DEF Begin, Inv, TypeOK, Busy
  <2> QED
    BY <2>1, <2>2, <2>3 DEF Begin
<1> HIDE DEF j
<1>5. j.old = None /\ j.point = p /\ j.row = row
  BY DEF j
<1>6. TypeOK'
  BY <1>1, <1>2, <1>3, <1>4, <1>5 DEF Inv, TypeOK
<1>7. PoolCoherent'
  BY DEF Inv, PoolCoherent, CodesAt
<1>8. RowsHeld'
  BY <1>3, <1>5 DEF Inv, TypeOK, RowsHeld
<1> QED
  BY <1>6, <1>7, <1>8 DEF Inv

(* Ending a request keeps what is known of the others. *)
LEMMA FinishKeeps ==
    ASSUME Inv, NEW r \in Reqs, Finish(r), UNCHANGED <<code, placed>>, disturbed' \in BOOLEAN
    PROVE  Inv'
<1>1. TypeOK'
  BY IdleCoherent DEF Finish, Inv, TypeOK
<1>2. PoolCoherent'
  BY DEF Inv, PoolCoherent, CodesAt
<1>3. RowsHeld'
  BY IdleCoherent DEF Finish, Inv, TypeOK, RowsHeld
<1> QED
  BY <1>1, <1>2, <1>3 DEF Inv

(* Saving a coherent row keeps the pool coherent unless the unique index   *)
(* of the points refuses it.                                               *)
LEMMA SaveKeepsPool ==
    ASSUME Inv, NEW c \in Codes, NEW row \in CodeRow \cup {NoCode}, Coherent(row),
           ~IndexRefuses(c, row), code' = [code EXCEPT ![c] = row]
    PROVE  PoolCoherent' /\ code' \in [Codes -> CodeRow \cup {NoCode}]
<1>1. code' \in [Codes -> CodeRow \cup {NoCode}]
  BY DEF Inv, TypeOK
<1>2. \A d \in Codes : Coherent(code'[d])
  BY DEF Inv, TypeOK, PoolCoherent
<1>3. ASSUME NEW p \in Points, NEW d \in CodesAt(p)', NEW e \in CodesAt(p)' PROVE d = e
  <2>1. d \in Codes /\ e \in Codes /\ code'[d].point = p /\ code'[e].point = p
    BY DEF CodesAt
  <2>2. CASE d = c /\ e # c
    BY <2>1, <2>2, PoolAssumption DEF IndexRefuses, Inv, TypeOK
  <2>3. CASE e = c /\ d # c
    BY <2>1, <2>3, PoolAssumption DEF IndexRefuses, Inv, TypeOK
  <2>4. CASE d # c /\ e # c
    BY <2>1, <2>4 DEF Inv, TypeOK, PoolCoherent, CodesAt
  <2> QED
    BY <2>2, <2>3, <2>4
<1> QED
  BY <1>1, <1>2, <1>3 DEF PoolCoherent

LEMMA ExistingRow ==
    ASSUME Inv, NEW c \in Codes, Exists(c) PROVE code[c] \in CodeRow
  BY DEF Inv, TypeOK, Exists

LEMMA PointsRow ==
    ASSUME Inv, NEW p \in Points, NEW c \in CodesAt(p) PROVE c \in Codes /\ code[c] \in CodeRow
  BY NoCodeCoherent, PoolAssumption DEF Inv, TypeOK, CodesAt

LEMMA InitInv == Init => Inv
<1> SUFFICES ASSUME Init PROVE Inv
  OBVIOUS
<1>1. TypeOK
  BY IdleCoherent DEF Init, TypeOK, Nothing
<1>2. PoolCoherent
  BY NoCodeCoherent, PoolAssumption DEF Init, PoolCoherent, CodesAt
<1>3. RowsHeld
  BY IdleCoherent DEF Init, RowsHeld
<1> QED
  BY <1>1, <1>2, <1>3 DEF Inv

LEMMA GenerateKeeps ==
    ASSUME Inv, NEW batch \in SUBSET Codes, GenerateBatch(batch) PROVE Inv'
<1> DEFINE fresh == [NoCode EXCEPT !.status = "free"]
<1>1. fresh \in CodeRow /\ Coherent(fresh) /\ fresh.point = None
  BY DEF NoCode, CodeRow, Coherent
<1> HIDE DEF fresh
<1>2. code' = [c \in Codes |-> IF c \in batch THEN fresh ELSE code[c]]
  BY DEF GenerateBatch, fresh
<1>3. TypeOK'
  BY <1>1, <1>2 DEF GenerateBatch, Inv, TypeOK
<1>4. PoolCoherent'
  BY <1>1, <1>2, PoolAssumption DEF Inv, PoolCoherent, CodesAt
<1>5. RowsHeld'
  BY DEF GenerateBatch, Inv, RowsHeld
<1> QED
  BY <1>3, <1>4, <1>5 DEF Inv

LEMMA ArriveKeeps ==
    ASSUME Inv, NEW r \in Reqs, Arrive(r) PROVE Inv'
<1>1. ASSUME NEW c \in Codes, NEW p \in Points, Assign(r, c, p) PROVE Inv'
  <2>1. code[c] \in CodeRow
    BY <1>1, ExistingRow DEF Assign
  <2>2. Assigned(code[c], p) \in CodeRow /\ Coherent(Assigned(code[c], p))
    BY <2>1, RowsMade
  <2> QED
    BY <1>1, <2>2, BeginKeeps DEF Assign
<1>2. ASSUME NEW c \in Codes, Unassign(r, c) \/ Disable(r, c) PROVE Inv'
  <2>2. code[c] \in CodeRow
    BY <1>2, ExistingRow DEF Unassign, Disable
  <2>3. /\ Freed(code[c]) \in CodeRow /\ Coherent(Freed(code[c]))
        /\ Disabled(code[c]) \in CodeRow /\ Coherent(Disabled(code[c]))
    BY <2>2, RowsMade
  <2>4. CASE Unassign(r, c)
    BY <2>4, <2>3, BeginKeeps DEF Unassign
  <2>5. CASE Disable(r, c)
    BY <2>5, <2>3, BeginKeeps DEF Disable
  <2> QED
    BY <1>2, <2>4, <2>5
<1>3. ASSUME NEW p \in Points, FindMine(r, p) PROVE Inv'
  <2>1. PICK c \in CodesAt(p) : Begin(r, "reread", "replace", c, NoCode, None)
    BY <1>3 DEF FindMine
  <2>2. c \in Codes /\ UNCHANGED code
    BY <1>3 DEF FindMine, CodesAt
  <2> QED
    BY <2>1, <2>2, BeginKeeps, NoCodeCoherent
<1> QED
  BY <1>1, <1>2, <1>3 DEF Arrive

(* A request that holds coherent rows goes on to its next step. *)
LEMMA GoesOn ==
    ASSUME Inv, NEW r \in Reqs, NEW j \in Job, NEW step \in {"release", "save"},
           job' = [job EXCEPT ![r] = j], pc' = [pc EXCEPT ![r] = step],
           UNCHANGED <<placed, disturbed>>,
           Coherent(j.row), step = "release" <=> j.old # None, step = "release" => j.point \in Points,
           step = "release" => Coherent(j.old.row) /\ j.old.row.point = None,
           PoolCoherent', code' \in [Codes -> CodeRow \cup {NoCode}]
    PROVE  Inv'
<1>1. j # Idle
  BY DEF Job, Idle
<1>2. TypeOK'
  BY <1>1 DEF Inv, TypeOK
<1>3. RowsHeld'
  BY DEF Inv, TypeOK, RowsHeld
<1> QED
  BY <1>2, <1>3 DEF Inv

LEMMA SameCodes ==
    ASSUME Inv, UNCHANGED code PROVE PoolCoherent' /\ code' \in [Codes -> CodeRow \cup {NoCode}]
  BY DEF Inv, TypeOK, PoolCoherent, CodesAt

LEMMA StepKeeps ==
    ASSUME Inv, NEW r \in Reqs, Step(r) PROVE Inv'
<1> DEFINE j == job[r]
<1>0. pc[r] # "idle" => /\ j.id \in Codes /\ j.row \in CodeRow \cup {NoCode}
                        /\ j.old \in Old \cup {None} /\ Coherent(j.row) /\ j \in Job
  BY DEF Inv, TypeOK, RowsHeld, Job
<1>1. CASE FindExisting(r)
  <2>0. pc[r] = "existing" /\ j.point \in Points /\ j.old = None
    BY <1>1 DEF FindExisting, Inv, TypeOK
  <2>1. CASE UNCHANGED job /\ pc' = [pc EXCEPT ![r] = "save"]
    <3>1. job' = [job EXCEPT ![r] = j]
      BY <2>1 DEF Inv, TypeOK
    <3> QED
      BY <1>0, <1>1, <2>0, <2>1, <3>1, SameCodes, GoesOn DEF FindExisting
  <2>2. ASSUME NEW o \in CodesAt(j.point) \ {j.id}, pc' = [pc EXCEPT ![r] = "release"],
               job' = [job EXCEPT ![r].old = [id |-> o, row |-> Freed(code[o])]]
        PROVE  Inv'
    <3> DEFINE old == [id |-> o, row |-> Freed(code[o])]
               k == [j EXCEPT !.old = old]
    <3>1. /\ o \in Codes /\ Freed(code[o]) \in CodeRow /\ Coherent(Freed(code[o]))
          /\ Freed(code[o]).point = None
      BY <2>0, PointsRow, RowsMade
    <3>2. old \in Old /\ old # None /\ Coherent(old.row) /\ old.row.point = None
      BY <3>1, PoolAssumption DEF Old
    <3> HIDE DEF old
    <3>3. k \in Job /\ k.row = j.row /\ k.old = old /\ k.point = j.point
      BY <1>0, <2>0, <3>2 DEF Job
    <3>4. job' = [job EXCEPT ![r] = k]
      BY <2>2 DEF old
    <3> HIDE DEF k
    <3>5. PoolCoherent' /\ code' \in [Codes -> CodeRow \cup {NoCode}]
      BY <1>1, SameCodes DEF FindExisting
    <3> QED
      BY <1>0, <1>1, <2>0, <2>2, <3>2, <3>3, <3>4, <3>5, GoesOn DEF FindExisting
  <2> QED
    BY <1>1, <2>1, <2>2 DEF FindExisting
<1>2. CASE ReleaseExisting(r)
  <2> DEFINE k == [j EXCEPT !.old = None]
  <2>1. /\ pc[r] = "release" /\ j.old \in Old /\ Coherent(j.old.row)
        /\ j.old.row.point = None /\ j.old.id \in Codes /\ j.old.row \in CodeRow
    BY <1>0, <1>2 DEF ReleaseExisting, Inv, TypeOK, RowsHeld, Old
  <2>2. ~IndexRefuses(j.old.id, j.old.row)
    BY <2>1 DEF IndexRefuses
  <2>3. PoolCoherent' /\ code' \in [Codes -> CodeRow \cup {NoCode}]
    BY <1>2, <2>1, <2>2, SaveKeepsPool DEF ReleaseExisting
  <2>4. k \in Job /\ k.row = j.row /\ k.old = None
    BY <1>0, <2>1 DEF Job
  <2>5. job' = [job EXCEPT ![r] = k]
    BY <1>2 DEF ReleaseExisting
  <2> HIDE DEF k
  <2> QED
    BY <1>0, <1>2, <2>1, <2>3, <2>4, <2>5, GoesOn DEF ReleaseExisting
<1>3. CASE RequestReplacement(r)
  <2>1. CASE Finish(r)
    BY <1>3, <2>1, FinishKeeps DEF RequestReplacement, Inv, TypeOK
  <2> DEFINE row == [code[j.id] EXCEPT !.replacement_requested_at = TRUE]
             k == [j EXCEPT !.row = row]
  <2>2. CASE /\ code[j.id].status = "assigned"
             /\ job' = [job EXCEPT ![r].row = row]
             /\ pc' = [pc EXCEPT ![r] = "save"]
    <3>1. pc[r] = "reread" /\ j.old = None /\ code[j.id] \in CodeRow /\ Coherent(code[j.id])
      BY <1>0, <1>3, <2>2, NoCodeCoherent DEF RequestReplacement, Inv, TypeOK, PoolCoherent
    <3>2. row \in CodeRow /\ Coherent(row)
      BY <2>2, <3>1 DEF CodeRow, Coherent
    <3> HIDE DEF row
    <3>3. k \in Job /\ k.row = row /\ k.old = None
      BY <1>0, <3>1, <3>2 DEF Job
    <3>4. job' = [job EXCEPT ![r] = k]
      BY <2>2
    <3> HIDE DEF k
    <3>5. PoolCoherent' /\ code' \in [Codes -> CodeRow \cup {NoCode}]
      BY <1>3, SameCodes DEF RequestReplacement
    <3> QED
      BY <1>3, <2>2, <3>2, <3>3, <3>4, <3>5, GoesOn DEF RequestReplacement
  <2> QED
    BY <1>3, <2>1, <2>2 DEF RequestReplacement
<1>4. CASE Save(r)
  <2>1. pc[r] = "save" /\ ~IndexRefuses(j.id, j.row) /\ code' = [code EXCEPT ![j.id] = j.row]
    BY <1>4 DEF Save
  <2>2. PoolCoherent' /\ code' \in [Codes -> CodeRow \cup {NoCode}]
    BY <1>0, <2>1, SaveKeepsPool
  <2>3. TypeOK'
    BY <1>4, <2>2, IdleCoherent DEF Save, Finish, Inv, TypeOK
  <2>4. RowsHeld'
    BY <1>4, IdleCoherent DEF Save, Finish, Inv, TypeOK, RowsHeld
  <2> QED
    BY <2>2, <2>3, <2>4 DEF Inv
<1>5. CASE SaveRefused(r)
  BY <1>5, FinishKeeps DEF SaveRefused, Inv, TypeOK
<1>6. CASE Fail(r)
  <2>1. TypeOK'
    BY <1>6, IdleCoherent DEF Fail, Finish, Inv, TypeOK, Nothing
  <2>2. RowsHeld'
    BY <1>6, IdleCoherent DEF Fail, Finish, Inv, TypeOK, RowsHeld
  <2> QED
    BY <1>6, <2>1, <2>2, SameCodes DEF Fail, Inv
<1> QED
  BY <1>1, <1>2, <1>3, <1>4, <1>5, <1>6 DEF Step

LEMMA NextKeeps == Inv /\ [Next]_vars => Inv'
<1> SUFFICES ASSUME Inv, [Next]_vars PROVE Inv'
  OBVIOUS
<1>1. CASE UNCHANGED vars
  BY <1>1 DEF vars, Inv, TypeOK, PoolCoherent, CodesAt, RowsHeld
<1>2. CASE Next
  BY <1>2, GenerateKeeps, ArriveKeeps, StepKeeps DEF Next
<1> QED
  BY <1>1, <1>2

(* The table and every row a handler holds across its statements stay well *)
(* formed in every behaviour of the QR code handlers.                      *)
THEOREM Invariance == Spec => []Inv
<1> QED
  BY InitInv, NextKeeps, PTL DEF Spec

(* However requests to assign, unassign, disable and replace codes overlap *)
(* and wherever they fail, a code has a point exactly when it is assigned, *)
(* no free code has a replacement pending, and no point has two codes      *)
(* (Manager.Assign, Unassign, Disable, RequestReplacement; the unique      *)
(* index of migration 000020).                                             *)
THEOREM PoolStaysCoherent == Spec => []PoolCoherent
<1>1. Inv => PoolCoherent
  BY DEF Inv
<1> QED
  BY <1>1, Invariance, PTL

-----------------------------------------------------------------------------
(* As long as requests neither overlap nor fail, the table is what the     *)
(* requests so far meant it to be, but for what the one at work has still  *)
(* to save.                                                                *)

PlacedAt(c, p) == code[c].point = p <=> placed[p] = c

(* The code the request is about exists, and the codes and points it does  *)
(* not touch are as they were meant to be.                                 *)
RestInPlace(r) ==
    /\ Exists(job[r].id)
    /\ \A d \in Codes \ {job[r].id}, q \in Points \ {job[r].point} : PlacedAt(d, q)

(* An Assign means the point to have the code and no other point to; its   *)
(* own save comes when no other code is at the point.                      *)
AssignUnderway(r) ==
    LET j == job[r]
    IN  /\ pc[r] # "reread" /\ j.point \in Points /\ placed[j.point] = j.id
        /\ \A q \in Points \ {j.point} : placed[q] # j.id
        /\ j.row.point = j.point /\ code[j.id].status # "disabled"
        /\ pc[r] = "release" =>
              j.old.id \in Codes \ {j.id} /\ code[j.old.id].point = j.point
        /\ pc[r] = "save" => \A d \in Codes \ {j.id} : code[d].point # j.point

RemovalUnderway(r) ==
    LET j == job[r]
    IN  /\ pc[r] = "save" /\ j.point = None /\ j.row.point = None
        /\ \A q \in Points : placed[q] # j.id
        /\ j.kind = "disable" => j.row.status = "disabled"

ReplacementUnderway(r) ==
    LET j == job[r]
    IN  /\ pc[r] \in {"reread", "save"} /\ j.point = None
        /\ \A q \in Points : PlacedAt(j.id, q)
        /\ pc[r] = "save" =>
              j.row.point = code[j.id].point /\ j.row.status = code[j.id].status

Underway(r) ==
    /\ RestInPlace(r)
    /\ job[r].kind = "assign" => AssignUnderway(r)
    /\ job[r].kind \in {"unassign", "disable"} => RemovalUnderway(r)
    /\ job[r].kind = "replace" => ReplacementUnderway(r)

UndisturbedOK ==
    ~disturbed =>
        /\ \A r, q \in Reqs : pc[r] # "idle" /\ pc[q] # "idle" => r = q
        /\ \A r \in Reqs : pc[r] # "idle" => Underway(r)
        /\ ~Busy => \A c \in Codes, p \in Points : PlacedAt(c, p)

(* What the next request finds: nobody at work and everything in place;    *)
(* what it leaves is the intention it announced and the row it read.       *)
LEMMA BeginUndisturbed ==
    ASSUME Inv, UndisturbedOK, ~disturbed', NEW r \in Reqs,
           NEW step \in {"existing", "reread", "save"},
           NEW kind \in {"assign", "unassign", "disable", "replace"}, NEW c \in Codes, NEW row, NEW p \in Points \cup {None},
           Begin(r, step, kind, c, row, p)
    PROVE  /\ \A d \in Codes, q \in Points : PlacedAt(d, q)
           /\ \A q \in Points : placed'[q] =
                 IF kind = "assign" /\ q = p THEN c
                 ELSE IF kind # "replace" /\ placed[q] = c THEN None ELSE placed[q]
           /\ pc'[r] = step
           /\ job'[r] = [kind |-> kind, id |-> c, row |-> row, point |-> p, old |-> None]
<1>1. ~disturbed /\ ~Busy
  BY DEF Begin
<1>2. placed' = Intended(kind, c, p)
  BY DEF Begin
<1>3. \A d \in Codes, q \in Points : PlacedAt(d, q)
  BY <1>1 DEF UndisturbedOK
<1>4. ASSUME NEW q \in Points
      PROVE  placed'[q] = IF kind = "assign" /\ q = p THEN c
                          ELSE IF kind # "replace" /\ placed[q] = c THEN None ELSE placed[q]
  BY <1>2 DEF Intended
<1>5. /\ pc'[r] = step
      /\ job'[r] = [kind |-> kind, id |-> c, row |-> row, point |-> p, old |-> None]
  BY DEF Begin, Inv, TypeOK
<1> QED
  BY <1>3, <1>4, <1>5

LEMMA ArriveUndisturbed ==
    ASSUME Inv, UndisturbedOK, ~disturbed', NEW r \in Reqs, Arrive(r)
    PROVE  Underway(r)'
<1>1. ASSUME NEW c \in Codes, NEW p \in Points, Assign(r, c, p) PROVE Underway(r)'
  <2> DEFINE row == Assigned(code[c], p)
  <2>1. Begin(r, "existing", "assign", c, row, p) /\ code' = code
    BY <1>1 DEF Assign
  <2>2. Exists(c) /\ code[c].status # "disabled" /\ row.point = p
    BY <1>1, ExistingRow DEF Assign, Assigned, CodeRow
  <2> HIDE DEF row
  <2>3. /\ \A d \in Codes, q \in Points : PlacedAt(d, q)
        /\ \A q \in Points : placed'[q] =
              IF q = p THEN c ELSE IF placed[q] = c THEN None ELSE placed[q]
        /\ pc'[r] = "existing"
        /\ job'[r] = [kind |-> "assign", id |-> c, row |-> row, point |-> p, old |-> None]
    BY <2>1, BeginUndisturbed
  <2>4. \A d \in Codes \ {c}, q \in Points \ {p} : PlacedAt(d, q)'
    BY <2>1, <2>3, PoolAssumption DEF PlacedAt
  <2>5. placed'[p] = c /\ \A q \in Points \ {p} : placed'[q] # c
    BY <2>3, PoolAssumption
  <2> QED
    BY <2>1, <2>2, <2>3, <2>4, <2>5
    DEF Underway, RestInPlace, AssignUnderway, Exists
<1>2. ASSUME NEW c \in Codes, Unassign(r, c) \/ Disable(r, c) PROVE Underway(r)'
  <2>1. PICK kind \in {"unassign", "disable"}, row \in CodeRow :
           /\ Begin(r, "save", kind, c, row, None) /\ code' = code /\ Exists(c)
           /\ row.point = None
           /\ kind = "disable" => row.status = "disabled"
    <3>0. code[c] \in CodeRow
      BY <1>2, ExistingRow DEF Unassign, Disable
    <3>1. Freed(code[c]) \in CodeRow /\ Freed(code[c]).point = None
      BY <3>0, RowsMade
    <3>2. /\ Disabled(code[c]) \in CodeRow /\ Disabled(code[c]).point = None
          /\ Disabled(code[c]).status = "disabled"
      BY <3>0, RowsMade DEF Disabled, CodeRow
    <3> QED
      BY <1>2, <3>1, <3>2 DEF Unassign, Disable
  <2>2. /\ \A d \in Codes, q \in Points : PlacedAt(d, q)
        /\ \A q \in Points : placed'[q] = IF placed[q] = c THEN None ELSE placed[q]
        /\ pc'[r] = "save"
        /\ job'[r] = [kind |-> kind, id |-> c, row |-> row, point |-> None, old |-> None]
    BY <2>1, BeginUndisturbed
  <2>3. \A d \in Codes \ {c}, q \in Points : PlacedAt(d, q)'
    BY <2>1, <2>2, PoolAssumption DEF PlacedAt
  <2>4. \A q \in Points : placed'[q] # c
    BY <2>2, PoolAssumption
  <2> QED
    BY <2>1, <2>2, <2>3, <2>4 DEF Underway, RestInPlace, RemovalUnderway, Exists
<1>3. ASSUME NEW p \in Points, FindMine(r, p) PROVE Underway(r)'
  <2>1. PICK c \in CodesAt(p) : Begin(r, "reread", "replace", c, NoCode, None)
    BY <1>3 DEF FindMine
  <2>2. c \in Codes /\ code' = code /\ Exists(c)
    BY <1>3, PoolAssumption, NoCodeCoherent DEF FindMine, CodesAt, Exists
  <2>3. /\ \A d \in Codes, q \in Points : PlacedAt(d, q)
        /\ \A q \in Points : placed'[q] = placed[q]
        /\ pc'[r] = "reread"
        /\ job'[r] = [kind |-> "replace", id |-> c, row |-> NoCode, point |-> None, old |-> None]
    BY <2>1, <2>2, BeginUndisturbed
  <2> QED
    BY <2>2, <2>3 DEF Underway, RestInPlace, ReplacementUnderway, Exists, PlacedAt
<1> QED
  BY <1>1, <1>2, <1>3 DEF Arrive

(* The last save of a request puts the table in order.  Nothing is refused *)
(* on the way.                                                             *)
LEMMA SaveUndisturbed ==
    ASSUME Inv, NEW r \in Reqs, pc[r] = "save", Underway(r)
    PROVE  /\ ~IndexRefuses(job[r].id, job[r].row)
           /\ Save(r) => \A c \in Codes, p \in Points : PlacedAt(c, p)'
<1> DEFINE j == job[r]
<1>0. /\ j.id \in Codes /\ code \in [Codes -> CodeRow \cup {NoCode}]
      /\ j.kind \in {"assign", "unassign", "disable", "replace"}
  BY DEF Inv, TypeOK, Job
<1>1. CASE j.kind = "assign"
  <2>1. /\ j.point \in Points /\ placed[j.point] = j.id /\ j.row.point = j.point
        /\ \A q \in Points \ {j.point} : placed[q] # j.id
        /\ \A d \in Codes \ {j.id} : code[d].point # j.point
        /\ \A d \in Codes \ {j.id}, q \in Points \ {j.point} : PlacedAt(d, q)
    BY <1>1 DEF Underway, RestInPlace, AssignUnderway
  <2> QED
    BY <1>0, <2>1, PoolAssumption DEF IndexRefuses, Save, PlacedAt
<1>2. CASE j.kind \in {"unassign", "disable"}
  <2>1. /\ j.point = None /\ j.row.point = None /\ \A q \in Points : placed[q] # j.id
        /\ \A d \in Codes \ {j.id}, q \in Points \ {j.point} : PlacedAt(d, q)
    BY <1>2 DEF Underway, RestInPlace, RemovalUnderway
  <2> QED
    BY <1>0, <2>1, PoolAssumption DEF IndexRefuses, Save, PlacedAt
<1>3. CASE j.kind = "replace"
  <2>1. /\ j.point = None /\ j.row.point = code[j.id].point
        /\ \A q \in Points : PlacedAt(j.id, q)
        /\ \A d \in Codes \ {j.id}, q \in Points \ {j.point} : PlacedAt(d, q)
    BY <1>3 DEF Underway, RestInPlace, ReplacementUnderway
  <2>2. code[j.id].point \in Points \cup {None}
    BY <1>0, NoCodeCoherent DEF CodeRow
  <2>3. ~IndexRefuses(j.id, j.row)
    BY <1>0, <2>1, <2>2 DEF IndexRefuses, Inv, PoolCoherent, CodesAt
  <2>4. ASSUME Save(r), NEW c \in Codes, NEW p \in Points PROVE PlacedAt(c, p)'
    <3>1. code' = [code EXCEPT ![j.id] = j.row] /\ placed' = placed
      BY <2>4 DEF Save
    <3>2. code'[c].point = code[c].point
      BY <1>0, <2>1, <3>1
    <3> QED
      BY <2>1, <3>1, <3>2, PoolAssumption DEF PlacedAt
  <2> QED
    BY <2>3, <2>4
<1> QED
  BY <1>0, <1>1, <1>2, <1>3

LEMMA StepUndisturbed ==
    ASSUME Inv, NEW r \in Reqs, Underway(r), Step(r), ~disturbed'
    PROVE  IF pc'[r] = "idle" THEN \A c \in Codes, p \in Points : PlacedAt(c, p)'
           ELSE Underway(r)'
<1> DEFINE j == job[r]
<1>0. pc[r] # "idle" =>
        /\ j.id \in Codes /\ j \in Job
        /\ j.kind \in {"assign", "unassign", "disable", "replace"}
  BY DEF Inv, TypeOK, Job
<1>1. CASE FindExisting(r)
  <2>1. /\ pc[r] = "existing" /\ j.kind = "assign" /\ j.point \in Points
        /\ code' = code /\ placed' = placed
    BY <1>0, <1>1 DEF FindExisting, Underway, RemovalUnderway, ReplacementUnderway, Inv, TypeOK
  <2>2. RestInPlace(r) /\ AssignUnderway(r)
    BY <2>1 DEF Underway
  <2>3. CASE CodesAt(j.point) \subseteq {j.id} /\ pc' = [pc EXCEPT ![r] = "save"] /\ job' = job
    <3>1. \A d \in Codes \ {j.id} : code[d].point # j.point
      BY <2>3 DEF CodesAt
    <3>2. pc'[r] = "save"
      BY <2>3 DEF Inv, TypeOK
    <3> QED
      BY <2>1, <2>2, <2>3, <3>1, <3>2
      DEF Underway, RestInPlace, AssignUnderway, PlacedAt, Exists
  <2>4. ASSUME NEW o \in CodesAt(j.point) \ {j.id}, pc' = [pc EXCEPT ![r] = "release"],
               job' = [job EXCEPT ![r].old = [id |-> o, row |-> Freed(code[o])]]
        PROVE  Underway(r)' /\ pc'[r] = "release"
    <3> DEFINE k == [j EXCEPT !.old = [id |-> o, row |-> Freed(code[o])]]
    <3>1. o \in Codes \ {j.id} /\ code[o].point = j.point
      BY DEF CodesAt
    <3>2. /\ k.kind = j.kind /\ k.id = j.id /\ k.row = j.row /\ k.point = j.point
          /\ k.old.id = o
      BY <1>0, <2>1 DEF Job
    <3>3. job'[r] = k /\ pc'[r] = "release"
      BY <2>4 DEF Inv, TypeOK
    <3> HIDE DEF k
    <3> QED
      BY <2>1, <2>2, <3>1, <3>2, <3>3
      DEF Underway, RestInPlace, AssignUnderway, PlacedAt, Exists
  <2>5. pc'[r] # "idle"
    BY <1>1 DEF FindExisting, Inv, TypeOK
  <2> QED
    BY <1>1, <2>1, <2>3, <2>4, <2>5 DEF FindExisting
<1>2. CASE ReleaseExisting(r)
  <2>1. /\ pc[r] = "release" /\ j.kind = "assign" /\ placed' = placed
        /\ code' = [code EXCEPT ![j.old.id] = j.old.row]
        /\ pc'[r] = "save" /\ job' = [job EXCEPT ![r].old = None]
    BY <1>0, <1>2
    DEF ReleaseExisting, Underway, RemovalUnderway, ReplacementUnderway, Inv, TypeOK
  <2>2. RestInPlace(r) /\ AssignUnderway(r)
    BY <2>1 DEF Underway
  <2>3. /\ j.old.id \in Codes \ {j.id} /\ code[j.old.id].point = j.point /\ j.point \in Points
        /\ j.old.row.point = None /\ code \in [Codes -> CodeRow \cup {NoCode}]
    BY <2>1, <2>2 DEF AssignUnderway, Inv, TypeOK, RowsHeld
  <2>4. \A d \in Codes \ {j.id} : code'[d].point # j.point
    BY <1>0, <2>1, <2>3, PoolAssumption DEF Inv, PoolCoherent, CodesAt
  <2>5. \A d \in Codes \ {j.id}, q \in Points \ {j.point} : PlacedAt(d, q)'
    BY <2>1, <2>2, <2>3, PoolAssumption DEF RestInPlace, PlacedAt
  <2>6. /\ job'[r].kind = j.kind /\ job'[r].id = j.id /\ job'[r].row = j.row
        /\ job'[r].point = j.point
    BY <1>0, <2>1 DEF Job, Inv, TypeOK
  <2>7. code'[j.id] = code[j.id]
    BY <1>0, <2>1, <2>3
  <2> QED
    BY <2>1, <2>2, <2>3, <2>4, <2>5, <2>6, <2>7
    DEF Underway, RestInPlace, AssignUnderway, Exists
<1>3. CASE RequestReplacement(r)
  <2>1. /\ pc[r] = "reread" /\ j.kind = "replace" /\ code' = code /\ placed' = placed
    BY <1>0, <1>3 DEF RequestReplacement, Underway, AssignUnderway, RemovalUnderway, Inv, TypeOK, RowsHeld
  <2>2. RestInPlace(r) /\ ReplacementUnderway(r)
    BY <2>1 DEF Underway
  <2>3. \A c \in Codes, p \in Points : PlacedAt(c, p)'
    BY <2>1, <2>2, PoolAssumption DEF RestInPlace, ReplacementUnderway, PlacedAt
  <2> DEFINE row == [code[j.id] EXCEPT !.replacement_requested_at = TRUE]
  <2>4. CASE /\ job' = [job EXCEPT ![r].row = row]
             /\ pc' = [pc EXCEPT ![r] = "save"]
    <3>1. row.point = code[j.id].point /\ row.status = code[j.id].status
      BY <1>0, <2>1 DEF Inv, TypeOK, CodeRow, NoCode
    <3> HIDE DEF row
    <3>2. /\ job'[r].kind = j.kind /\ job'[r].id = j.id /\ job'[r].row = row
          /\ job'[r].point = j.point /\ pc'[r] = "save"
      BY <1>0, <2>1, <2>4 DEF Job, Inv, TypeOK
    <3> QED
      BY <1>0, <2>1, <2>2, <2>3, <3>1, <3>2
      DEF Underway, RestInPlace, ReplacementUnderway, Exists
  <2>5. CASE Finish(r)
    BY <2>3, <2>5 DEF Finish, Inv, TypeOK
  <2> QED
    BY <1>3, <2>4, <2>5 DEF RequestReplacement
<1>4. CASE Save(r) \/ SaveRefused(r)
  <2>1. pc[r] = "save" /\ pc'[r] = "idle"
    BY <1>4 DEF Save, SaveRefused, Finish, Inv, TypeOK
  <2> QED
    BY <1>4, <2>1, SaveUndisturbed DEF SaveRefused
<1>5. ~Fail(r)
  BY DEF Fail
<1> QED
  BY <1>1, <1>2, <1>3, <1>4, <1>5 DEF Step

(* No action of the model but the two that note it can disturb the others, *)
(* and nothing makes up for it later.                                      *)
LEMMA DisturbedForGood ==
    ASSUME Inv, Next, ~disturbed'
    PROVE  /\ ~disturbed
           /\ \A r \in Reqs : Arrive(r) => ~Busy
  BY ZenonT(30) DEF Next, Arrive, Step, GenerateBatch, Assign, Unassign, Disable, FindMine, Begin,
     FindExisting, ReleaseExisting, RequestReplacement, Save, SaveRefused, Fail, Inv, TypeOK, Busy

(* A request's step moves no other request. *)
LEMMA OthersStay ==
    ASSUME Inv, NEW r \in Reqs, Arrive(r) \/ Step(r), NEW q \in Reqs \ {r}
    PROVE  pc'[q] = pc[q] /\ job'[q] = job[q]
  BY DEF Arrive, Step, Assign, Unassign, Disable, FindMine, Begin, Finish,
     FindExisting, ReleaseExisting, RequestReplacement, Save, SaveRefused, Fail, Inv, TypeOK

LEMMA GenerateUndisturbed ==
    ASSUME Inv, UndisturbedOK, NEW batch \in SUBSET Codes, GenerateBatch(batch)
    PROVE  UndisturbedOK'
<1>1. /\ pc' = pc /\ job' = job /\ placed' = placed /\ disturbed' = disturbed
      /\ code' = [c \in Codes |-> IF c \in batch THEN [NoCode EXCEPT !.status = "free"] ELSE code[c]]
      /\ \A c \in batch : code[c] = NoCode
  BY DEF GenerateBatch, Exists
<1>2. ASSUME NEW c \in Codes
      PROVE  code'[c].point = code[c].point /\ (Exists(c) => code'[c] = code[c])
  BY <1>1 DEF Exists, NoCode
<1>3. ASSUME NEW r \in Reqs, pc[r] # "idle", Underway(r) PROVE Underway(r)'
  <2>1. job[r].id \in Codes /\ code'[job[r].id] = code[job[r].id] /\ Exists(job[r].id)
    BY <1>2, <1>3 DEF Underway, RestInPlace, Inv, TypeOK, Job
  <2>2. RestInPlace(r)' /\ (ReplacementUnderway(r) => ReplacementUnderway(r)')
    BY <1>1, <1>2, <1>3, <2>1 DEF Underway, RestInPlace, ReplacementUnderway, PlacedAt, Exists
  <2>3. AssignUnderway(r) => AssignUnderway(r)'
    BY <1>1, <1>2, <2>1 DEF AssignUnderway
  <2>4. RemovalUnderway(r) => RemovalUnderway(r)'
    BY <1>1 DEF RemovalUnderway
  <2> QED
    BY <1>1, <1>3, <2>2, <2>3, <2>4 DEF Underway
<1> QED
  BY <1>1, <1>2, <1>3 DEF UndisturbedOK, Busy, PlacedAt

LEMMA NextUndisturbed == Inv /\ UndisturbedOK /\ [Next]_vars => UndisturbedOK'
<1> SUFFICES ASSUME Inv, UndisturbedOK, [Next]_vars, ~disturbed' PROVE UndisturbedOK'
  BY DEF UndisturbedOK
<1>1. CASE UNCHANGED vars
  BY <1>1 DEF vars, UndisturbedOK, Busy, PlacedAt, Underway, RestInPlace, AssignUnderway,
     RemovalUnderway, ReplacementUnderway, Exists
<1>2. ASSUME NEW r \in Reqs, Arrive(r) \/ Step(r), Next PROVE UndisturbedOK'
  <2>1. ~disturbed
    BY <1>2, DisturbedForGood
  <2>2. \A q \in Reqs \ {r} : pc[q] = "idle" /\ pc'[q] = "idle"
    <3>1. CASE Arrive(r)
      BY <1>2, <3>1, DisturbedForGood, OthersStay DEF Busy
    <3>2. CASE Step(r)
      <4>1. pc[r] # "idle"
        BY <3>2 DEF Step, FindExisting, ReleaseExisting, RequestReplacement, Save, SaveRefused, Fail
      <4> QED
        BY <2>1, <3>2, <4>1, OthersStay DEF UndisturbedOK
    <3> QED
      BY <1>2, <3>1, <3>2
  <2>3. IF pc'[r] = "idle" THEN \A c \in Codes, p \in Points : PlacedAt(c, p)' ELSE Underway(r)'
    <3>1. CASE Arrive(r)
      <4>1. pc'[r] # "idle"
        BY <3>1 DEF Arrive, Assign, Unassign, Disable, FindMine, Begin, Inv, TypeOK
      <4> QED
        BY <3>1, <4>1, ArriveUndisturbed
    <3>2. CASE Step(r)
      <4>1. pc[r] # "idle"
        BY <3>2 DEF Step, FindExisting, ReleaseExisting, RequestReplacement, Save, SaveRefused, Fail
      <4> QED
        BY <2>1, <3>2, <4>1, StepUndisturbed DEF UndisturbedOK
    <3> QED
      BY <1>2, <3>1, <3>2
  <2> QED
    BY <2>2, <2>3 DEF UndisturbedOK, Busy
<1> QED
  BY <1>1, <1>2, GenerateUndisturbed DEF Next

LEMMA InitUndisturbed == Init => UndisturbedOK
  BY NoCodeCoherent, PoolAssumption DEF Init, UndisturbedOK, PlacedAt, Nothing

(* What is true of requests that neither overlap nor fail is an invariant. *)
THEOREM UndisturbedInvariance == Spec => [](Inv /\ UndisturbedOK)
<1> QED
  BY InitInv, NextKeeps, InitUndisturbed, NextUndisturbed, PTL DEF Spec

(* Requests one after the other leave a point with exactly the code the    *)
(* last Assign gave it, or none if it was moved, unassigned or disabled    *)
(* since (Manager.Assign, Unassign, Disable).                              *)
THEOREM PointKeepsItsCode == Spec => []PointHasItsCode
<1>1. Inv /\ UndisturbedOK => PointHasItsCode
  <2> SUFFICES ASSUME Inv, UndisturbedOK, ~disturbed, ~Busy, NEW p \in Points
               PROVE  CodesAt(p) = {placed[p]} \ {None}
    BY DEF PointHasItsCode
  <2>1. \A c \in Codes : code[c].point = p <=> placed[p] = c
    BY DEF UndisturbedOK, PlacedAt
  <2> QED
    BY <2>1, PoolAssumption DEF CodesAt, Inv, TypeOK
<1> QED
  BY <1>1, UndisturbedInvariance, PTL

(* One after the other, only an Unassign brings a disabled code back       *)
(* (Manager.Disable: "it does not return to the free pool").               *)
THEOREM DisabledStays == Spec => DisabledComesBackOnlyByUnassign
<1> DEFINE Stays ==
      \A c \in Codes :
          code[c].status = "disabled" /\ code'[c].status # "disabled" =>
              disturbed \/ \E r \in Reqs : job[r].kind = "unassign" /\ job[r].id = c
<1>1. Inv /\ UndisturbedOK /\ [Next]_vars => [Stays]_vars
  <2> SUFFICES ASSUME Inv, UndisturbedOK, Next, NEW c \in Codes,
                      code[c].status = "disabled", code'[c].status # "disabled", ~disturbed
               PROVE  \E r \in Reqs : job[r].kind = "unassign" /\ job[r].id = c
    OBVIOUS
  <2>1. ~\E batch \in SUBSET Codes : GenerateBatch(batch)
    BY NoCodeCoherent DEF GenerateBatch, Exists
  <2>2. PICK r \in Reqs : ReleaseExisting(r) \/ Save(r)
    BY <2>1 DEF Next, Arrive, Step, Assign, Unassign, Disable, FindMine, FindExisting,
       RequestReplacement, SaveRefused, Fail
  <2>3. /\ Underway(r) /\ job[r].kind \in {"assign", "unassign", "disable", "replace"}
    BY <2>2 DEF ReleaseExisting, Save, UndisturbedOK, Inv, TypeOK, Job
  <2>4. CASE ReleaseExisting(r)
    <3>1. job[r].kind = "assign" /\ AssignUnderway(r) /\ job[r].point \in Points /\ c = job[r].old.id
      BY <2>3, <2>4 DEF ReleaseExisting, Underway, RemovalUnderway, ReplacementUnderway, Inv, TypeOK
    <3>2. code[c].point = job[r].point
      BY <2>4, <3>1 DEF ReleaseExisting, AssignUnderway
    <3> QED
      BY <3>1, <3>2, PoolAssumption DEF Inv, PoolCoherent, Coherent
  <2>5. CASE Save(r)
    <3>1. c = job[r].id /\ code'[c] = job[r].row /\ pc[r] = "save"
      BY <2>5 DEF Save, Inv, TypeOK
    <3> QED
      BY <2>3, <3>1 DEF Underway, AssignUnderway, RemovalUnderway, ReplacementUnderway
  <2> QED
    BY <2>2, <2>4, <2>5
<1> QED
  BY <1>1, UndisturbedInvariance, PTL DEF Spec, DisabledComesBackOnlyByUnassign
=============================================================================
