----------------------------- MODULE BoardProof -----------------------------
(***************************************************************************)
(* What the readers of the table are shown, for any number of bookings,    *)
(* boxes and days: tickets that stay, a board that loses nobody, and       *)
(* nothing of the out-of-queue bookings.  And no lost wakeup on the        *)
(* streams that show it, for any number of streams and writers.            *)
(***************************************************************************)
EXTENDS Views, BoardStream, TLAPS, FiniteSetTheorems, WellFoundedInduction, NaturalsInduction

(***************************************************************************)
(* The ledger's operators, instantiated on the same table, are the table's.*)
(***************************************************************************)
LEMMA LedgerIsTable ==
    /\ Ledger!NoRow = NoRow
    /\ \A a \in Asks : /\ Ledger!NewRow(a) = NewRow(a)
                       /\ Ledger!CreateRefused(a) <=> CreateRefused(a)
    /\ \A q, to : Ledger!WithStatus(q, to) = WithStatus(q, to)
    /\ \A o, to : Ledger!UpdateRefused(o, to) <=> UpdateRefused(o, to)
    /\ \A s : Ledger!staffStatusTransitions(s) = staffStatusTransitions(s)
<1>1. Ledger!NoRow = NoRow
  BY DEF Ledger!NoRow, NoRow
<1>2. \A a \in Asks : Ledger!NewRow(a) = NewRow(a)
  BY DEF Ledger!NewRow, NewRow, Ledger!End, End
<1>3. \A rows, p, b, s, e : Ledger!BoxTaken(rows, p, b, s, e) <=> BoxTaken(rows, p, b, s, e)
  BY DEF Ledger!BoxTaken, BoxTaken, Ledger!HoldsBox, HoldsBox, Ledger!Overlap, Overlap,
         Ledger!OccupyingStatus, OccupyingStatus, Ledger!Status, Status
<1>4. \A rows, u : Ledger!UserTaken(rows, u) <=> UserTaken(rows, u)
  BY DEF Ledger!UserTaken, UserTaken, Ledger!ActiveStatus, ActiveStatus
<1>5. \A a \in Asks : Ledger!CreateRefused(a) <=> CreateRefused(a)
  BY <1>3, <1>4 DEF Ledger!CreateRefused, CreateRefused, Ledger!End, End
<1>6. \A q, to : Ledger!WithStatus(q, to) = WithStatus(q, to)
  BY DEF Ledger!WithStatus, WithStatus
<1>7. \A o, to : Ledger!UpdateRefused(o, to) <=> UpdateRefused(o, to)
  BY <1>3, <1>4 DEF Ledger!UpdateRefused, UpdateRefused, Ledger!ActiveStatus, ActiveStatus,
                    Ledger!OccupyingStatus, OccupyingStatus, Ledger!Status, Status
<1>8. \A s : Ledger!staffStatusTransitions(s) = staffStatusTransitions(s)
  BY DEF Ledger!staffStatusTransitions, staffStatusTransitions
<1> QED
  BY <1>1, <1>2, <1>5, <1>6, <1>7, <1>8

(* Of some naturals, one is the least. *)
LEMMA LeastExists ==
    ASSUME NEW T \in SUBSET Nat, T # {}
    PROVE  \E x \in T : \A y \in T : x <= y
<1> DEFINE R == {ss \in Nat \X Nat : ss[1] < ss[2]}
<1>1. IsWellFoundedOn(R, Nat)
  BY NatLessThanWellFounded DEF OpToRel
<1>2. PICK x \in T : \A y \in T : ~(<<y, x>> \in R)
  BY <1>1, WFMin
<1>3. ASSUME NEW y \in T PROVE x <= y
  <2>1. x \in Nat /\ y \in Nat /\ ~(<<y, x>> \in R)
    BY <1>2
  <2>2. ~(y < x)
    BY <2>1
  <2> QED
    BY <2>1, <2>2
<1> QED
  BY <1>3

(* Of some naturals up to k, one is the greatest. *)
LEMMA GreatestExists ==
    ASSUME NEW T \in SUBSET Nat, T # {}, NEW k \in Nat, \A x \in T : x <= k
    PROVE  \E x \in T : \A y \in T : y <= x
<1> DEFINE D == {d \in Nat : k - d \in T}
<1>1. \A x \in T : k - x \in D
  OBVIOUS
<1>2. D \in SUBSET Nat /\ D # {}
  BY <1>1
<1>3. PICK d \in D : \A e \in D : d <= e
  BY <1>2, LeastExists
<1>4. ASSUME NEW y \in T PROVE y <= k - d
  <2>1. d <= k - y
    BY <1>1, <1>3
  <2> QED
    BY <2>1
<1> QED
  BY <1>3, <1>4

-----------------------------------------------------------------------------
(***************************************************************************)
(* Sums over finite sets.  Total folds a set in the order CHOOSE gives; a  *)
(* smallest set for which something fails, which exists, stands for an     *)
(* induction: it is not empty, and holds for the set without an element.   *)
(***************************************************************************)

(* The terms of f at the elements of s. *)
SumOver(f, s) == Total([y \in s |-> f[y]])

(* The element a fold takes next. *)
Pick(s) == CHOOSE x \in s : TRUE

(* g sums f over the sets of F, one element after another. *)
IsSum(g, f, F) ==
    \A s \in F : g[s] = IF s = {} THEN 0 ELSE f[Pick(s)] + g[s \ {Pick(s)}]

(* Of some subsets of a finite set, one contains no other. *)
LEMMA SmallestSet ==
    ASSUME NEW D, IsFiniteSet(D), NEW F \in SUBSET SUBSET D, F # {}
    PROVE  \E T \in F : \A U \in F : U \subseteq T => U = T
<1>1. FiniteSubsetsOf(D) = SUBSET D
  BY FS_FiniteSubsetsOfFinite
<1>2. IsWellFoundedOn(StrictSubsetOrdering(D), FiniteSubsetsOf(D))
  BY FS_StrictSubsetOrderingWellFounded
<1>3. PICK T \in F : \A U \in F : ~(<<U, T>> \in StrictSubsetOrdering(D))
  BY <1>1, <1>2, WFMin
<1> QED
  BY <1>3 DEF StrictSubsetOrdering

(* By size, as long as an element is left to take. *)
UpTo(D, n) == {s \in SUBSET D : Cardinality(s) <= n}

(* There is such a g for the sets of up to n elements. *)
LEMMA SumUpTo ==
    ASSUME NEW D, IsFiniteSet(D), NEW f \in [D -> Int], NEW n \in Nat
    PROVE  \E g \in [UpTo(D, n) -> Int] : IsSum(g, f, UpTo(D, n))
<1> DEFINE Good(m) == \E g \in [UpTo(D, m) -> Int] : IsSum(g, f, UpTo(D, m))
           Bad == {m \in Nat : ~Good(m)}
<1>1. Good(0)
  <2> DEFINE g == [s \in UpTo(D, 0) |-> 0]
  <2>1. \A s \in UpTo(D, 0) : s = {}
    BY FS_EmptySet, FS_Subset, FS_CardinalityType DEF UpTo
  <2>2. g \in [UpTo(D, 0) -> Int] /\ IsSum(g, f, UpTo(D, 0))
    BY <2>1 DEF IsSum
  <2> QED
    BY <2>2
<1>2. ASSUME NEW m \in Nat, Good(m) PROVE Good(m + 1)
  <2>1. PICK g \in [UpTo(D, m) -> Int] : IsSum(g, f, UpTo(D, m))
    BY <1>2
  <2>2. ASSUME NEW s \in UpTo(D, m + 1), s # {}
        PROVE  Pick(s) \in D /\ Pick(s) \in s /\ s \ {Pick(s)} \in UpTo(D, m)
    <3>1. s \in SUBSET D /\ IsFiniteSet(s) /\ Cardinality(s) \in Nat /\ Cardinality(s) <= m + 1
      BY FS_Subset, FS_CardinalityType DEF UpTo
    <3>2. Pick(s) \in s
      BY <2>2 DEF Pick
    <3>3. Cardinality(s \ {Pick(s)}) = Cardinality(s) - 1
      BY <3>1, <3>2, FS_RemoveElement
    <3> QED
      BY <3>1, <3>2, <3>3 DEF UpTo
  <2> DEFINE h == [s \in UpTo(D, m + 1) |->
                      IF s = {} THEN 0 ELSE f[Pick(s)] + g[s \ {Pick(s)}]]
  <2>3. h \in [UpTo(D, m + 1) -> Int]
    BY <2>2
  <2>4. UpTo(D, m) \subseteq UpTo(D, m + 1)
    BY FS_Subset, FS_CardinalityType DEF UpTo
  <2>5. ASSUME NEW s \in UpTo(D, m) PROVE h[s] = g[s]
    BY <2>1, <2>4 DEF IsSum
  <2>6. IsSum(h, f, UpTo(D, m + 1))
    BY <2>2, <2>5 DEF IsSum
  <2> QED
    BY <2>3, <2>6
<1> HIDE DEF Good
<1>3. Bad = {}
  <2> SUFFICES ASSUME Bad # {} PROVE FALSE
    OBVIOUS
  <2>1. PICK m \in Bad : \A k \in Bad : m <= k
    BY LeastExists
  <2>2. m # 0 /\ m - 1 \in Nat /\ m - 1 \notin Bad
    BY <1>1, <2>1
  <2> QED
    BY <1>2, <2>2
<1> QED
  BY <1>3 DEF Good

(* And Total is what it gives for the whole set. *)
LEMMA TotalIsSum ==
    ASSUME NEW D, IsFiniteSet(D), NEW f \in [D -> Int]
    PROVE  \E g \in [SUBSET D -> Int] : IsSum(g, f, SUBSET D) /\ Total(f) = g[D]
<1>1. UpTo(D, Cardinality(D)) = SUBSET D /\ Cardinality(D) \in Nat
  BY FS_Subset, FS_CardinalityType DEF UpTo
<1>2. PICK h \in [SUBSET D -> Int] : IsSum(h, f, SUBSET D)
  <2>1. \E h \in [UpTo(D, Cardinality(D)) -> Int] : IsSum(h, f, UpTo(D, Cardinality(D)))
    BY <1>1, SumUpTo
  <2> QED
    BY ONLY <1>1, <2>1
<1> DEFINE Rec(g) == g = [s \in SUBSET D |-> IF s = {} THEN 0 ELSE f[Pick(s)] + g[s \ {Pick(s)}]]
           g == CHOOSE r : Rec(r)
<1>3. Rec(h)
  BY <1>2 DEF IsSum
<1>4. Rec(g)
  BY <1>3
<1>5. Total(f) = g[D]
  BY DEF Total, MapThenSumSet, MapThenFoldSet, Pick
<1> HIDE DEF g
<1>6. \A s \in SUBSET D : g[s] = IF s = {} THEN 0 ELSE f[Pick(s)] + g[s \ {Pick(s)}]
  BY <1>4
<1> DEFINE Bad == {s \in SUBSET D : g[s] \notin Int}
<1>7. Bad = {}
  <2> SUFFICES ASSUME Bad # {} PROVE FALSE
    OBVIOUS
  <2>0. Bad \in SUBSET SUBSET D
    OBVIOUS
  <2>1. PICK s \in Bad : \A u \in Bad : u \subseteq s => u = s
    <3> HIDE DEF Bad
    <3> QED
      BY <2>0, SmallestSet
  <2>2. s # {}
    <3>1. g[s] \notin Int
      OBVIOUS
    <3>2. {} \in SUBSET D
      OBVIOUS
    <3>3. g[{}] = 0
      BY ONLY <1>6, <3>2
    <3>4. ASSUME s = {} PROVE FALSE
      BY ONLY <3>1, <3>3, <3>4
    <3> QED
      BY <3>4
  <2>3. Pick(s) \in s
    BY <2>2 DEF Pick
  <2>4. g[s \ {Pick(s)}] \in Int /\ f[Pick(s)] \in Int
    BY <2>1, <2>3
  <2> QED
    BY <1>6, <2>2, <2>4
<1>8. g \in [SUBSET D -> Int]
  BY <1>4, <1>7
<1> QED
  BY <1>5, <1>6, <1>8 DEF IsSum

(* A sum is an integer, that of nothing is 0, and any term may come last. *)
LEMMA TotalFacts ==
    ASSUME NEW D, IsFiniteSet(D), NEW f \in [D -> Int]
    PROVE  /\ Total(f) \in Int
           /\ D = {} => Total(f) = 0
           /\ \A x \in D : Total(f) = f[x] + SumOver(f, D \ {x})
<1>1. PICK g \in [SUBSET D -> Int] : IsSum(g, f, SUBSET D) /\ Total(f) = g[D]
  BY TotalIsSum
<1>2. \A s \in SUBSET D : g[s] = IF s = {} THEN 0 ELSE f[Pick(s)] + g[s \ {Pick(s)}]
  BY <1>1 DEF IsSum
<1>3. ASSUME NEW s \in SUBSET D PROVE SumOver(f, s) = g[s]
  <2> DEFINE fs == [y \in s |-> f[y]]
  <2>1. IsFiniteSet(s) /\ fs \in [s -> Int]
    BY FS_Subset
  <2>2. PICK k \in [SUBSET s -> Int] : IsSum(k, fs, SUBSET s) /\ Total(fs) = k[s]
    BY <2>1, TotalIsSum
  <2>3. \A u \in SUBSET s : k[u] = IF u = {} THEN 0 ELSE fs[Pick(u)] + k[u \ {Pick(u)}]
    BY <2>2 DEF IsSum
  <2> DEFINE Bad == {u \in SUBSET s : k[u] # g[u]}
  <2>4. Bad = {}
    <3> SUFFICES ASSUME Bad # {} PROVE FALSE
      OBVIOUS
    <3>0. Bad \in SUBSET SUBSET s
      OBVIOUS
    <3>1. PICK u \in Bad : \A v \in Bad : v \subseteq u => v = u
      <4> HIDE DEF Bad
      <4> QED
        BY <2>1, <3>0, SmallestSet
    <3>2. u # {}
      BY <1>2, <2>3
    <3>3. Pick(u) \in u
      BY <3>2 DEF Pick
    <3>4. k[u \ {Pick(u)}] = g[u \ {Pick(u)}] /\ fs[Pick(u)] = f[Pick(u)]
      BY <3>1, <3>3
    <3> QED
      BY <1>2, <2>3, <3>1, <3>2, <3>4
  <2> QED
    BY <2>2, <2>4 DEF SumOver
<1> DEFINE Bad == {s \in SUBSET D : \E x \in s : g[s] # f[x] + g[s \ {x}]}
<1>4. Bad = {}
  <2> SUFFICES ASSUME Bad # {} PROVE FALSE
    OBVIOUS
  <2>0. Bad \in SUBSET SUBSET D
    OBVIOUS
  <2>1. PICK s \in Bad : \A u \in Bad : u \subseteq s => u = s
    <3> HIDE DEF Bad
    <3> QED
      BY <2>0, SmallestSet
  <2>2. PICK x \in s : g[s] # f[x] + g[s \ {x}]
    BY <2>1
  <2> DEFINE p == Pick(s)
  <2>3. p \in s /\ g[s] = f[p] + g[s \ {p}]
    BY <1>2, <2>2 DEF Pick
  <2> HIDE DEF p
  <2>4. p # x
    BY <2>2, <2>3
  <2>5. s \ {p} \notin Bad /\ s \ {x} \notin Bad
    BY <2>1, <2>2, <2>3
  <2>6. g[s \ {p}] = f[x] + g[(s \ {p}) \ {x}] /\ g[s \ {x}] = f[p] + g[(s \ {x}) \ {p}]
    BY <2>2, <2>3, <2>4, <2>5
  <2>7. (s \ {p}) \ {x} = (s \ {x}) \ {p}
    OBVIOUS
  <2>8. f[x] \in Int /\ f[p] \in Int /\ g[(s \ {p}) \ {x}] \in Int
    BY <2>2, <2>3
  <2> DEFINE rest == g[(s \ {p}) \ {x}]
  <2>9. g[s] = f[p] + (f[x] + rest) /\ g[s \ {x}] = f[p] + rest
    BY <2>3, <2>6, <2>7
  <2> HIDE DEF rest
  <2> QED
    BY ONLY <2>2, <2>8, <2>9 DEF rest
<1>5. ASSUME NEW x \in D PROVE Total(f) = f[x] + SumOver(f, D \ {x})
  BY <1>1, <1>3, <1>4
<1> QED
  BY <1>1, <1>2, <1>5

(* What holds of nothing, and of one more element when it holds of a set,  *)
(* holds of a finite set.                                                  *)
LEMMA SetInduction ==
    ASSUME NEW D, IsFiniteSet(D), NEW G \in SUBSET SUBSET D, {} \in G,
           \A s \in G : \A x \in D \ s : s \cup {x} \in G
    PROVE  D \in G
<1> DEFINE Bad == (SUBSET D) \ G
<1>1. Bad \in SUBSET SUBSET D
  OBVIOUS
<1>2. ASSUME Bad # {} PROVE FALSE
  <2>1. PICK s \in Bad : \A u \in Bad : u \subseteq s => u = s
    <3> HIDE DEF Bad
    <3> QED
      BY <1>1, <1>2, SmallestSet
  <2>2. PICK x \in s : TRUE
    OBVIOUS
  <2>3. s \ {x} \in G /\ x \in D \ (s \ {x}) /\ (s \ {x}) \cup {x} = s
    BY <2>1
  <2> QED
    BY <2>3
<1> QED
  BY <1>2

(* An integer for each element of a finite set. *)
Terms(f, D) == IsFiniteSet(D) /\ f \in [D -> Int]

(* The sum over a part of the domain. *)
LEMMA SumParts ==
    ASSUME NEW D, NEW f, Terms(f, D)
    PROVE  /\ Total(f) = SumOver(f, D)
           /\ \A s \in SUBSET D : SumOver(f, s) \in Int /\ (s = {} => SumOver(f, s) = 0)
<1>1. \A u \in SUBSET D : IsFiniteSet(u) /\ [y \in u |-> f[y]] \in [u -> Int]
  BY FS_Subset DEF Terms
<1>2. Total(f) = SumOver(f, D)
  <2>1. f = [y \in D |-> f[y]]
    BY DEF Terms
  <2> QED
    BY <2>1 DEF SumOver
<1>3. ASSUME NEW s \in SUBSET D
      PROVE  SumOver(f, s) \in Int /\ (s = {} => SumOver(f, s) = 0)
  BY <1>1, TotalFacts DEF SumOver
<1> QED
  BY <1>2, <1>3

(* A sum of integers is one. *)
LEMMA SumIsInt ==
    ASSUME NEW D, NEW f, Terms(f, D)
    PROVE  Total(f) \in Int
  BY TotalFacts DEF Terms

(* One more element, one more term. *)
LEMMA SumMore ==
    ASSUME NEW D, NEW f, Terms(f, D), NEW s \in SUBSET D, NEW x \in D \ s
    PROVE  /\ SumOver(f, s \cup {x}) = f[x] + SumOver(f, s)
           /\ f[x] \in Int /\ SumOver(f, s) \in Int
<1> DEFINE u == s \cup {x}
           fu == [y \in u |-> f[y]]
<1>1. u \in SUBSET D /\ IsFiniteSet(u) /\ fu \in [u -> Int] /\ x \in u
  BY FS_Subset DEF Terms
<1>2. Total(fu) = fu[x] + SumOver(fu, u \ {x})
  <2> HIDE DEF u, fu
  <2> QED
    BY <1>1, TotalFacts
<1>3. [y \in u \ {x} |-> fu[y]] = [y \in s |-> f[y]] /\ fu[x] = f[x]
  OBVIOUS
<1>4. SumOver(fu, u \ {x}) = SumOver(f, s) /\ Total(fu) = SumOver(f, u)
  BY <1>3 DEF SumOver
<1>5. f[x] \in Int /\ SumOver(f, s) \in Int
  BY SumParts DEF Terms
<1> QED
  BY <1>2, <1>3, <1>4, <1>5

(* A sum of one term. *)
LEMMA SumOne ==
    ASSUME NEW D, NEW f, Terms(f, D), NEW x \in D
    PROVE  SumOver(f, {x}) = f[x]
<1> DEFINE none == D \ D
           one == none \cup {x}
<1>0. none \in SUBSET D /\ x \in D \ none
  OBVIOUS
<1>1. none = {} /\ one = {x}
  OBVIOUS
<1> HIDE DEF none
<1>2. SumOver(f, one) = f[x] + SumOver(f, none) /\ f[x] \in Int
  BY <1>0, SumMore
<1>3. SumOver(f, none) = 0
  BY <1>0, <1>1, SumParts
<1> HIDE DEF one
<1> QED
  BY <1>1, <1>2, <1>3

(* Sums of equal terms are equal. *)
LEMMA SumSame ==
    ASSUME NEW f, NEW h, NEW s, \A x \in s : f[x] = h[x]
    PROVE  SumOver(f, s) = SumOver(h, s)
<1>1. [x \in s |-> f[x]] = [x \in s |-> h[x]]
  OBVIOUS
<1> QED
  BY <1>1 DEF SumOver

(* k adds f and h, term by term. *)
Adds(k, f, h, D) ==
    Terms(f, D) /\ Terms(h, D) /\ Terms(k, D) /\ \A x \in D : k[x] = f[x] + h[x]

(* The sum of sums. *)
LEMMA SumAdds ==
    ASSUME NEW D, NEW f, NEW h, NEW k, Adds(k, f, h, D)
    PROVE  Total(k) = Total(f) + Total(h)
<1> DEFINE G == {s \in SUBSET D : SumOver(k, s) = SumOver(f, s) + SumOver(h, s)}
<1>0. Terms(f, D) /\ Terms(h, D) /\ Terms(k, D) /\ \A x \in D : k[x] = f[x] + h[x]
  BY DEF Adds
<1>1. {} \in G
  BY <1>0, SumParts
<1>2. ASSUME NEW s \in G, NEW x \in D \ s PROVE s \cup {x} \in G
  <2>1. s \in SUBSET D /\ x \in D /\ SumOver(k, s) = SumOver(f, s) + SumOver(h, s)
    OBVIOUS
  <2> HIDE DEF G
  <2>2. /\ SumOver(k, s \cup {x}) = k[x] + SumOver(k, s)
        /\ SumOver(f, s \cup {x}) = f[x] + SumOver(f, s)
        /\ SumOver(h, s \cup {x}) = h[x] + SumOver(h, s)
    BY <1>0, <2>1, SumMore
  <2>3. SumOver(f, s) \in Int /\ SumOver(h, s) \in Int /\ f[x] \in Int /\ h[x] \in Int
    BY <1>0, <2>1, SumMore
  <2>4. SumOver(k, s \cup {x}) = SumOver(f, s \cup {x}) + SumOver(h, s \cup {x})
    BY <1>0, <2>1, <2>2, <2>3
  <2> QED
    BY <2>1, <2>4 DEF G
<1>3. D \in G
  <2>1. G \in SUBSET SUBSET D /\ IsFiniteSet(D)
    BY <1>0 DEF Terms
  <2> HIDE DEF G
  <2> QED
    BY <1>1, <1>2, <2>1, SetInduction
<1> QED
  BY <1>0, <1>3, SumParts

(* Terms that are 0 may be left out. *)
LEMMA SumZeros ==
    ASSUME NEW D, NEW f, Terms(f, D), NEW t \in SUBSET D, \A x \in D \ t : f[x] = 0
    PROVE  Total(f) = SumOver(f, t)
<1> DEFINE G == {s \in SUBSET D : SumOver(f, s) = SumOver(f, s \cap t)}
<1>1. {} \in G
  <2>1. {} \cap t = {}
    OBVIOUS
  <2> QED
    BY <2>1
<1>2. ASSUME NEW s \in G, NEW x \in D \ s PROVE s \cup {x} \in G
  <2> DEFINE v == s \cap t
             v1 == v \cup {x}
             w == (s \cup {x}) \cap t
  <2>1. /\ s \in SUBSET D /\ v \in SUBSET D /\ x \in D \ s /\ x \in D \ v
        /\ SumOver(f, s) = SumOver(f, v)
    OBVIOUS
  <2>2. IF x \in t THEN w = v1 ELSE w = v /\ f[x] = 0
    OBVIOUS
  <2> HIDE DEF v, w, G
  <2>3. SumOver(f, s \cup {x}) = f[x] + SumOver(f, s) /\ SumOver(f, s) \in Int
    BY <2>1, SumMore
  <2>4. SumOver(f, v1) = f[x] + SumOver(f, v)
    BY <2>1, SumMore
  <2> HIDE DEF v1
  <2>5. SumOver(f, s \cup {x}) = SumOver(f, w)
    BY <2>1, <2>2, <2>3, <2>4
  <2> QED
    BY <2>1, <2>5 DEF G, w
<1>3. D \in G
  <2>1. G \in SUBSET SUBSET D /\ IsFiniteSet(D)
    BY DEF Terms
  <2> HIDE DEF G
  <2> QED
    BY <1>1, <1>2, <2>1, SetInduction
<1>4. D \cap t = t
  OBVIOUS
<1> QED
  BY <1>3, <1>4, SumParts

(* The sum over two parts that share nothing. *)
LEMMA SumUnion ==
    ASSUME NEW D, NEW f, Terms(f, D), NEW S \in SUBSET D, NEW T \in SUBSET D, S \cap T = {}
    PROVE  SumOver(f, S \cup T) = SumOver(f, S) + SumOver(f, T)
<1> DEFINE G == {s \in SUBSET T : SumOver(f, S \cup s) = SumOver(f, S) + SumOver(f, s)}
<1>1. {} \in G
  <2>1. S \cup {} = S /\ SumOver(f, {}) = 0 /\ SumOver(f, S) \in Int
    BY SumParts
  <2>2. SumOver(f, S \cup {}) = SumOver(f, S) + SumOver(f, {})
    BY <2>1
  <2> QED
    BY <2>2
<1>2. ASSUME NEW s \in G, NEW x \in T \ s PROVE s \cup {x} \in G
  <2> DEFINE u == S \cup s
  <2>1. /\ s \in SUBSET T /\ s \in SUBSET D /\ u \in SUBSET D /\ x \in D \ s /\ x \in D \ u
        /\ SumOver(f, u) = SumOver(f, S) + SumOver(f, s)
    OBVIOUS
  <2>2. S \cup (s \cup {x}) = u \cup {x}
    OBVIOUS
  <2> HIDE DEF u, G
  <2>3. /\ SumOver(f, u \cup {x}) = f[x] + SumOver(f, u)
        /\ SumOver(f, s \cup {x}) = f[x] + SumOver(f, s)
    BY <2>1, SumMore
  <2>4. f[x] \in Int /\ SumOver(f, S) \in Int /\ SumOver(f, s) \in Int
    BY <2>1, SumParts DEF Terms
  <2>5. SumOver(f, u \cup {x}) = SumOver(f, S) + SumOver(f, s \cup {x})
    BY <2>1, <2>3, <2>4
  <2>6. SumOver(f, S \cup (s \cup {x})) = SumOver(f, S) + SumOver(f, s \cup {x})
    BY <2>2, <2>5
  <2> QED
    BY <2>1, <2>6 DEF G
<1>3. T \in G
  <2>1. G \in SUBSET SUBSET T /\ IsFiniteSet(T)
    BY FS_Subset DEF Terms
  <2> HIDE DEF G
  <2> QED
    BY <1>1, <1>2, <2>1, SetInduction
<1> QED
  BY <1>3

(* r holds the total of each row of h; t is h with its rows as columns. *)
TotalsOf(r, h, A, B) == Terms(r, A) /\ \A x \in A : Terms(h[x], B) /\ r[x] = Total(h[x])
Transposed(h, t, A, B) == \A x \in A : \A y \in B : h[x][y] = t[y][x]

(* Rows and columns of a table add up to the same. *)
LEMMA SumSwap ==
    ASSUME NEW A, NEW B, NEW h, NEW t, NEW r, NEW q,
           TotalsOf(r, h, A, B), TotalsOf(q, t, B, A), Transposed(h, t, A, B)
    PROVE  Total(r) = Total(q)
<1> DEFINE part(s) == [y \in B |-> SumOver(t[y], s)]
           G == {s \in SUBSET A : SumOver(r, s) = Total(part(s))}
<1>0. /\ Terms(r, A) /\ Terms(q, B)
      /\ \A x \in A : Terms(h[x], B) /\ r[x] = Total(h[x])
      /\ \A y \in B : Terms(t[y], A) /\ q[y] = Total(t[y])
      /\ \A x \in A : \A y \in B : h[x][y] = t[y][x]
  BY DEF TotalsOf, Transposed
<1>1. ASSUME NEW s \in SUBSET A
      PROVE  /\ Terms(part(s), B)
             /\ \A y \in B : part(s)[y] = SumOver(t[y], s)
  <2>1. \A y \in B : SumOver(t[y], s) \in Int
    BY <1>0, SumParts
  <2> QED
    BY <1>0, <2>1 DEF Terms
<1> HIDE DEF part
<1>2. {} \in G
  <2>1. {} \in SUBSET A /\ {} \in SUBSET B
    OBVIOUS
  <2>2. \A y \in B \ {} : part({})[y] = 0
    BY <1>0, <1>1, <2>1, SumParts
  <2>3. Total(part({})) = SumOver(part({}), {})
    BY <1>1, <2>1, <2>2, SumZeros
  <2>4. SumOver(part({}), {}) = 0 /\ SumOver(r, {}) = 0
    BY <1>0, <1>1, <2>1, SumParts
  <2> QED
    BY <2>3, <2>4
<1>3. ASSUME NEW s \in G, NEW x \in A \ s PROVE s \cup {x} \in G
  <2> DEFINE u == s \cup {x}
  <2>1. /\ u \in SUBSET A /\ s \in SUBSET A /\ x \in A /\ x \in A \ s
        /\ SumOver(r, s) = Total(part(s))
    OBVIOUS
  <2> HIDE DEF G
  <2>2. SumOver(r, u) = r[x] + SumOver(r, s)
    BY <1>0, <2>1, SumMore
  <2>3. ASSUME NEW y \in B PROVE part(u)[y] = h[x][y] + part(s)[y]
    <3>1. SumOver(t[y], u) = t[y][x] + SumOver(t[y], s)
      BY <1>0, <2>1, SumMore
    <3> QED
      BY <1>0, <1>1, <2>1, <3>1
  <2> HIDE DEF u
  <2>4. Total(part(u)) = Total(h[x]) + Total(part(s))
    <3>1. Adds(part(u), h[x], part(s), B)
      BY <1>0, <1>1, <2>1, <2>3 DEF Adds
    <3> QED
      BY <3>1, SumAdds
  <2>5. SumOver(r, u) = Total(part(u))
    BY <1>0, <2>1, <2>2, <2>4
  <2> QED
    BY <2>1, <2>5 DEF G, u
<1>4. A \in G
  <2>1. G \in SUBSET SUBSET A /\ IsFiniteSet(A)
    BY <1>0 DEF Terms
  <2> HIDE DEF G
  <2> QED
    BY <1>2, <1>3, <2>1, SetInduction
<1>5. part(A) = q
  <2>1. \A y \in B : part(A)[y] = q[y]
    BY <1>0, <1>1, SumParts
  <2>2. part(A) \in [B -> Int] /\ q \in [B -> Int]
    BY <1>0, <1>1 DEF Terms
  <2> QED
    BY <2>1, <2>2
<1> QED
  BY <1>0, <1>4, <1>5, SumParts

(* The elements of class i. *)
Fiber(c, i, D) == {x \in D : c[x] = i}

(* A sum by classes is the sum. *)
LEMMA SumFibers ==
    ASSUME NEW D, NEW f, Terms(f, D), NEW I, NEW r, Terms(r, I), NEW c \in [D -> I],
           \A i \in I : r[i] = SumOver(f, Fiber(c, i, D))
    PROVE  Total(f) = Total(r)
<1> DEFINE h == [x \in D |-> [i \in I |-> IF c[x] = i THEN f[x] ELSE 0]]
           t == [i \in I |-> [x \in D |-> IF c[x] = i THEN f[x] ELSE 0]]
<1>1. \A x \in D : \A i \in I : h[x][i] = t[i][x] /\ t[i][x] = IF c[x] = i THEN f[x] ELSE 0
  OBVIOUS
<1>2. (\A x \in D : Terms(h[x], I)) /\ (\A i \in I : Terms(t[i], D))
  BY DEF Terms
<1> HIDE DEF h, t
<1>3. ASSUME NEW x \in D PROVE f[x] = Total(h[x])
  <2> DEFINE i == c[x]
  <2>1. i \in I /\ {i} \in SUBSET I
    OBVIOUS
  <2>2. h[x][i] = f[x] /\ (\A j \in I \ {i} : h[x][j] = 0) /\ f[x] \in Int
    BY <1>1 DEF Terms
  <2> HIDE DEF i
  <2>3. Total(h[x]) = SumOver(h[x], {i})
    BY <1>2, <2>1, <2>2, SumZeros
  <2>5. SumOver(h[x], {i}) = h[x][i]
    BY <1>2, <2>1, SumOne
  <2> QED
    BY <2>2, <2>3, <2>5
<1>4. ASSUME NEW i \in I PROVE r[i] = Total(t[i])
  <2> DEFINE u == Fiber(c, i, D)
  <2>1. u \in SUBSET D /\ (\A x \in D \ u : t[i][x] = 0) /\ (\A x \in u : t[i][x] = f[x])
    BY <1>1 DEF Fiber
  <2>2. r[i] = SumOver(f, u)
    OBVIOUS
  <2> HIDE DEF u
  <2>3. Total(t[i]) = SumOver(t[i], u)
    BY <1>2, <2>1, SumZeros
  <2>4. SumOver(t[i], u) = SumOver(f, u)
    BY <2>1, SumSame
  <2> QED
    BY <2>2, <2>3, <2>4
<1>5. TotalsOf(f, h, D, I) /\ TotalsOf(r, t, I, D) /\ Transposed(h, t, D, I)
  BY <1>1, <1>2, <1>3, <1>4 DEF TotalsOf, Transposed
<1> QED
  BY <1>5, SumSwap

(* The sum of equal terms. *)
LEMMA SumConst ==
    ASSUME NEW D, NEW f, Terms(f, D), NEW k \in Int, \A x \in D : f[x] = k
    PROVE  Total(f) = k * Cardinality(D)
<1> DEFINE G == {s \in SUBSET D : SumOver(f, s) = k * Cardinality(s)}
<1>1. {} \in G
  BY SumParts, FS_EmptySet
<1>2. ASSUME NEW s \in G, NEW x \in D \ s PROVE s \cup {x} \in G
  <2>1. SumOver(f, s \cup {x}) = k + SumOver(f, s) /\ SumOver(f, s) = k * Cardinality(s)
    BY SumMore
  <2>2. Cardinality(s) \in Nat /\ Cardinality(s \cup {x}) = Cardinality(s) + 1
    BY FS_Subset, FS_CardinalityType, FS_AddElement DEF Terms
  <2>3. k * (Cardinality(s) + 1) = k + k * Cardinality(s)
    BY <2>2
  <2> QED
    BY <2>1, <2>2, <2>3
<1>3. D \in G
  <2>1. G \in SUBSET SUBSET D /\ IsFiniteSet(D)
    BY DEF Terms
  <2> HIDE DEF G
  <2> QED
    BY <1>1, <1>2, <2>1, SetInduction
<1> QED
  BY <1>3, SumParts

(* Greater terms have the greater sum. *)
LEMMA SumAtMost ==
    ASSUME NEW D, NEW f, NEW h, Terms(f, D), Terms(h, D), \A x \in D : f[x] <= h[x]
    PROVE  Total(f) <= Total(h)
<1> DEFINE G == {s \in SUBSET D : SumOver(f, s) <= SumOver(h, s)}
<1>1. {} \in G
  BY SumParts
<1>2. ASSUME NEW s \in G, NEW x \in D \ s PROVE s \cup {x} \in G
  <2>1. /\ SumOver(f, s \cup {x}) = f[x] + SumOver(f, s) /\ SumOver(f, s) \in Int
        /\ SumOver(h, s \cup {x}) = h[x] + SumOver(h, s) /\ SumOver(h, s) \in Int
        /\ f[x] \in Int /\ h[x] \in Int
    BY SumMore
  <2> QED
    BY <2>1
<1>3. D \in G
  <2>1. G \in SUBSET SUBSET D /\ IsFiniteSet(D)
    BY DEF Terms
  <2> HIDE DEF G
  <2> QED
    BY <1>1, <1>2, <2>1, SetInduction
<1> QED
  BY <1>3, SumParts

(* Counting by classes. *)
LEMMA CountFibers ==
    ASSUME NEW D, IsFiniteSet(D), NEW I, NEW r, Terms(r, I), NEW c \in [D -> I],
           \A i \in I : r[i] = Cardinality(Fiber(c, i, D))
    PROVE  Cardinality(D) = Total(r)
<1> DEFINE one == [x \in D |-> 1]
<1>1. Terms(one, D) /\ \A x \in D : one[x] = 1
  BY DEF Terms
<1> HIDE DEF one
<1>2. ASSUME NEW u \in SUBSET D PROVE SumOver(one, u) = Cardinality(u)
  <2> DEFINE f == [x \in u |-> one[x]]
  <2>1. IsFiniteSet(u) /\ Cardinality(u) \in Nat
    BY FS_Subset, FS_CardinalityType
  <2>2. Terms(f, u) /\ \A x \in u : f[x] = 1
    BY <1>1, <2>1 DEF Terms
  <2>3. SumOver(one, u) = Total(f)
    BY DEF SumOver
  <2> HIDE DEF f
  <2>4. Total(f) = 1 * Cardinality(u)
    BY <2>2, SumConst
  <2> QED
    BY <2>1, <2>3, <2>4
<1>3. \A i \in I : r[i] = SumOver(one, Fiber(c, i, D))
  <2>1. \A i \in I : Fiber(c, i, D) \in SUBSET D
    BY DEF Fiber
  <2> QED
    BY <1>2, <2>1
<1>4. Total(one) = Total(r)
  BY <1>1, <1>3, SumFibers
<1> QED
  BY <1>1, <1>2, <1>4, SumParts

(* Of finitely many integers, one is the greatest. *)
LEMMA GreatestOf ==
    ASSUME NEW D, NEW f, Terms(f, D), D # {}
    PROVE  \E x \in D : \A y \in D : f[y] <= f[x]
<1> DEFINE G == {s \in SUBSET D : s # {} => \E x \in s : \A y \in s : f[y] <= f[x]}
<1>1. {} \in G
  OBVIOUS
<1>2. ASSUME NEW s \in G, NEW x \in D \ s PROVE s \cup {x} \in G
  <2>1. CASE s = {}
    BY <2>1 DEF Terms
  <2>2. CASE s # {}
    <3>1. PICK z \in s : \A y \in s : f[y] <= f[z]
      BY <2>2
    <3>2. f[x] \in Int /\ \A y \in s : f[y] \in Int
      BY DEF Terms
    <3>3. CASE f[z] <= f[x]
      <4>1. \A y \in s \cup {x} : f[y] <= f[x]
        BY <3>1, <3>2, <3>3
      <4> QED
        BY <4>1
    <3>4. CASE ~(f[z] <= f[x])
      <4>1. \A y \in s \cup {x} : f[y] <= f[z]
        BY <3>1, <3>2, <3>4
      <4> QED
        BY <4>1
    <3> QED
      BY <3>3, <3>4
  <2> QED
    BY <2>1, <2>2
<1>3. D \in G
  <2>1. G \in SUBSET SUBSET D /\ IsFiniteSet(D)
    BY DEF Terms
  <2> HIDE DEF G
  <2> QED
    BY <1>1, <1>2, <2>1, SetInduction
<1> QED
  BY <1>3

(* Intervals that do not overlap are no longer together than what holds them. *)
LEMMA SumPacked ==
    ASSUME NEW D, NEW f, Terms(f, D), NEW a, Terms(a, D), NEW z, Terms(z, D),
           NEW lo \in Int, NEW hi \in Int, lo <= hi,
           \A x \in D : f[x] = z[x] - a[x] /\ lo <= a[x] /\ a[x] < z[x] /\ z[x] <= hi,
           \A x, y \in D : x # y => z[x] <= a[y] \/ z[y] <= a[x]
    PROVE  Total(f) <= hi - lo
<1> DEFINE Fits(s, k) == lo <= k /\ \A x \in s : z[x] <= k
           Bad == {s \in SUBSET D : \E k \in Int : Fits(s, k) /\ ~(SumOver(f, s) <= k - lo)}
<1>0. \A x \in D : a[x] \in Int /\ z[x] \in Int
  BY DEF Terms
<1>1. Bad = {}
  <2> SUFFICES ASSUME Bad # {} PROVE FALSE
    OBVIOUS
  <2>1. Bad \in SUBSET SUBSET D /\ IsFiniteSet(D)
    BY DEF Terms
  <2>2. PICK s \in Bad : \A u \in Bad : u \subseteq s => u = s
    <3> HIDE DEF Bad
    <3> QED
      BY <2>1, SmallestSet
  <2>3. PICK k \in Int : Fits(s, k) /\ ~(SumOver(f, s) <= k - lo)
    OBVIOUS
  <2>4. s # {}
    <3>1. ASSUME s = {} PROVE FALSE
      <4>1. SumOver(f, s) = 0
        BY <3>1, SumParts
      <4> QED
        BY <2>3, <4>1
    <3> QED
      BY <3>1
  <2>5. PICK x \in s : \A y \in s : a[y] <= a[x]
    <3> DEFINE as == [y \in s |-> a[y]]
    <3>1. Terms(as, s) /\ \A y \in s : as[y] = a[y]
      BY FS_Subset DEF Terms
    <3> HIDE DEF as, Bad
    <3>2. \E x \in s : \A y \in s : as[y] <= as[x]
      BY ONLY <2>4, <3>1, GreatestOf, Zenon
    <3> QED
      BY <3>1, <3>2
  <2> DEFINE u == s \ {x}
  <2>6. u \in SUBSET D /\ x \in D \ u /\ u \cup {x} = s /\ u # s
    OBVIOUS
  <2>7. ASSUME NEW y \in u PROVE z[y] <= a[x]
    <3>1. y \in D /\ x \in D /\ y # x /\ a[y] <= a[x] /\ a[x] < z[x]
      BY <2>5
    <3>2. a[x] \in Int /\ a[y] \in Int /\ z[x] \in Int
      BY <1>0, <3>1
    <3> QED
      BY <3>1, <3>2
  <2>8. a[x] \in Int /\ z[x] \in Int /\ f[x] = z[x] - a[x] /\ lo <= a[x] /\ z[x] <= k
    BY <1>0, <2>3
  <2>9. u \notin Bad
    BY <2>2, <2>6
  <2>10. SumOver(f, u) <= a[x] - lo
    BY <2>6, <2>7, <2>8, <2>9
  <2> HIDE DEF u, Bad, Fits
  <2>11. SumOver(f, u \cup {x}) = f[x] + SumOver(f, u) /\ SumOver(f, u) \in Int
    BY <2>6, SumMore
  <2>12. SumOver(f, s) = f[x] + SumOver(f, u)
    <3> DEFINE v == u \cup {x}
    <3>1. s = v /\ SumOver(f, v) = f[x] + SumOver(f, u)
      BY <2>6, <2>11
    <3> HIDE DEF v
    <3> QED
      BY <3>1
  <2> QED
    BY <2>3, <2>8, <2>10, <2>11, <2>12
<1>2. Fits(D, hi) /\ D \in SUBSET D /\ D \notin Bad
  BY <1>1
<1> QED
  BY <1>2, SumParts

-----------------------------------------------------------------------------
(* The table *)

(* What a row says, field by field. *)
LEMMA RowFields ==
    ASSUME NEW q \in Row \cup {NoRow}, q # NoRow
    PROVE  /\ q \in Row /\ q.user \in Users /\ q.point \in Points /\ q.box \in Nat
           /\ q.start \in Nat /\ q.end \in Nat /\ q.overflow \in BOOLEAN /\ q.status \in Status
  BY DEF Row

LEMMA NoRowStatus == NoRow.status = "none" /\ NoRow \notin Row /\ "none" \notin Status
  BY DEF NoRow, Row, Status

(* A booking's row as made from what was asked. *)
LEMMA NewRowFields ==
    ASSUME NEW a \in Asks
    PROVE  /\ NewRow(a) \in Row /\ NewRow(a) # NoRow
           /\ NewRow(a).start = a.start /\ NewRow(a).end = End(a) /\ a.start \in Nat
           /\ NewRow(a).start < NewRow(a).end /\ NewRow(a).point = a.point
           /\ NewRow(a).overflow = a.overflow /\ NewRow(a).status = "queue"
           /\ NewRow(a).box = IF a.overflow THEN 0 ELSE a.box
<1>1. /\ a.user \in Users /\ a.point \in Points /\ a.box \in Nat /\ a.start \in Nat
      /\ a.minutes \in Nat \ {0} /\ a.overflow \in BOOLEAN
  BY AskAssumption DEF AskType
<1>2. End(a) \in Nat /\ a.start < End(a)
  BY <1>1 DEF End
<1>3. NewRow(a) \in Row
  BY <1>1, <1>2 DEF NewRow, Row, Status
<1> QED
  BY <1>1, <1>2, <1>3, NoRowStatus DEF NewRow

(* A change of status changes little else. *)
LEMMA StatusFields ==
    ASSUME NEW q \in Row, NEW to \in Status
    PROVE  LET n == WithStatus(q, to)
           IN  /\ n \in Row /\ n.status = to /\ n.point = q.point /\ n.box = q.box
               /\ n.start = q.start /\ n.end = q.end /\ n.overflow = q.overflow /\ n.user = q.user
  BY DEF WithStatus, Row, Status

(***************************************************************************)
(* What a step does to the table.                                          *)
(***************************************************************************)
TableOK == queue \in [Ids -> Row \cup {NoRow}]

Inserts(o, a) ==
    /\ queue[o] = NoRow /\ ~CreateRefused(a)
    /\ queue' = [queue EXCEPT ![o] = NewRow(a)]
    /\ \A x \in Booked : queue[x].point = a.point => created_at[x] < clock
    /\ created_at' = [created_at EXCEPT ![o] = clock] /\ clock' = clock

(* A row becomes occupying only where no constraint refuses it. *)
Changes(o, to) ==
    /\ o \in Booked /\ queue' = [queue EXCEPT ![o] = WithStatus(queue[o], to)]
    /\ to \in OccupyingStatus => queue[o].status \in OccupyingStatus \/ ~UpdateRefused(o, to)
    /\ UNCHANGED <<created_at, clock>>

LEMMA StepForms ==
    ASSUME [Next]_vars, TableOK
    PROVE  \/ \E o \in Ids, a \in Asks : Inserts(o, a)
           \/ \E o \in Ids, to \in Status : Changes(o, to)
           \/ UNCHANGED <<queue, created_at>> /\ (clock' = clock \/ clock' = clock + 1)
<1>1. ASSUME NEW o \in Ids, NEW a \in Asks, NEW basket \in Baskets, Book(o, a, basket)
      PROVE  Inserts(o, a)
  <2>1. Ledger!Book(o, a)
    BY <1>1 DEF Book
  <2>2. queue[o] = NoRow /\ ~CreateRefused(a) /\ queue' = [queue EXCEPT ![o] = NewRow(a)]
    BY <2>1, LedgerIsTable DEF Ledger!Book
  <2> QED
    BY <1>1, <2>2 DEF Book, Inserts
<1>2. ASSUME NEW o \in Ids, NEW to \in Status, Ledger!Move(o, to), UNCHANGED <<created_at, clock>>
      PROVE  Changes(o, to)
  <2>1. /\ to \in staffStatusTransitions(queue[o].status)
        /\ to = "queue" => ~UpdateRefused(o, to)
        /\ queue' = [queue EXCEPT ![o] = WithStatus(queue[o], to)]
    BY <1>2, LedgerIsTable DEF Ledger!Move
  <2>2. /\ queue[o].status \in Status
        /\ to \in OccupyingStatus => to = "queue" \/ queue[o].status \in OccupyingStatus
    BY <2>1 DEF staffStatusTransitions, OccupyingStatus, Status
  <2>3. o \in Booked
    BY <2>2, NoRowStatus DEF Booked
  <2> QED
    BY <1>2, <2>1, <2>2, <2>3 DEF Changes
<1>3. ASSUME NEW o \in Ids, Ledger!Cancel(o), UNCHANGED <<created_at, clock>>
      PROVE  Changes(o, "canceled")
  <2>1. /\ queue[o].status \in {"queue", "waiting"}
        /\ queue' = [queue EXCEPT ![o] = WithStatus(queue[o], "canceled")]
    BY <1>3, LedgerIsTable DEF Ledger!Cancel
  <2>2. o \in Booked
    BY <2>1, NoRowStatus DEF Booked
  <2> QED
    BY <1>3, <2>1, <2>2 DEF Changes, OccupyingStatus
<1>4. ASSUME NEW o \in Ids, Move(o) PROVE \E to \in Status : Changes(o, to)
  <2>1. UNCHANGED <<created_at, clock>>
    BY <1>4 DEF Move
  <2>2. (\E to \in Status : Ledger!Move(o, to)) \/ Ledger!Cancel(o)
    BY <1>4 DEF Move
  <2>3. "canceled" \in Status
    BY DEF Status
  <2> QED
    BY <1>2, <1>3, <2>1, <2>2, <2>3
<1>5. Scan \/ Tick \/ UNCHANGED vars
      => UNCHANGED <<queue, created_at>> /\ (clock' = clock \/ clock' = clock + 1)
  BY DEF Scan, Tick, vars
<1> QED
  BY <1>1, <1>4, <1>5 DEF Next
(***************************************************************************)
(* The invariant: rows are rows and last, there are finitely many of them  *)
(* and their starts have a bound, no box is booked twice, and no two rows  *)
(* of a point were inserted at one time.                                   *)
(***************************************************************************)
RowsLast == \A o \in Booked : queue[o].start < queue[o].end

Finite ==
    /\ IsFiniteSet(Booked)
    /\ \E k \in Nat : \A o \in Booked : queue[o].start <= k

CreationOrder ==
    /\ clock \in Nat /\ created_at \in [Ids -> Nat]
    /\ \A o \in Booked : created_at[o] <= clock
    /\ \A o, x \in Booked :
        queue[o].point = queue[x].point /\ o # x => created_at[o] # created_at[x]

ViewsInv == TableOK /\ RowsLast /\ Finite /\ CreationOrder /\ NoDoubleBooking

(* What an insert and a change of status leave of the table. *)
LEMMA InsertsEffect ==
    ASSUME TableOK, NEW o \in Ids, NEW a \in Asks, Inserts(o, a)
    PROVE  /\ TableOK' /\ o \notin Booked /\ Booked' = Booked \cup {o}
           /\ queue'[o] = NewRow(a) /\ \A x \in Ids : x # o => queue'[x] = queue[x]
<1>1. TableOK' /\ queue'[o] = NewRow(a) /\ \A x \in Ids : x # o => queue'[x] = queue[x]
  BY NewRowFields DEF TableOK, Inserts
<1> QED
  BY <1>1, NewRowFields DEF Booked, Inserts

LEMMA ChangesEffect ==
    ASSUME TableOK, NEW o \in Ids, NEW to \in Status, Changes(o, to)
    PROVE  /\ TableOK' /\ Booked' = Booked
           /\ queue'[o] = WithStatus(queue[o], to) /\ queue'[o].status = to
           /\ \A x \in Ids : x # o => queue'[x] = queue[x]
           /\ \A x \in Booked : /\ queue'[x].point = queue[x].point /\ queue'[x].box = queue[x].box
                                /\ queue'[x].start = queue[x].start /\ queue'[x].end = queue[x].end
                                /\ queue'[x].overflow = queue[x].overflow
<1>1. queue[o] \in Row /\ queue[o] # NoRow
  BY RowFields DEF TableOK, Changes, Booked
<1>2. queue'[o] = WithStatus(queue[o], to) /\ \A x \in Ids : x # o => queue'[x] = queue[x]
  BY DEF TableOK, Changes
<1>3. queue'[o] \in Row /\ queue'[o] # NoRow
  BY <1>1, <1>2, StatusFields, NoRowStatus
<1>4. TableOK'
  BY <1>2, <1>3 DEF TableOK, Changes
<1>5. Booked' = Booked
  BY <1>1, <1>2, <1>3 DEF Booked
<1> QED
  BY <1>1, <1>2, <1>4, <1>5, StatusFields DEF Booked

(* Who holds a box has a row. *)
LEMMA HoldsBooked ==
    ASSUME NEW o \in Ids, queue[o].status \in OccupyingStatus \/ queue[o].status \in ActiveStatus
    PROVE  o \in Booked
  BY NoRowStatus DEF OccupyingStatus, ActiveStatus, Status, Booked

(* An empty table has all of it. *)
LEMMA InitViewsInv == Init => ViewsInv
<1> SUFFICES ASSUME Init PROVE ViewsInv
  OBVIOUS
<1>1. queue = [o \in Ids |-> NoRow]
  BY LedgerIsTable DEF Init, Ledger!Init
<1>2. Booked = {} /\ TableOK
  BY <1>1 DEF Booked, TableOK
<1>3. Finite
  BY <1>2, FS_EmptySet DEF Finite
<1>4. CreationOrder
  BY <1>2 DEF Init, CreationOrder
<1>5. NoDoubleBooking
  BY <1>2, HoldsBooked DEF NoDoubleBooking, HoldsBox
<1> QED
  BY <1>2, <1>3, <1>4, <1>5 DEF ViewsInv, RowsLast

(* What an inserted row keeps, whose time is later than its point's others. *)
LEMMA InsertsKeep ==
    ASSUME ViewsInv, NEW o \in Ids, NEW a \in Asks, Inserts(o, a)
    PROVE  ViewsInv'
<1> USE DEF ViewsInv
<1>1. /\ TableOK' /\ o \notin Booked /\ Booked' = Booked \cup {o}
      /\ queue'[o] = NewRow(a) /\ \A x \in Ids : x # o => queue'[x] = queue[x]
  BY InsertsEffect
<1>2. \A x \in Booked : x \in Ids /\ x # o /\ queue'[x] = queue[x]
  BY <1>1 DEF Booked
<1>3. RowsLast'
  BY <1>1, <1>2, NewRowFields DEF RowsLast
<1>4. Finite'
  <2>1. IsFiniteSet(Booked')
    BY <1>1, FS_AddElement DEF Finite
  <2>2. PICK k \in Nat : \A x \in Booked : queue[x].start <= k
    BY DEF Finite
  <2>3. \A x \in Booked : queue[x].start \in Nat
    BY RowFields DEF TableOK, Booked
  <2> DEFINE m == IF a.start <= k THEN k ELSE a.start
  <2>4. queue'[o].start = a.start /\ a.start \in Nat
    BY <1>1, NewRowFields
  <2>5. m \in Nat /\ a.start <= m /\ k <= m
    BY <2>4
  <2> HIDE DEF m
  <2>6. \A x \in Booked' : queue'[x].start <= m
    BY <1>1, <1>2, <2>2, <2>3, <2>4, <2>5
  <2> QED
    BY <2>1, <2>5, <2>6 DEF Finite
<1>5. CreationOrder'
  <2>1. /\ created_at' = [created_at EXCEPT ![o] = clock] /\ clock' = clock
        /\ \A x \in Booked : queue[x].point = a.point => created_at[x] < clock
    BY DEF Inserts
  <2>2. /\ clock' \in Nat /\ created_at' \in [Ids -> Nat] /\ created_at'[o] = clock
        /\ \A x \in Booked : created_at'[x] = created_at[x]
    BY <1>2, <2>1 DEF CreationOrder
  <2>3. queue'[o].point = a.point
    BY <1>1, NewRowFields
  <2>4. \A x \in Booked' : created_at'[x] <= clock'
    BY <1>1, <2>1, <2>2 DEF CreationOrder
  <2>5. \A x \in Booked : created_at[x] \in Nat /\ clock \in Nat
    BY <1>2 DEF CreationOrder
  <2>6. \A x \in Booked : queue'[x].point = queue'[o].point => created_at'[x] # created_at'[o]
    BY <1>2, <2>1, <2>2, <2>3, <2>5
  <2>7. \A y, x \in Booked' :
            queue'[y].point = queue'[x].point /\ y # x => created_at'[y] # created_at'[x]
    BY <1>1, <1>2, <2>2, <2>6 DEF CreationOrder
  <2> QED
    BY <2>2, <2>4, <2>7 DEF CreationOrder
<1>6. NoDoubleBooking'
  <2>1. ASSUME NEW i \in Ids, i # o, HoldsBox(i)', HoldsBox(o)',
               queue'[i].point = queue'[o].point, queue'[i].box = queue'[o].box
        PROVE  ~Overlap(queue'[i].start, queue'[i].end, queue'[o].start, queue'[o].end)
    <3>1. queue'[i] = queue[i] /\ HoldsBox(i)
      BY <1>1, <2>1 DEF HoldsBox
    <3>2. ~a.overflow /\ queue'[o].box = a.box /\ queue'[o].point = a.point
          /\ queue'[o].start = a.start /\ queue'[o].end = End(a)
      BY <1>1, <2>1, NewRowFields DEF HoldsBox
    <3>3. ~BoxTaken(Ids, a.point, a.box, a.start, End(a))
      BY <3>2 DEF Inserts, CreateRefused
    <3> QED
      BY <2>1, <3>1, <3>2, <3>3 DEF BoxTaken
  <2>2. \A i \in Ids : i # o => (HoldsBox(i)' <=> HoldsBox(i))
    BY <1>1 DEF HoldsBox
  <2>3. \A i, j \in Ids :
            Overlap(queue'[i].start, queue'[i].end, queue'[j].start, queue'[j].end)
            <=> Overlap(queue'[j].start, queue'[j].end, queue'[i].start, queue'[i].end)
    BY DEF Overlap
  <2> QED
    BY <1>1, <2>1, <2>2, <2>3 DEF NoDoubleBooking
<1> QED
  BY <1>1, <1>3, <1>4, <1>5, <1>6

(* What a change of status keeps, which a constraint refuses to overlap. *)
LEMMA ChangesKeep ==
    ASSUME ViewsInv, NEW o \in Ids, NEW to \in Status, Changes(o, to)
    PROVE  ViewsInv'
<1> USE DEF ViewsInv
<1>1. /\ TableOK' /\ Booked' = Booked /\ queue'[o].status = to
      /\ \A x \in Ids : x # o => queue'[x] = queue[x]
      /\ \A x \in Booked : /\ queue'[x].point = queue[x].point /\ queue'[x].box = queue[x].box
                           /\ queue'[x].start = queue[x].start /\ queue'[x].end = queue[x].end
                           /\ queue'[x].overflow = queue[x].overflow
  BY ChangesEffect
<1>2. o \in Booked /\ UNCHANGED <<created_at, clock>>
      /\ (to \in OccupyingStatus => queue[o].status \in OccupyingStatus \/ ~UpdateRefused(o, to))
  BY DEF Changes
<1>3. RowsLast' /\ Finite'
  BY <1>1 DEF RowsLast, Finite
<1>4. CreationOrder'
  BY <1>1, <1>2 DEF CreationOrder
<1>5. NoDoubleBooking'
  <2>1. \A i \in Ids : i # o => (HoldsBox(i)' <=> HoldsBox(i))
    BY <1>1 DEF HoldsBox
  <2>2. \A i \in Ids : HoldsBox(i)' => i \in Booked
    BY <1>1, <1>2, HoldsBooked DEF HoldsBox
  <2>3. HoldsBox(o)' => ~queue[o].overflow /\ to \in OccupyingStatus
    BY <1>1, <1>2 DEF HoldsBox
  <2>4. HoldsBox(o)' =>
            \/ HoldsBox(o)
            \/ ~BoxTaken(Ids \ {o}, queue[o].point, queue[o].box, queue[o].start, queue[o].end)
    BY <1>2, <2>3 DEF UpdateRefused, HoldsBox
  <2>5. ASSUME NEW i \in Ids, i # o, HoldsBox(i)', HoldsBox(o)',
               queue'[i].point = queue'[o].point, queue'[i].box = queue'[o].box
        PROVE  ~Overlap(queue'[i].start, queue'[i].end, queue'[o].start, queue'[o].end)
    <3>1. queue'[i] = queue[i] /\ HoldsBox(i)
      BY <1>1, <2>1, <2>5
    <3>2. CASE HoldsBox(o)
      BY <1>1, <1>2, <2>5, <3>1, <3>2 DEF NoDoubleBooking
    <3>3. CASE ~HoldsBox(o)
      BY <1>1, <1>2, <2>4, <2>5, <3>1, <3>3 DEF BoxTaken
    <3> QED
      BY <3>2, <3>3
  <2>6. \A i, j \in Ids :
            Overlap(queue'[i].start, queue'[i].end, queue'[j].start, queue'[j].end)
            <=> Overlap(queue'[j].start, queue'[j].end, queue'[i].start, queue'[i].end)
    BY DEF Overlap
  <2>7. ASSUME NEW i \in Ids, NEW j \in Ids, i # o, j # o, i # j, HoldsBox(i)', HoldsBox(j)',
               queue'[i].point = queue'[j].point, queue'[i].box = queue'[j].box
        PROVE  ~Overlap(queue'[i].start, queue'[i].end, queue'[j].start, queue'[j].end)
    BY <1>1, <2>1, <2>7 DEF NoDoubleBooking
  <2> QED
    BY <2>5, <2>6, <2>7 DEF NoDoubleBooking
<1> QED
  BY <1>1, <1>3, <1>4, <1>5

(* Where the table is left alone, time may pass. *)
LEMMA ViewsStep ==
    ASSUME ViewsInv, [Next]_vars
    PROVE  ViewsInv'
<1>1. CASE UNCHANGED <<queue, created_at>> /\ (clock' = clock \/ clock' = clock + 1)
  <2>1. Booked' = Booked /\ TableOK' /\ RowsLast' /\ Finite' /\ NoDoubleBooking'
    BY <1>1 DEF ViewsInv, Booked, TableOK, RowsLast, Finite, NoDoubleBooking, HoldsBox
  <2>2. \A x \in Booked : created_at[x] \in Nat
    BY DEF ViewsInv, CreationOrder, Booked
  <2>3. CreationOrder'
    BY <1>1, <2>1, <2>2 DEF ViewsInv, CreationOrder
  <2> QED
    BY <2>1, <2>3 DEF ViewsInv
<1> QED
  BY <1>1, StepForms, InsertsKeep, ChangesKeep DEF ViewsInv

(* Every committed state of the table has the invariant. *)
THEOREM ViewsInvariance == Spec => []ViewsInv
<1>1. ViewsInv /\ [Next]_vars => ViewsInv'
  BY ViewsStep
<1> QED
  BY <1>1, InitViewsInv, PTL DEF Spec

-----------------------------------------------------------------------------
(* Tickets *)

(* A time lies inside its day. *)
LEMMA InsideItsDay ==
    ASSUME NEW t \in Nat
    PROVE  dayStart(t) \in Nat /\ dayStart(t) <= t /\ t < dayStart(t) + Day
<1>1. Day \in Nat /\ Day > 0
  BY ViewsAssumption
<1>2. t \div Day \in Nat /\ t % Day \in 0 .. (Day - 1) /\ t = Day * (t \div Day) + (t % Day)
  BY <1>1
<1> QED
  BY <1>1, <1>2 DEF dayStart

(* The bookings a ticket's number counts. *)
Earlier(o) ==
    LET day == dayStart(queue[o].start)
    IN  {x \in FindByWashingPointAndRange(queue[o].point, day, day + Day) :
            queue[x].box = queue[o].box /\ CreatedBefore(x, o)}

LEMMA TicketCounts ==
    ASSUME NEW o
    PROVE  Ticket(o) = <<ticketPrefix(queue[o].box), 11 + Cardinality(Earlier(o))>>
  BY DEF Ticket, Earlier, ticketNumberBase

(* No step adds a booking before another, or takes one away. *)
LEMMA EarlierStays ==
    ASSUME ViewsInv, [Next]_vars, NEW o \in Booked
    PROVE  Earlier(o)' = Earlier(o) /\ queue'[o].box = queue[o].box
<1> USE DEF ViewsInv
<1>1. ASSUME o \in Booked', queue'[o].start = queue[o].start, queue'[o].point = queue[o].point,
             queue'[o].box = queue[o].box, created_at'[o] = created_at[o],
             \A x \in Booked : /\ x \in Booked' /\ queue'[x].start = queue[x].start
                               /\ queue'[x].point = queue[x].point /\ queue'[x].box = queue[x].box
                               /\ created_at'[x] = created_at[x],
             \A x \in Booked' \ Booked : queue'[x].point = queue[o].point => ~CreatedBefore(x, o)'
      PROVE  Earlier(o)' = Earlier(o)
  <2>1. \A x : x \in Earlier(o) <=>
            /\ x \in Booked /\ queue[x].point = queue[o].point
            /\ dayStart(queue[o].start) <= queue[x].start
            /\ queue[x].start < dayStart(queue[o].start) + Day
            /\ queue[x].box = queue[o].box /\ created_at[x] < created_at[o]
    BY DEF Earlier, FindByWashingPointAndRange, CreatedBefore
  <2>2. \A x : x \in Earlier(o)' <=>
            /\ x \in Booked' /\ queue'[x].point = queue'[o].point
            /\ dayStart(queue'[o].start) <= queue'[x].start
            /\ queue'[x].start < dayStart(queue'[o].start) + Day
            /\ queue'[x].box = queue'[o].box /\ created_at'[x] < created_at'[o]
    BY DEF Earlier, FindByWashingPointAndRange, CreatedBefore, dayStart
  <2>3. \A x \in Booked' \ Booked :
            queue'[x].point = queue[o].point => ~(created_at'[x] < created_at'[o])
    BY <1>1 DEF CreatedBefore
  <2>4. \A x : x \in Earlier(o) <=> x \in Earlier(o)'
    BY <1>1, <2>1, <2>2, <2>3
  <2> QED
    BY <2>4 DEF Earlier, FindByWashingPointAndRange
<1>2. ASSUME NEW n \in Ids, NEW a \in Asks, Inserts(n, a)
      PROVE  Earlier(o)' = Earlier(o) /\ queue'[o].box = queue[o].box
  <2>1. /\ n \notin Booked /\ Booked' = Booked \cup {n} /\ queue'[n].point = a.point
        /\ \A x \in Ids : x # n => queue'[x] = queue[x]
    BY <1>2, InsertsEffect, NewRowFields
  <2>2. /\ created_at' = [created_at EXCEPT ![n] = clock]
        /\ \A x \in Booked : queue[x].point = a.point => created_at[x] < clock
    BY <1>2 DEF Inserts
  <2>3. /\ created_at'[n] = clock /\ clock \in Nat
        /\ \A x \in Booked : /\ x \in Ids /\ x # n
                             /\ created_at'[x] = created_at[x] /\ created_at[x] \in Nat
    BY <2>1, <2>2 DEF CreationOrder, Booked
  <2>4. queue[o].point = a.point => ~(created_at'[n] < created_at'[o])
    BY <2>2, <2>3
  <2>5. \A x \in Booked' \ Booked : queue'[x].point = queue[o].point => ~CreatedBefore(x, o)'
    BY <2>1, <2>4 DEF CreatedBefore
  <2>6. \A x \in Booked : x \in Booked' /\ queue'[x] = queue[x] /\ created_at'[x] = created_at[x]
    BY <2>1, <2>3
  <2> QED
    BY <1>1, <2>5, <2>6
<1>3. ASSUME NEW c \in Ids, NEW to \in Status, Changes(c, to)
      PROVE  Earlier(o)' = Earlier(o) /\ queue'[o].box = queue[o].box
  <2>1. /\ Booked' = Booked
        /\ \A x \in Booked : /\ queue'[x].point = queue[x].point /\ queue'[x].box = queue[x].box
                             /\ queue'[x].start = queue[x].start
    BY <1>3, ChangesEffect
  <2>2. created_at' = created_at
    BY <1>3 DEF Changes
  <2> QED
    BY <1>1, <2>1, <2>2
<1>4. CASE UNCHANGED <<queue, created_at>>
  <2>1. Booked' = Booked
    BY <1>4 DEF Booked
  <2> QED
    BY <1>1, <1>4, <2>1
<1> QED
  BY <1>2, <1>3, <1>4, StepForms

(* Of two bookings of a box and a day, the later made has the larger count. *)
LEMMA LaterCountsMore ==
    ASSUME ViewsInv, NEW o \in Booked, NEW x \in Booked,
           queue[x].point = queue[o].point, queue[x].box = queue[o].box,
           dayStart(queue[x].start) = dayStart(queue[o].start),
           created_at[x] < created_at[o]
    PROVE  /\ Cardinality(Earlier(x)) \in Nat /\ Cardinality(Earlier(o)) \in Nat
           /\ Cardinality(Earlier(x)) < Cardinality(Earlier(o))
<1> USE DEF ViewsInv
<1>1. queue[x].start \in Nat /\ queue[o].start \in Nat
  BY RowFields DEF TableOK, Booked
<1>2. \A y \in Booked : created_at[y] \in Nat
  BY DEF CreationOrder, Booked
<1>3. x \in Earlier(o)
  BY <1>1, InsideItsDay DEF Earlier, FindByWashingPointAndRange, CreatedBefore
<1>4. x \notin Earlier(x)
  BY <1>2 DEF Earlier, CreatedBefore
<1>5. Earlier(x) \subseteq Earlier(o)
  BY <1>2 DEF Earlier, FindByWashingPointAndRange, CreatedBefore
<1>6. Earlier(o) \subseteq Booked
  BY DEF Earlier, FindByWashingPointAndRange
<1>7. IsFiniteSet(Earlier(o))
  BY <1>6, FS_Subset DEF Finite
<1>8. /\ IsFiniteSet(Earlier(x)) /\ Cardinality(Earlier(x)) <= Cardinality(Earlier(o))
      /\ Cardinality(Earlier(x)) # Cardinality(Earlier(o))
  BY <1>3, <1>4, <1>5, <1>7, FS_Subset
<1>9. Cardinality(Earlier(x)) \in Nat /\ Cardinality(Earlier(o)) \in Nat
  BY <1>7, <1>8, FS_CardinalityType
<1> QED
  BY <1>8, <1>9

(* Two bookings of a day have two tickets, but for boxes with one letter. *)
LEMMA TicketsDiffer ==
    ASSUME ViewsInv, NEW o \in Booked, NEW x \in Booked, x # o,
           queue[x].point = queue[o].point,
           dayStart(queue[x].start) = dayStart(queue[o].start), ~ShareLetter(x, o)
    PROVE  Ticket(x) # Ticket(o)
<1> DEFINE n(y) == Cardinality(Earlier(y))
<1>1. /\ Ticket(x) = <<ticketPrefix(queue[x].box), 11 + n(x)>>
      /\ Ticket(o) = <<ticketPrefix(queue[o].box), 11 + n(o)>>
  BY TicketCounts
<1>2. CASE ticketPrefix(queue[x].box) # ticketPrefix(queue[o].box)
  BY <1>1, <1>2
<1>3. CASE ticketPrefix(queue[x].box) = ticketPrefix(queue[o].box)
  <2>1. queue[x].box = queue[o].box
    BY <1>3 DEF ShareLetter
  <2>2. created_at[x] \in Nat /\ created_at[o] \in Nat /\ created_at[x] # created_at[o]
    BY DEF ViewsInv, CreationOrder, Booked
  <2>3. n(x) \in Nat /\ n(o) \in Nat /\ n(x) # n(o)
    <3>1. CASE created_at[x] < created_at[o]
      BY <2>1, <3>1, LaterCountsMore
    <3>2. CASE created_at[o] < created_at[x]
      BY <2>1, <3>2, LaterCountsMore
    <3> QED
      BY <2>2, <3>1, <3>2
  <2>4. 11 + n(x) # 11 + n(o)
    BY <2>3
  <2> QED
    BY <1>1, <2>4
<1> QED
  BY <1>2, <1>3

(***************************************************************************)
(* A booking keeps its ticket, whatever happens to the others of its day,  *)
(* and shares it with no booking under another letter or in its own box.   *)
(***************************************************************************)
THEOREM TicketSafety == Spec => TicketsStable
<1>1. ASSUME ViewsInv, [Next]_vars, NEW o \in Booked PROVE Ticket(o)' = Ticket(o)
  <2>1. Earlier(o)' = Earlier(o) /\ queue'[o].box = queue[o].box
    BY <1>1, EarlierStays
  <2>2. Ticket(o)' = <<ticketPrefix(queue'[o].box), 11 + Cardinality(Earlier(o)')>>
    BY DEF Ticket, Earlier, ticketNumberBase, ticketPrefix
  <2> QED
    BY <2>1, <2>2, TicketCounts
<1>2. ViewsInv /\ [Next]_vars
      => [\A o \in Booked :
            /\ Ticket(o)' = Ticket(o)
            /\ \A x \in Booked \ {o} :
                /\ queue[x].point = queue[o].point
                /\ dayStart(queue[x].start) = dayStart(queue[o].start)
                /\ ~ShareLetter(x, o)
                => Ticket(x) # Ticket(o)]_vars
  BY <1>1, TicketsDiffer
<1> QED
  BY <1>2, ViewsInvariance, PTL DEF Spec, TicketsStable

-----------------------------------------------------------------------------
(* Out-of-queue bookings *)

(* A row that changes and is out of queue was nobody's, or out of queue;   *)
(* no other row changes with it.                                           *)
LEMMA OverflowStep ==
    ASSUME ViewsInv, [Next]_vars, NEW o \in Ids, queue'[o] # queue[o], queue'[o].overflow
    PROVE  /\ \A x \in Ids : x # o => queue'[x] = queue[x]
           /\ o \in Booked => queue[o].overflow
<1> USE DEF ViewsInv
<1>1. ASSUME NEW n \in Ids, NEW a \in Asks, Inserts(n, a)
      PROVE  /\ \A x \in Ids : x # o => queue'[x] = queue[x]
             /\ o \in Booked => queue[o].overflow
  BY <1>1, InsertsEffect
<1>2. ASSUME NEW n \in Ids, NEW to \in Status, Changes(n, to)
      PROVE  /\ \A x \in Ids : x # o => queue'[x] = queue[x]
             /\ o \in Booked => queue[o].overflow
  BY <1>2, ChangesEffect
<1> QED
  BY <1>1, <1>2, StepForms

(* So all that is read for customers, without the row, is as it was. *)
LEMMA OverflowUnseen ==
    ASSUME NEW o \in Ids, queue'[o].overflow,
           \A x \in Ids : x # o => queue'[x] = queue[x],
           o \in Booked => queue[o].overflow,
           NEW p
    PROVE  CustomersSee(p)' = CustomersSee(p)
<1>1. \A x \in Ids : /\ HoldsBox(x)' <=> HoldsBox(x)
                     /\ HoldsBox(x) => queue'[x] = queue[x]
  BY HoldsBooked DEF HoldsBox
<1>2. \A x \in Ids : LET shown(q) == q.status \in ActiveStatus /\ ~q.overflow
                     IN  /\ shown(queue'[x]) <=> shown(queue[x])
                         /\ shown(queue[x]) => queue'[x] = queue[x]
  BY HoldsBooked
<1>3. \A from, to : FindActiveBookingsInRange(p, from, to)' = FindActiveBookingsInRange(p, from, to)
  BY <1>1 DEF FindActiveBookingsInRange
<1>4. \A t : CountActiveAhead(p, t)' = CountActiveAhead(p, t)
  <2> SUFFICES ASSUME NEW t PROVE CountActiveAhead(p, t)' = CountActiveAhead(p, t)
    OBVIOUS
  <2> DEFINE S == {x \in Live : /\ queue[x].point = p /\ ~queue[x].overflow /\ queue[x].start < t}
  <2>1. \A x : x \in S' <=> x \in S
    BY <1>2 DEF Live
  <2>2. S' = S
    BY <2>1
  <2> QED
    BY <2>2 DEF CountActiveAhead
<1>5. ListLive(p)' = ListLive(p) /\ \A x \in ListLive(p) : queue'[x] = queue[x]
  BY <1>2 DEF ListLive, Live
<1>6. \A t : /\ ListLiveByWashingPointAndDate(p, t)' = ListLiveByWashingPointAndDate(p, t)
             /\ \A x \in ListLiveByWashingPointAndDate(p, t) : queue'[x] = queue[x]
  <2>1. \A x \in Live : x \in Booked
    BY HoldsBooked DEF Live
  <2>2. \A x \in Live' : x \in Booked'
    BY NoRowStatus DEF Live, Booked, ActiveStatus
  <2>3. \A t, x : x \in ListLiveByWashingPointAndDate(p, t)
          <=> /\ x \in ListLive(p)
              /\ dayStart(t) <= queue[x].start /\ queue[x].start < dayStart(t) + Day
    BY <2>1 DEF ListLiveByWashingPointAndDate, FindByWashingPointAndRange, ListLive
  <2>4. \A t, x : x \in ListLiveByWashingPointAndDate(p, t)'
          <=> /\ x \in ListLive(p)'
              /\ dayStart(t) <= queue'[x].start /\ queue'[x].start < dayStart(t) + Day
    BY <2>2 DEF ListLiveByWashingPointAndDate, FindByWashingPointAndRange, ListLive, dayStart
  <2>5. \A t, x : x \in ListLiveByWashingPointAndDate(p, t)'
                  <=> x \in ListLiveByWashingPointAndDate(p, t)
    BY <1>5, <2>3, <2>4
  <2> QED
    BY <1>5, <2>3, <2>5
<1>7. \A b : /\ currentByBox(ListLive(p), b)' = currentByBox(ListLive(p), b)
             /\ nextByBox(ListLive(p), b)' = nextByBox(ListLive(p), b)
  BY <1>5 DEF currentByBox, nextByBox
<1>8. \A t, b : currentByBox(ListLiveByWashingPointAndDate(p, t), b)'
                  = currentByBox(ListLiveByWashingPointAndDate(p, t), b)
  BY <1>6 DEF currentByBox
<1>9. toLiveBoxItems(p, Boxes)' = toLiveBoxItems(p, Boxes)
  BY <1>7 DEF toLiveBoxItems, Boxes
<1>10. \A t : buildBoardResponse(p, t, Boxes)' = buildBoardResponse(p, t, Boxes)
  <2>1. \A t : LET rows == ListLiveByWashingPointAndDate(p, t)
               IN  {x \in rows : queue[x].status # "washing"}'
                     = {x \in rows : queue[x].status # "washing"}
    BY <1>6
  <2> QED
    BY <1>8, <2>1 DEF buildBoardResponse, Boxes
<1> QED
  BY <1>3, <1>4, <1>9, <1>10 DEF CustomersSee, Starts

(***************************************************************************)
(* What customers see takes no notice of out-of-queue bookings, at any     *)
(* time it may be asked for and whatever becomes of them.                  *)
(***************************************************************************)
THEOREM OverflowSafety == Spec => OverflowInvisible
<1>1. ViewsInv /\ [Next]_vars
      => [\A o \in Ids :
            queue'[o] # queue[o] /\ queue'[o].overflow
            => \A p \in Points : CustomersSee(p)' = CustomersSee(p)]_vars
  BY OverflowStep, OverflowUnseen
<1> QED
  BY <1>1, ViewsInvariance, PTL DEF Spec, OverflowInvisible

-----------------------------------------------------------------------------
(* The lobby board and the live boxes *)

(* What a live booking outside overflow is. *)
LEMMA LiveFields ==
    ASSUME ViewsInv, NEW p, NEW o \in ListLive(p)
    PROVE  /\ o \in Ids /\ o \in Booked /\ HoldsBox(o) /\ queue[o].point = p
           /\ queue[o].start \in Nat /\ queue[o].start < queue[o].end
<1>1. o \in Ids /\ queue[o].status \in ActiveStatus /\ queue[o].point = p /\ ~queue[o].overflow
  BY DEF ListLive, Live
<1>2. o \in Booked
  BY <1>1, HoldsBooked
<1>3. HoldsBox(o)
  BY <1>1 DEF HoldsBox, ActiveStatus, OccupyingStatus, Status
<1> QED
  BY <1>1, <1>2, <1>3, RowFields DEF ViewsInv, TableOK, RowsLast, Booked

(* Two live bookings of a box do not start together. *)
LEMMA OneAtATime ==
    ASSUME ViewsInv, NEW p, NEW x \in ListLive(p), NEW y \in ListLive(p),
           queue[x].box = queue[y].box, queue[x].start = queue[y].start
    PROVE  x = y
<1>1. /\ x \in Ids /\ HoldsBox(x) /\ queue[x].point = p /\ queue[x].start < queue[x].end
      /\ y \in Ids /\ HoldsBox(y) /\ queue[y].point = p /\ queue[y].start < queue[y].end
  BY LiveFields
<1>2. Overlap(queue[x].start, queue[x].end, queue[y].start, queue[y].end)
  BY <1>1 DEF Overlap
<1> QED
  BY <1>1, <1>2 DEF ViewsInv, NoDoubleBooking

LEMMA AtMostOne ==
    ASSUME NEW S, \A x, y \in S : x = y
    PROVE  Cardinality(S) <= 1
<1>1. CASE S = {}
  BY <1>1, FS_EmptySet
<1>2. CASE S # {}
  <2>1. PICK x \in S : S = {x}
    BY <1>2
  <2>2. Cardinality({x}) = 1
    BY FS_Singleton
  <2>3. Cardinality(S) = 1
    BY <2>1, <2>2
  <2> QED
    BY <2>3
<1> QED
  BY <1>1, <1>2

(* A box shows one wash, the last to have started, and one to come. *)
LEMMA BoxShowsOne ==
    ASSUME ViewsInv, NEW p, NEW b, NEW rows \in SUBSET ListLive(p)
    PROVE  /\ Cardinality(currentByBox(rows, b)) <= 1
           /\ Cardinality(nextByBox(rows, b)) <= 1
<1>1. \A x \in rows : queue[x].start \in Nat
  BY LiveFields
<1>2. \A x, y \in currentByBox(rows, b) : x = y
  BY <1>1, OneAtATime DEF currentByBox
<1>3. \A x, y \in nextByBox(rows, b) : x = y
  BY <1>1, OneAtATime DEF nextByBox
<1> QED
  BY <1>2, <1>3, AtMostOne

(* A box without a wash to show has none, and shows its earliest booking. *)
LEMMA ShowsEarliest ==
    ASSUME ViewsInv, NEW p, NEW o \in ListLive(p), currentByBox(ListLive(p), queue[o].box) = {}
    PROVE  \E x \in nextByBox(ListLive(p), queue[o].box) : queue[x].start <= queue[o].start
<1> DEFINE b == queue[o].box
           washing == {x \in ListLive(p) : queue[x].status = "washing" /\ queue[x].box = b}
           others  == {x \in ListLive(p) : queue[x].status # "washing" /\ queue[x].box = b}
<1>1. \A x \in ListLive(p) : queue[x].start \in Nat /\ x \in Booked
  BY LiveFields
<1>2. washing = {}
  <2> SUFFICES ASSUME washing # {} PROVE FALSE
    OBVIOUS
  <2> DEFINE T == {queue[x].start : x \in washing}
  <2>1. T \in SUBSET Nat /\ T # {}
    BY <1>1
  <2>2. PICK k \in Nat : \A x \in T : x <= k
    BY <1>1 DEF ViewsInv, Finite
  <2> HIDE DEF T
  <2>3. PICK t \in T : \A u \in T : u <= t
    BY <2>1, <2>2, GreatestExists
  <2>4. PICK x \in washing : queue[x].start = t
    BY <2>3 DEF T
  <2>5. \A y \in washing : queue[y].start <= queue[x].start
    BY <2>3, <2>4 DEF T
  <2>6. x \in currentByBox(ListLive(p), b)
    BY <2>4, <2>5 DEF currentByBox
  <2> QED
    BY <2>6
<1>3. o \in others
  BY <1>2
<1> DEFINE T == {queue[x].start : x \in others}
<1>4. T \in SUBSET Nat /\ T # {}
  BY <1>1, <1>3
<1> HIDE DEF T
<1>5. PICK t \in T : \A u \in T : t <= u
  BY <1>4, LeastExists
<1>6. PICK x \in others : queue[x].start = t
  BY <1>5 DEF T
<1>7. \A y \in others : queue[x].start <= queue[y].start
  BY <1>5, <1>6 DEF T
<1>8. x \in nextByBox(ListLive(p), b)
  BY <1>6, <1>7 DEF nextByBox
<1> QED
  BY <1>3, <1>7, <1>8

(* Multiples of a positive number, in order. *)
LEMMA Products ==
    ASSUME NEW d \in Nat \ {0}, NEW a \in Int, NEW b \in Int
    PROVE  /\ d * a \in Int /\ d * (a + b) = d * a + d * b /\ d * (a - b) = d * a - d * b
           /\ a < b => d * a + d <= d * b
           /\ a <= b <=> d * a <= d * b
<1>1. d * a \in Int /\ d * b \in Int /\ d * (a + b) = d * a + d * b /\ d * (a - b) = d * a - d * b
  OBVIOUS
<1>2. ASSUME a < b PROVE d * a + d <= d * b
  <2>1. b - a - 1 \in Nat /\ d * (b - a - 1) >= 0
    BY <1>2
  <2>2. d * (b - a - 1) = d * b - d * a - d
    BY <1>2
  <2> QED
    BY <1>1, <2>1, <2>2
<1>3. ASSUME b < a PROVE d * b + d <= d * a
  <2>1. a - b - 1 \in Nat /\ d * (a - b - 1) >= 0
    BY <1>3
  <2>2. d * (a - b - 1) = d * a - d * b - d
    BY <1>3
  <2> QED
    BY <1>1, <2>1, <2>2
<1> QED
  BY <1>1, <1>2, <1>3

(* What division gives, and the only number to be between its bounds. *)
LEMMA Division ==
    ASSUME NEW d \in Nat \ {0}, NEW x \in Int
    PROVE  /\ x \div d \in Int
           /\ d * (x \div d) <= x /\ x < d * (x \div d) + d
           /\ x % d = x - d * (x \div d)
           /\ \A m \in Int : d * m <= x /\ x < d * m + d => x \div d = m
<1>1. x \div d \in Int /\ x = d * (x \div d) + (x % d) /\ x % d \in 0 .. (d - 1)
  OBVIOUS
<1>2. ASSUME NEW m \in Int, d * m <= x, x < d * m + d PROVE x \div d = m
  <2> DEFINE k == x \div d
  <2>1. k \in Int /\ d * k <= x /\ x < d * k + d /\ d * k \in Int /\ d * m \in Int
    BY <1>1
  <2> HIDE DEF k
  <2>2. ~(k < m)
    BY <1>2, <2>1, Products
  <2>3. ~(m < k)
    BY <1>2, <2>1, Products
  <2> QED
    BY <2>1, <2>2, <2>3
<1> QED
  BY <1>1, <1>2

(* What starts between two midnights has that day. *)
LEMMA DayOfRow ==
    ASSUME NEW s \in Nat, NEW t \in Moments, dayStart(t) <= s, s < dayStart(t) + Day
    PROVE  dayStart(s) = dayStart(t)
<1>1. t \in Nat /\ Day \in Nat \ {0}
  BY ViewsAssumption
<1>2. s \div Day \in Int /\ t \div Day \in Int
  BY <1>1
<1> DEFINE k == t \div Day
<1>3. k \in Int /\ Day * k <= s /\ s < Day * k + Day
  BY <1>2 DEF dayStart
<1> HIDE DEF k
<1>4. s \div Day = k
  <2>1. s \in Int
    OBVIOUS
  <2>2. \A m \in Int : Day * m <= s /\ s < Day * m + Day => s \div Day = m
    BY <1>1, <2>1, Division
  <2>. QED
    BY <1>3, <2>2
<1>. QED
  BY <1>4 DEF dayStart, k

(* A live booking of the day is on the board, or behind a later wash of its box. *)
LEMMA OnTheBoard ==
    ASSUME ViewsInv, NEW p, NEW t \in Moments, NEW boxes, NEW o \in ListLive(p),
           dayStart(queue[o].start) = dayStart(t)
    PROVE  LET board == buildBoardResponse(p, t, boxes)
               b     == queue[o].box
           IN  \/ o \in board.waiting
               \/ b \notin boxes
               \/ o \in board.boxes[b]
               \/ \E x \in ListLive(p) :
                     /\ queue[x].status = "washing" /\ queue[x].box = b
                     /\ dayStart(queue[x].start) = dayStart(t)
                     /\ queue[x].start > queue[o].start
<1> DEFINE rows == ListLiveByWashingPointAndDate(p, t)
<1>1. o \in Booked /\ queue[o].start \in Nat /\ queue[o].point = p
  BY LiveFields
<1>2. dayStart(t) <= queue[o].start /\ queue[o].start < dayStart(t) + Day
  BY <1>1, InsideItsDay
<1>3. o \in rows
  BY <1>1, <1>2 DEF ListLive, ListLiveByWashingPointAndDate, FindByWashingPointAndRange
<1>4. ASSUME NEW x \in rows
      PROVE  x \in ListLive(p) /\ queue[x].start \in Nat /\ dayStart(queue[x].start) = dayStart(t)
  <2>1. x \in ListLive(p)
    BY DEF ListLiveByWashingPointAndDate, FindByWashingPointAndRange, ListLive
  <2>2. queue[x].start \in Nat
    BY <2>1, LiveFields
  <2>3. dayStart(t) <= queue[x].start /\ queue[x].start < dayStart(t) + Day
    BY DEF ListLiveByWashingPointAndDate, FindByWashingPointAndRange
  <2>. QED
    BY <2>1, <2>2, <2>3, DayOfRow
<1>5. CASE queue[o].status # "washing"
  BY <1>3, <1>5 DEF buildBoardResponse
<1>6. CASE queue[o].status = "washing" /\ queue[o].box \in boxes
  <2>1. buildBoardResponse(p, t, boxes).boxes[queue[o].box] = currentByBox(rows, queue[o].box)
    BY <1>6 DEF buildBoardResponse
  <2>2. CASE o \in currentByBox(rows, queue[o].box)
    BY <2>1, <2>2
  <2>3. CASE o \notin currentByBox(rows, queue[o].box)
    <3>1. PICK x \in rows : /\ queue[x].status = "washing" /\ queue[x].box = queue[o].box
                            /\ ~(queue[x].start <= queue[o].start)
      BY <1>3, <1>6, <2>3 DEF currentByBox
    <3>2. /\ x \in ListLive(p) /\ dayStart(queue[x].start) = dayStart(t)
          /\ queue[x].start > queue[o].start
      BY <1>1, <1>4, <3>1
    <3> QED
      BY <3>1, <3>2
  <2> QED
    BY <2>2, <2>3
<1> QED
  BY <1>5, <1>6

(***************************************************************************)
(* The board loses no live booking of the day, a box shows at most one     *)
(* wash, and a free one its earliest booking.                              *)
(***************************************************************************)
THEOREM BoardSafety == Spec => []BoardLosesNobody
<1>1. ASSUME ViewsInv, NEW p \in Points, NEW t \in Moments, NEW boxes \in SUBSET Boxes,
             NEW o \in ListLive(p)
      PROVE  LET board == buildBoardResponse(p, t, boxes)
                 live  == toLiveBoxItems(p, boxes)
                 b     == queue[o].box
             IN  /\ dayStart(queue[o].start) = dayStart(t)
                    => \/ o \in board.waiting
                       \/ b \notin boxes
                       \/ o \in board.boxes[b]
                       \/ \E x \in ListLive(p) :
                             /\ queue[x].status = "washing" /\ queue[x].box = b
                             /\ dayStart(queue[x].start) = dayStart(t)
                             /\ queue[x].start > queue[o].start
                 /\ b \in boxes /\ live[b].current = {}
                    => \E x \in live[b].next : queue[x].start <= queue[o].start
  BY <1>1, OnTheBoard, ShowsEarliest DEF toLiveBoxItems
<1>2. ASSUME ViewsInv, NEW p \in Points, NEW t \in Moments, NEW boxes \in SUBSET Boxes,
             NEW b \in boxes
      PROVE  LET board == buildBoardResponse(p, t, boxes)
                 live  == toLiveBoxItems(p, boxes)
             IN  /\ Cardinality(board.boxes[b]) <= 1
                 /\ Cardinality(live[b].current \cup live[b].next) <= 1
  <2>1. ListLiveByWashingPointAndDate(p, t) \in SUBSET ListLive(p)
    BY DEF ListLiveByWashingPointAndDate, FindByWashingPointAndRange, ListLive
  <2>2. buildBoardResponse(p, t, boxes).boxes[b]
          = currentByBox(ListLiveByWashingPointAndDate(p, t), b)
    BY DEF buildBoardResponse
  <2>3. Cardinality(buildBoardResponse(p, t, boxes).boxes[b]) <= 1
    BY <1>2, <2>1, <2>2, BoxShowsOne
  <2>4. LET live == toLiveBoxItems(p, boxes)
        IN  \/ live[b].current \cup live[b].next = currentByBox(ListLive(p), b)
            \/ live[b].current \cup live[b].next = nextByBox(ListLive(p), b)
    BY DEF toLiveBoxItems
  <2>5. LET live == toLiveBoxItems(p, boxes)
        IN  Cardinality(live[b].current \cup live[b].next) <= 1
    BY <1>2, <2>4, BoxShowsOne
  <2> QED
    BY <2>3, <2>5
<1>3. ViewsInv => BoardLosesNobody
  BY <1>1, <1>2 DEF BoardLosesNobody
<1> QED
  BY <1>3, ViewsInvariance, PTL

-----------------------------------------------------------------------------
(* Days, periods and hours. *)

(* Days are numbered, before the first one too. *)
LEMMA DayNumbers ==
    ASSUME NEW x \in Int, NEW m \in Int
    PROVE  /\ x \div Day \in Int
           /\ Day * m <= x <=> m <= x \div Day
           /\ x < Day * m <=> x \div Day < m
           /\ (x - Day * m) \div Day = x \div Day - m
           /\ dayStart(x) = Day * (x \div Day)
           /\ dayStart(Day * m) = Day * m
<1> DEFINE k == x \div Day
<1>0. Day \in Nat \ {0} /\ k \in Int /\ Day * k <= x /\ x < Day * k + Day
      /\ Day * k \in Int /\ Day * m \in Int
  BY ViewsAssumption, Division, Products
<1> HIDE DEF k
<1>1. m <= k => Day * m <= x
  <2>1. m <= k => Day * m <= Day * k
    BY <1>0, Products
  <2> QED
    BY <1>0, <2>1
<1>2. k < m => x < Day * m
  <2>1. k < m => Day * k + Day <= Day * m
    BY <1>0, Products
  <2> QED
    BY <1>0, <2>1
<1>3. (x - Day * m) \div Day = k - m
  <2> DEFINE y == x - Day * m
             n == k - m
  <2>1. Day * n = Day * k - Day * m
    BY <1>0, Products
  <2>2. y \in Int /\ n \in Int /\ Day * n <= y /\ y < Day * n + Day
    BY <1>0, <2>1
  <2> HIDE DEF y, n
  <2>3. y \div Day = n
    BY <1>0, <2>2, Division
  <2> QED
    BY <2>3 DEF y, n
<1>4. (Day * m) \div Day = m
  <2>1. Day * m <= Day * m /\ Day * m < Day * m + Day
    BY <1>0
  <2> QED
    BY <1>0, <2>1, Division
<1> QED
  BY <1>0, <1>1, <1>2, <1>3, <1>4 DEF k, dayStart

(* The hour of a day. *)
LEMMA HourOfDay ==
    ASSUME NEW x \in Int
    PROVE  (x % Day) \div Hour \in 0 .. (Day \div Hour) - 1
<1> DEFINE n == Day \div Hour
           y == x % Day
           h == y \div Hour
<1>1. Day \in Nat \ {0} /\ Hour \in Nat \ {0} /\ y \in Int /\ 0 <= y /\ y < Day
  BY ViewsAssumption, Division
<1>2. n \in Int /\ Day = Hour * n /\ Hour * n \in Int
  BY ViewsAssumption, Division
<1>3. h \in Int /\ Hour * h <= y /\ y < Hour * h + Hour /\ Hour * h \in Int
  BY <1>1, Division
<1> HIDE DEF n, y, h
<1>4. ~(h < 0)
  <2>1. h < 0 => Hour * h + Hour <= Hour * 0
    BY <1>1, <1>3, Products
  <2> QED
    BY <1>1, <1>3, <2>1
<1>5. ~(n <= h)
  <2>1. n <= h => Hour * n <= Hour * h
    BY <1>1, <1>2, <1>3, Products
  <2> QED
    BY <1>1, <1>2, <1>3, <2>1
<1> QED
  BY <1>2, <1>3, <1>4, <1>5 DEF n, y, h

(* A period is whole days, and the one before it as many of them. *)
LEMMA PeriodDays ==
    ASSUME NEW period \in Period, NEW t \in Nat
    PROVE  LET bounds == periodBounds(period, t)
               before == previousPeriodBounds(bounds)
           IN  \E m, n \in Int :
                /\ m < n /\ bounds.start = Day * m /\ bounds.end = Day * n
                /\ before.start = Day * (m - (n - m)) /\ before.end = Day * m
                /\ m <= t \div Day /\ t \div Day < n /\ (period = "today" => n = m + 1)
<1> DEFINE q == t \div Day
           bounds == periodBounds(period, t)
           before == previousPeriodBounds(bounds)
<1>0. Day \in Nat \ {0} /\ WeekDays \in Nat \ {0} /\ MonthDays \in Nat \ {0} /\ q \in Int
  BY ViewsAssumption, DayNumbers
<1>1. dayStart(t) = Day * q /\ bounds.end = Day * (q + 1)
  <2>1. dayStart(t) = Day * q
    BY DEF dayStart
  <2>2. bounds.end = dayStart(t) + Day
    BY DEF periodBounds
  <2>3. Day * (q + 1) = Day * q + Day
    BY <1>0
  <2> QED
    BY <2>1, <2>2, <2>3
<1>2. \E m \in Int : m <= q /\ bounds.start = Day * m /\ (period = "today" => m = q)
  <2>1. CASE period = "today"
    BY <1>0, <1>1, <2>1 DEF periodBounds
  <2>2. CASE period = "week"
    <3>1. bounds.start = Day * q - (WeekDays - 1) * Day
      BY <1>1, <2>2 DEF periodBounds
    <3>2. bounds.start = Day * (q - (WeekDays - 1)) /\ q - (WeekDays - 1) \in Int
      <4> HIDE DEF q
      <4>1. (WeekDays - 1) * Day = Day * (WeekDays - 1) /\ WeekDays - 1 \in Int
        BY <1>0
      <4> QED
        BY <1>0, <3>1, <4>1, Products
    <3> QED
      BY <1>0, <2>2, <3>2
  <2>3. CASE period = "month"
    <3> DEFINE c == MonthDays * Day
               e == (Day * q) \div c
    <3>1. bounds.start = c * e
      BY <1>1, <2>3 DEF periodBounds
    <3>2. c \in Nat \ {0} /\ Day * q \in Int
      BY <1>0
    <3>3. e \in Int /\ c * e <= Day * q
      BY <3>2, Division
    <3> HIDE DEF e, q
    <3>4. c * e = Day * (MonthDays * e) /\ MonthDays * e \in Int
      BY <1>0, <3>3
    <3>5. MonthDays * e <= q
      BY <1>0, <3>3, <3>4, Products
    <3> QED
      BY <2>3, <3>1, <3>4, <3>5
  <2> QED
    BY <2>1, <2>2, <2>3 DEF Period
<1>3. PICK m \in Int : m <= q /\ bounds.start = Day * m /\ (period = "today" => m = q)
  BY <1>2
<1> DEFINE n == q + 1
<1>4. before.start = bounds.start - (bounds.end - bounds.start) /\ before.end = bounds.start
  BY DEF previousPeriodBounds
<1>5. before.start = Day * (m - (n - m))
  <2> HIDE DEF q
  <2>1. Day * (n - m) = Day * n - Day * m /\ n - m \in Int
    BY <1>0, Products
  <2>2. Day * (m - (n - m)) = Day * m - Day * (n - m)
    BY <1>0, <2>1, Products
  <2> QED
    BY <1>1, <1>3, <1>4, <2>1, <2>2
<1> HIDE DEF q, bounds, before
<1>6. /\ m \in Int /\ n \in Int /\ m < n /\ bounds.start = Day * m /\ bounds.end = Day * n
      /\ before.start = Day * (m - (n - m)) /\ before.end = Day * m
      /\ m <= q /\ q < n /\ (period = "today" => n = m + 1)
  BY <1>0, <1>1, <1>3, <1>4, <1>5
<1> QED
  BY <1>6 DEF q, bounds, before

-----------------------------------------------------------------------------
(* The figures: what they are sums of. *)

(***************************************************************************)
(* The figures rest on more of the tables: a row is as asked, so it lies   *)
(* in one day and in a box of its point or in none, its items are a basket *)
(* that was on offer, and scans have times.                                *)
(***************************************************************************)
Asked ==
    \A o \in Booked : \E a \in Asks :
        /\ queue[o].start = a.start /\ queue[o].end = End(a)
        /\ queue[o].box = NewRow(a).box /\ queue[o].overflow = a.overflow

Sold == items \in [Ids -> Baskets \cup {{}}]

FiguresInv == ViewsInv /\ Asked /\ Sold /\ scans \in Seq(Nat)

(* It holds of every behaviour. *)
THEOREM FiguresInvariance == Spec => []FiguresInv
<1>1. Init => FiguresInv
  <2>1. Init => Booked = {}
    BY LedgerIsTable DEF Init, Ledger!Init, Booked
  <2> QED
    BY <2>1, InitViewsInv DEF FiguresInv, Asked, Sold, Init
<1>2. ASSUME FiguresInv, [Next]_vars PROVE FiguresInv'
  <2>1. ViewsInv' /\ TableOK
    BY <1>2, ViewsStep DEF FiguresInv, ViewsInv
  <2>2. Asked'
    <3>1. ASSUME NEW o \in Ids, NEW a \in Asks, Inserts(o, a) PROVE Asked'
      <4>1. /\ Booked' = Booked \cup {o} /\ o \notin Booked /\ queue'[o] = NewRow(a)
            /\ \A x \in Booked : queue'[x] = queue[x]
        BY <2>1, <3>1, InsertsEffect DEF Booked
      <4>2. /\ queue'[o].start = a.start /\ queue'[o].end = End(a)
            /\ queue'[o].box = NewRow(a).box /\ queue'[o].overflow = a.overflow
        BY <4>1, NewRowFields
      <4>3. ASSUME NEW x \in Booked'
            PROVE  \E c \in Asks : /\ queue'[x].start = c.start /\ queue'[x].end = End(c)
                                   /\ queue'[x].box = NewRow(c).box
                                   /\ queue'[x].overflow = c.overflow
        BY <1>2, <4>1, <4>2 DEF FiguresInv, Asked
      <4> QED
        BY <4>3 DEF Asked, NewRow, End
    <3>2. ASSUME NEW o \in Ids, NEW to \in Status, Changes(o, to) PROVE Asked'
      <4>1. /\ Booked' = Booked
            /\ \A x \in Booked : /\ queue'[x].box = queue[x].box /\ queue'[x].end = queue[x].end
                                 /\ queue'[x].start = queue[x].start
                                 /\ queue'[x].overflow = queue[x].overflow
        BY <2>1, <3>2, ChangesEffect
      <4> QED
        BY <1>2, <4>1 DEF FiguresInv, Asked, NewRow, End
    <3>3. ASSUME queue' = queue PROVE Asked'
      BY <1>2, <3>3 DEF FiguresInv, Asked, Booked, NewRow, End
    <3> QED
      BY <1>2, <2>1, <3>1, <3>2, <3>3, StepForms
  <2>3. Sold' /\ scans' \in Seq(Nat)
    <3>1. clock \in Nat
      BY <1>2 DEF FiguresInv, ViewsInv, CreationOrder
    <3>2. ASSUME NEW o \in Ids, NEW a \in Asks, NEW basket \in Baskets, Book(o, a, basket)
          PROVE  Sold' /\ scans' \in Seq(Nat)
      BY <1>2, <3>2 DEF Book, FiguresInv, Sold
    <3>3. ASSUME NEW o \in Ids, Move(o) PROVE Sold' /\ scans' \in Seq(Nat)
      BY <1>2, <3>3 DEF Move, FiguresInv, Sold
    <3>4. CASE Scan
      <4>1. scans' = Append(scans, clock) /\ items' = items /\ scans \in Seq(Nat)
        BY <1>2, <3>4 DEF Scan, FiguresInv
      <4>2. Append(scans, clock) \in Seq(Nat)
        BY <3>1, <4>1
      <4> QED
        BY <1>2, <4>1, <4>2 DEF FiguresInv, Sold
    <3>5. CASE Tick \/ UNCHANGED vars
      BY <1>2, <3>5 DEF Tick, vars, FiguresInv, Sold
    <3> QED
      BY <1>2, <3>2, <3>3, <3>4, <3>5 DEF Next
  <2> QED
    BY <2>1, <2>2, <2>3 DEF FiguresInv
<1> QED
  BY <1>1, <1>2, PTL DEF Spec

(* The terms: what a booking's items cost, what it costs, how long it lasts. *)
ItemPrices(o, prices) == [it \in items[o] |-> prices[it.option]]

Priced(prices) == [o \in Booked |-> bookingPrice(o, prices)]

Lasting == [o \in Booked |-> Minutes(o)]

(* What a row is: inside one day, in a box of its point or in none. *)
LEMMA RowFacts ==
    ASSUME FiguresInv, NEW o \in Booked
    PROVE  /\ queue[o].start \in Nat /\ queue[o].end \in Nat /\ queue[o].start < queue[o].end
           /\ queue[o].end <= dayStart(queue[o].start) + Day
           /\ queue[o].start \div Day = (queue[o].end - 1) \div Day
           /\ queue[o].overflow \in BOOLEAN /\ queue[o].status \in Status
           /\ queue[o].overflow <=> queue[o].box \notin Boxes
           /\ queue[o].box \in Nat
<1>1. /\ queue[o].start \in Nat /\ queue[o].end \in Nat /\ queue[o].start < queue[o].end
      /\ queue[o].overflow \in BOOLEAN /\ queue[o].status \in Status /\ queue[o].box \in Nat
  BY RowFields DEF FiguresInv, ViewsInv, TableOK, RowsLast, Booked
<1>2. PICK a \in Asks : /\ queue[o].start = a.start /\ queue[o].end = End(a)
                       /\ queue[o].box = NewRow(a).box /\ queue[o].overflow = a.overflow
  BY DEF FiguresInv, Asked
<1>3. queue[o].start \div Day = (queue[o].end - 1) \div Day
  BY <1>2, ViewsAssumption
<1>4. queue[o].end <= dayStart(queue[o].start) + Day
  <2> DEFINE x == queue[o].end - 1
             d == Day * (x \div Day)
  <2>1. x \in Int /\ Day \in Nat \ {0}
    BY <1>1, ViewsAssumption
  <2>2. dayStart(queue[o].start) = d
    BY <1>3 DEF dayStart
  <2> HIDE DEF x
  <2>3. x < d + Day /\ d \in Int
    BY <2>1, Division
  <2> HIDE DEF d
  <2> QED
    BY <1>1, <2>1, <2>2, <2>3 DEF x
<1>5. \A c \in Asks : c.box \in Nat \ {0}
  BY AskAssumption DEF AskType
<1>6. queue[o].box = IF a.overflow THEN 0 ELSE a.box
  BY <1>2, NewRowFields
<1>7. queue[o].overflow <=> queue[o].box \notin Boxes
  BY <1>1, <1>2, <1>5, <1>6 DEF Boxes
<1> QED
  BY <1>1, <1>3, <1>4, <1>7

(* Prices and minutes are integers, and the figures sums of them. *)
LEMMA FigureTerms ==
    ASSUME FiguresInv, NEW prices \in Prices
    PROVE  /\ \A o \in Booked : Terms(ItemPrices(o, prices), items[o])
           /\ Terms(Priced(prices), Booked) /\ Terms(Lasting, Booked)
<1>1. IsFiniteSet(Booked) /\ \A o \in Booked : o \in Ids
  BY DEF FiguresInv, ViewsInv, Finite, Booked
<1>2. ASSUME NEW o \in Booked PROVE Terms(ItemPrices(o, prices), items[o])
  <2>1. items[o] \in Baskets \/ items[o] = {}
    BY <1>1 DEF FiguresInv, Sold
  <2>2. IsFiniteSet(items[o]) /\ \A it \in items[o] : prices[it.option] \in Int
    <3>1. CASE items[o] \in Baskets
      BY <3>1, ViewsAssumption
    <3>2. CASE items[o] = {}
      BY <3>2, FS_EmptySet
    <3> QED
      BY <2>1, <3>1, <3>2
  <2> QED
    BY <2>2 DEF Terms, ItemPrices
<1>3. ASSUME NEW o \in Booked PROVE bookingPrice(o, prices) \in Int
  <2>1. Terms(ItemPrices(o, prices), items[o])
    BY <1>2
  <2>2. Total(ItemPrices(o, prices)) \in Int
    BY <2>1, SumParts
  <2> QED
    BY <2>2 DEF bookingPrice, ItemPrices
<1>4. \A o \in Booked : Minutes(o) \in Int
  BY RowFacts DEF Minutes
<1> QED
  BY <1>1, <1>2, <1>3, <1>4 DEF Terms, Priced, Lasting

LEMMA FigureSums ==
    ASSUME NEW prices, NEW S \in SUBSET Booked
    PROVE  /\ Revenue(S, prices) = SumOver(Priced(prices), S)
           /\ Total([o \in S |-> Minutes(o)]) = SumOver(Lasting, S)
<1>1. [o \in S |-> bookingPrice(o, prices)] = [o \in S |-> Priced(prices)[o]]
  BY DEF Priced
<1>2. [o \in S |-> Minutes(o)] = [o \in S |-> Lasting[o]]
  BY DEF Lasting
<1> QED
  BY <1>1, <1>2 DEF Revenue, SumOver

(* Any part of a domain is summed class by class. *)
LEMMA SumClasses ==
    ASSUME NEW D, NEW f, Terms(f, D), NEW S \in SUBSET D, NEW I, NEW r, Terms(r, I),
           NEW c \in [S -> I], \A i \in I : r[i] = SumOver(f, Fiber(c, i, S))
    PROVE  SumOver(f, S) = Total(r)
<1> DEFINE fs == [x \in S |-> f[x]]
<1>1. Terms(fs, S) /\ SumOver(f, S) = Total(fs) /\ \A x \in S : fs[x] = f[x]
  BY FS_Subset DEF Terms, SumOver
<1> HIDE DEF fs
<1>2. \A i \in I : r[i] = SumOver(fs, Fiber(c, i, S))
  <2>1. ASSUME NEW i \in I PROVE SumOver(fs, Fiber(c, i, S)) = SumOver(f, Fiber(c, i, S))
    <3>1. \A x \in Fiber(c, i, S) : fs[x] = f[x]
      BY <1>1 DEF Fiber
    <3> QED
      BY <3>1, SumSame
  <2> QED
    BY <2>1
<1>3. Total(fs) = Total(r)
  BY <1>1, <1>2, SumFibers
<1> QED
  BY <1>1, <1>3

(* What a function gives on a finite set is finite. *)
LEMMA FiniteImage ==
    ASSUME NEW D, IsFiniteSet(D), NEW f
    PROVE  IsFiniteSet({f[x] : x \in D})
<1> DEFINE T == {f[x] : x \in D}
           g == [x \in D |-> f[x]]
<1>1. g \in Surjection(D, T)
  BY DEF Surjection
<1> QED
  BY <1>1, FS_Surjection

-----------------------------------------------------------------------------
(* Utilization *)

(* Bookings that hold one box take up no more time than holds them. *)
LEMMA BoxPacked ==
    ASSUME FiguresInv, NEW S \in SUBSET Booked, NEW lo \in Int, NEW hi \in Int, lo <= hi,
           \A o \in S : HoldsBox(o) /\ lo <= queue[o].start /\ queue[o].end <= hi,
           \A o, x \in S : queue[o].point = queue[x].point /\ queue[o].box = queue[x].box
    PROVE  SumOver(Lasting, S) <= hi - lo
<1> DEFINE f == [o \in S |-> Lasting[o]]
           a == [o \in S |-> queue[o].start]
           z == [o \in S |-> queue[o].end]
<1>1. IsFiniteSet(S)
  BY FS_Subset DEF FiguresInv, ViewsInv, Finite
<1>2. \A o \in S : /\ f[o] = queue[o].end - queue[o].start /\ a[o] = queue[o].start
                  /\ z[o] = queue[o].end /\ queue[o].start \in Nat /\ queue[o].end \in Nat
                  /\ queue[o].start < queue[o].end
  BY RowFacts DEF Lasting, Minutes
<1>3. Terms(f, S) /\ Terms(a, S) /\ Terms(z, S)
  <2>1. f \in [S -> Int]
    BY <1>2
  <2>2. a \in [S -> Int] /\ z \in [S -> Int]
    BY <1>2
  <2> QED
    BY <1>1, <2>1, <2>2 DEF Terms
<1>4. SumOver(Lasting, S) = Total(f)
  BY DEF SumOver
<1> HIDE DEF f, a, z
<1>5. ASSUME NEW o \in S, NEW x \in S, o # x PROVE z[o] <= a[x] \/ z[x] <= a[o]
  <2>1. ~Overlap(queue[o].start, queue[o].end, queue[x].start, queue[x].end)
    BY <1>5 DEF FiguresInv, ViewsInv, NoDoubleBooking, Booked
  <2> QED
    BY <1>2, <2>1 DEF Overlap
<1>6. \A o \in S : f[o] = z[o] - a[o] /\ lo <= a[o] /\ a[o] < z[o] /\ z[o] <= hi
  BY <1>2
<1> QED
  BY <1>3, <1>4, <1>5, <1>6, SumPacked

(* What a day's minutes are counted for lies in the day, wholly. *)
LEMMA BookedInDay ==
    ASSUME FiguresInv, NEW t \in Nat,
           NEW o \in FindScheduledInRangeNetworkWide(dayStart(t), dayStart(t) + Day), HoldsBox(o)
    PROVE  /\ o \in Booked /\ dayStart(queue[o].start) = dayStart(t) /\ ~queue[o].overflow
           /\ dayStart(t) <= queue[o].start /\ queue[o].end <= dayStart(t) + Day
           /\ Min({queue[o].end, dayStart(t) + Day}) - Max({queue[o].start, dayStart(t)}) = Minutes(o)
<1>1. o \in Booked /\ queue[o].start < dayStart(t) + Day /\ dayStart(t) < queue[o].end
  BY DEF FindScheduledInRangeNetworkWide, Overlap
<1> DEFINE s == queue[o].start
           e == queue[o].end
           k == s \div Day
           q == t \div Day
<1>2. s \in Nat /\ e \in Nat /\ s < e /\ e <= dayStart(s) + Day /\ k = (e - 1) \div Day
  BY <1>1, RowFacts
<1>3. k \in Int /\ q \in Int /\ dayStart(t) = Day * q /\ dayStart(s) = Day * k
  BY <1>2, DayNumbers
<1>4. Day \in Nat \ {0} /\ Day * q \in Int /\ Day * k \in Int /\ Day * (q + 1) = Day * q + Day
  BY <1>3, ViewsAssumption
<1>5. k = q
  <2> HIDE DEF s, e, q
  <2>1. s < Day * (q + 1) /\ Day * q <= e - 1
    BY <1>1, <1>2, <1>3, <1>4 DEF s, e
  <2>2. s \div Day < q + 1 /\ q <= (e - 1) \div Day
    BY <1>2, <1>3, <2>1, DayNumbers
  <2> QED
    BY <1>2, <1>3, <2>2
<1>6. Day * k <= s
  <2> HIDE DEF s
  <2>1. s \in Int /\ Day \in Nat \ {0}
    BY <1>2, ViewsAssumption
  <2> QED
    BY <2>1, Division
<1> HIDE DEF k, q
<1>7. dayStart(t) <= s /\ e <= dayStart(t) + Day /\ dayStart(t) \in Int
  BY <1>2, <1>3, <1>4, <1>5, <1>6
<1> DEFINE d == dayStart(t)
<1>8. Min({e, d + Day}) = e /\ Max({s, d}) = s
  <2> HIDE DEF s, e, d
  <2>1. e \in Int /\ s \in Int /\ d \in Int /\ d + Day \in Int /\ d <= s /\ e <= d + Day
    BY <1>2, <1>4, <1>7 DEF d
  <2>2. \A x \in {e, d + Day} : e <= x
    BY <2>1
  <2>3. \A x \in {s, d} : x <= s
    BY <2>1
  <2>4. ASSUME NEW x \in {e, d + Day}, \A y \in {e, d + Day} : x <= y PROVE x = e
    BY <2>1, <2>4
  <2>5. ASSUME NEW x \in {s, d}, \A y \in {s, d} : x >= y PROVE x = s
    BY <2>1, <2>5
  <2> QED
    BY <2>1, <2>2, <2>3, <2>4, <2>5 DEF Min, Max
<1> QED
  BY <1>1, <1>3, <1>5, <1>7, <1>8 DEF HoldsBox, Minutes

(* The booked minutes of a day fit into the boxes they were booked in. *)
LEMMA DayUtilized ==
    ASSUME FiguresInv, NEW t \in Nat
    PROVE  bookedMinutes(t) <= Day * Cardinality(
               {<<queue[o].point, queue[o].box>> :
                    o \in {o \in Booked : /\ ~queue[o].overflow
                                        /\ dayStart(queue[o].start) = dayStart(t)}})
<1> DEFINE S == {o \in Booked : ~queue[o].overflow /\ dayStart(queue[o].start) = dayStart(t)}
           place == [o \in Booked |-> <<queue[o].point, queue[o].box>>]
           used == {place[o] : o \in S}
           booked == {o \in FindScheduledInRangeNetworkWide(dayStart(t), dayStart(t) + Day) :
                          HoldsBox(o)}
           c == [o \in booked |-> place[o]]
           r == [b \in used |-> SumOver(Lasting, Fiber(c, b, booked))]
           most == [b \in used |-> Day]
<1>1. booked \in SUBSET S /\ S \in SUBSET Booked
  BY BookedInDay
<1>2. IsFiniteSet(S) /\ IsFiniteSet(used)
  <2>1. IsFiniteSet(S)
    BY <1>1, FS_Subset DEF FiguresInv, ViewsInv, Finite
  <2> HIDE DEF S, place
  <2> QED
    BY <2>1, FiniteImage
<1>3. bookedMinutes(t) = SumOver(Lasting, booked)
  <2>1. [o \in booked |-> Min({queue[o].end, dayStart(t) + Day}) - Max({queue[o].start, dayStart(t)})]
          = [o \in booked |-> Lasting[o]]
    <3>1. \A o \in booked : Min({queue[o].end, dayStart(t) + Day})
                                - Max({queue[o].start, dayStart(t)}) = Lasting[o]
      BY BookedInDay DEF Lasting
    <3> HIDE DEF booked
    <3> QED
      BY <3>1
  <2> QED
    BY <2>1 DEF bookedMinutes, SumOver
<1>4. Terms(Lasting, Booked)
  BY RowFacts DEF FiguresInv, ViewsInv, Finite, Terms, Lasting, Minutes
<1>5. c \in [booked -> used]
  BY <1>1
<1>6. ASSUME NEW b \in used
      PROVE  r[b] = SumOver(Lasting, Fiber(c, b, booked)) /\ r[b] \in Int /\ r[b] <= most[b]
  <2> DEFINE F == Fiber(c, b, booked)
  <2>1. /\ F \in SUBSET Booked
        /\ \A o \in F : /\ o \in booked /\ place[o] = b /\ o \in Booked
    BY <1>1 DEF Fiber
  <2>2. \A o \in F : HoldsBox(o) /\ dayStart(t) <= queue[o].start /\ queue[o].end <= dayStart(t) + Day
    BY <2>1, BookedInDay
  <2>3. ASSUME NEW o \in F, NEW x \in F
        PROVE  queue[o].point = queue[x].point /\ queue[o].box = queue[x].box
    <3>1. <<queue[o].point, queue[o].box>> = <<queue[x].point, queue[x].box>>
      <4>1. place[o] = place[x] /\ o \in Booked /\ x \in Booked
        BY <2>1
      <4> QED
        BY <4>1
    <3> QED
      BY ONLY <3>1
  <2>4. Day \in Nat \ {0} /\ dayStart(t) \in Int
    BY ViewsAssumption, InsideItsDay
  <2> DEFINE d == dayStart(t)
  <2>5. d \in Int /\ d + Day \in Int /\ d <= d + Day /\ (d + Day) - d = Day
    BY <2>4
  <2>6. r[b] = SumOver(Lasting, F) /\ most[b] = Day
    OBVIOUS
  <2> HIDE DEF F, d, booked, used, place, r, most, c
  <2>7. SumOver(Lasting, F) <= (d + Day) - d
    BY <2>1, <2>2, <2>3, <2>5, BoxPacked DEF d
  <2>8. SumOver(Lasting, F) \in Int
    BY <1>4, <2>1, SumParts
  <2> QED
    BY <2>5, <2>6, <2>7, <2>8 DEF F
<1>7. Terms(r, used) /\ Terms(most, used)
  <2>1. r \in [used -> Int]
    BY <1>6
  <2>2. most \in [used -> Int]
    BY ViewsAssumption
  <2> QED
    BY <1>2, <2>1, <2>2 DEF Terms
<1>8. \A b \in used : most[b] = Day
  OBVIOUS
<1>9. used = {<<queue[o].point, queue[o].box>> : o \in S}
  BY <1>1
<1> HIDE DEF S, booked, used, place, r, most, c
<1>10. SumOver(Lasting, booked) = Total(r)
  <2>1. booked \in SUBSET Booked
    BY <1>1
  <2>2. \A b \in used : r[b] = SumOver(Lasting, Fiber(c, b, booked))
    BY <1>6
  <2> QED
    BY <1>4, <1>5, <1>7, <2>1, <2>2, SumClasses
<1>11. Total(r) <= Total(most)
  BY <1>6, <1>7, SumAtMost
<1>12. Total(most) = Day * Cardinality(used)
  <2>1. Day \in Int
    BY ViewsAssumption
  <2> QED
    BY <1>7, <1>8, <2>1, SumConst
<1> QED
  BY <1>3, <1>9, <1>10, <1>11, <1>12 DEF S

-----------------------------------------------------------------------------
(* Reports *)

InBoxes(rows) == {o \in Ready(rows) : ~queue[o].overflow}

OfBox(rows, b) == {o \in InBoxes(rows) : queue[o].box = b}

Washed(rows) == {queue[o].box : o \in InBoxes(rows)}

Services(rows) == {it.service : it \in UNION {items[o] : o \in Ready(rows)}}

(* What of a booking's items is of one service, and what it costs. *)
ItemsOf(o, s) == {it \in items[o] : it.service = s}

ServiceRevenue(rows, s, prices) ==
    Total([o \in Ready(rows) |-> Total([it \in ItemsOf(o, s) |-> prices[it.option]])])

(* The figures of some rows, field by field. *)
LEMMA SummaryFields ==
    ASSUME NEW rows \in SUBSET Booked, NEW prices
    PROVE  LET sum == summarizeReportRows(rows, prices)
           IN  /\ sum.total.cars = Cardinality(Ready(rows))
               /\ sum.total.revenue = Revenue(Ready(rows), prices)
               /\ sum.total.minutes = SumOver(Lasting, InBoxes(rows))
               /\ sum.byService = [s \in Services(rows) |-> ServiceRevenue(rows, s, prices)]
               /\ DOMAIN sum.byBox = Washed(rows)
               /\ \A b \in Washed(rows) :
                    /\ sum.byBox[b].cars = Cardinality(OfBox(rows, b))
                    /\ sum.byBox[b].minutes = SumOver(Lasting, OfBox(rows, b))
<1> DEFINE ins == {o \in Ready(rows) : ~queue[o].overflow}
           total(S) == [cars    |-> Cardinality(S),
                        revenue |-> Revenue(S, prices),
                        minutes |-> Total([o \in S \cap ins |-> Minutes(o)])]
           byService == [s \in {it.service : it \in UNION {items[o] : o \in Ready(rows)}} |->
                            Total([o \in Ready(rows) |->
                                Total([it \in {it \in items[o] : it.service = s} |->
                                          prices[it.option]])])]
           byBox == [b \in {queue[o].box : o \in ins} |-> total({o \in ins : queue[o].box = b})]
<1>1. summarizeReportRows(rows, prices)
        = [total |-> total(Ready(rows)), byService |-> byService, byBox |-> byBox]
  BY DEF summarizeReportRows
<1>2. byService = [s \in Services(rows) |-> ServiceRevenue(rows, s, prices)]
  BY DEF Services, ServiceRevenue, ItemsOf
<1>3. ASSUME NEW S \in SUBSET Ready(rows)
      PROVE  total(S).minutes = SumOver(Lasting, S \cap InBoxes(rows))
  <2> DEFINE T == S \cap InBoxes(rows)
  <2>1. T \in SUBSET Booked
    BY DEF Ready
  <2>2. S \cap ins = T
    BY DEF InBoxes
  <2>3. total(S).minutes = Total([o \in T |-> Minutes(o)])
    BY <2>2
  <2> HIDE DEF T, total
  <2> QED
    BY <2>1, <2>3, FigureSums DEF T
<1>4. \A S : total(S).cars = Cardinality(S) /\ total(S).revenue = Revenue(S, prices)
  OBVIOUS
<1>5. DOMAIN byBox = Washed(rows)
  BY DEF Washed, InBoxes
<1>6. ASSUME NEW b \in Washed(rows) PROVE byBox[b] = total(OfBox(rows, b))
  <2>1. ins = InBoxes(rows)
    BY DEF InBoxes
  <2> HIDE DEF ins, total
  <2> QED
    BY <2>1 DEF Washed, OfBox
<1> HIDE DEF total, byService, byBox, ins
<1>7. /\ Ready(rows) \in SUBSET Ready(rows) /\ Ready(rows) \cap InBoxes(rows) = InBoxes(rows)
      /\ \A b \in Washed(rows) : /\ OfBox(rows, b) \in SUBSET Ready(rows)
                                 /\ OfBox(rows, b) \cap InBoxes(rows) = OfBox(rows, b)
  BY DEF InBoxes, OfBox
<1>8. /\ total(Ready(rows)).minutes = SumOver(Lasting, InBoxes(rows))
      /\ \A b \in Washed(rows) : total(OfBox(rows, b)).minutes = SumOver(Lasting, OfBox(rows, b))
  BY <1>3, <1>7
<1> DEFINE sum == summarizeReportRows(rows, prices)
<1>9. sum.total = total(Ready(rows)) /\ sum.byService = byService /\ sum.byBox = byBox
  BY <1>1
<1> HIDE DEF sum
<1> QED
  BY <1>2, <1>4, <1>5, <1>6, <1>8, <1>9 DEF sum

(* A report's fields, in terms of the rows of its period and the one before. *)
ReportSays(r, p, period, t, boxes, prices) ==
    LET bounds == periodBounds(period, t)
        before == previousPeriodBounds(bounds)
        rows   == FindByWashingPointAndRange(p, bounds.start, bounds.end)
        prior  == FindByWashingPointAndRange(p, before.start, before.end)
    IN  /\ r.current.cars = Cardinality(Ready(rows))
        /\ r.current.revenue = Revenue(Ready(rows), prices)
        /\ r.current.minutes = SumOver(Lasting, InBoxes(rows))
        /\ r.previous.revenue = Revenue(Ready(prior), prices)
        /\ r.bars = reportBars(period, bounds, rows, prices)
        /\ r.services = [s \in Services(rows) |-> ServiceRevenue(rows, s, prices)]
        /\ DOMAIN r.boxes = boxes \cap Washed(rows)
        /\ \A b \in DOMAIN r.boxes :
             /\ r.boxes[b].cars = Cardinality(OfBox(rows, b))
             /\ r.boxes[b].minutes = SumOver(Lasting, OfBox(rows, b))

LEMMA ReportFields ==
    ASSUME NEW p, NEW period, NEW t, NEW boxes, NEW prices
    PROVE  ReportSays(buildReportsResponse(p, period, t, boxes, prices),
                      p, period, t, boxes, prices)
<1> DEFINE bounds == periodBounds(period, t)
           before == previousPeriodBounds(bounds)
           rows   == FindByWashingPointAndRange(p, bounds.start, bounds.end)
           prior  == FindByWashingPointAndRange(p, before.start, before.end)
           cur    == summarizeReportRows(rows, prices)
           prev   == summarizeReportRows(prior, prices)
           r      == buildReportsResponse(p, period, t, boxes, prices)
<1>1. r = [current  |-> cur.total, previous |-> prev.total,
           bars     |-> reportBars(period, bounds, rows, prices),
           services |-> cur.byService,
           boxes    |-> [b \in boxes \cap DOMAIN cur.byBox |-> cur.byBox[b]]]
  BY DEF buildReportsResponse
<1>2. rows \in SUBSET Booked /\ prior \in SUBSET Booked
  BY DEF FindByWashingPointAndRange
<1> HIDE DEF rows, prior, bounds, before
<1>3. /\ cur.total.cars = Cardinality(Ready(rows))
      /\ cur.total.revenue = Revenue(Ready(rows), prices)
      /\ cur.total.minutes = SumOver(Lasting, InBoxes(rows))
      /\ cur.byService = [s \in Services(rows) |-> ServiceRevenue(rows, s, prices)]
      /\ DOMAIN cur.byBox = Washed(rows)
      /\ \A b \in Washed(rows) : /\ cur.byBox[b].cars = Cardinality(OfBox(rows, b))
                                 /\ cur.byBox[b].minutes = SumOver(Lasting, OfBox(rows, b))
      /\ prev.total.revenue = Revenue(Ready(prior), prices)
  BY <1>2, SummaryFields
<1> HIDE DEF cur, prev, r
<1>4. /\ r.current = cur.total /\ r.previous = prev.total /\ r.services = cur.byService
      /\ r.bars = reportBars(period, bounds, rows, prices)
      /\ DOMAIN r.boxes = boxes \cap DOMAIN cur.byBox
      /\ \A b \in boxes \cap DOMAIN cur.byBox : r.boxes[b] = cur.byBox[b]
  BY <1>1
<1>5. /\ r.current.cars = Cardinality(Ready(rows))
      /\ r.current.revenue = Revenue(Ready(rows), prices)
      /\ r.current.minutes = SumOver(Lasting, InBoxes(rows))
      /\ r.previous.revenue = Revenue(Ready(prior), prices)
      /\ r.bars = reportBars(period, bounds, rows, prices)
      /\ r.services = [s \in Services(rows) |-> ServiceRevenue(rows, s, prices)]
      /\ DOMAIN r.boxes = boxes \cap Washed(rows)
      /\ \A b \in DOMAIN r.boxes : /\ r.boxes[b].cars = Cardinality(OfBox(rows, b))
                                   /\ r.boxes[b].minutes = SumOver(Lasting, OfBox(rows, b))
  BY <1>3, <1>4
<1> QED
  BY <1>5 DEF ReportSays, rows, prior, bounds, before, r

(* The rows between two days. *)
LEMMA RowsOfDays ==
    ASSUME FiguresInv, NEW p, NEW m \in Int, NEW n \in Int
    PROVE  FindByWashingPointAndRange(p, Day * m, Day * n)
             = {o \in Booked : /\ queue[o].point = p
                              /\ m <= queue[o].start \div Day /\ queue[o].start \div Day < n}
<1>1. ASSUME NEW o \in Booked
      PROVE  /\ Day * m <= queue[o].start <=> m <= queue[o].start \div Day
             /\ queue[o].start < Day * n <=> queue[o].start \div Day < n
  <2>1. queue[o].start \in Int
    BY RowFacts
  <2> QED
    BY <2>1, DayNumbers
<1> QED
  BY <1>1 DEF FindByWashingPointAndRange

(* A report counts no box for longer than its period. *)
LEMMA PeriodUtilized ==
    ASSUME FiguresInv, NEW p \in Points, NEW period \in Period, NEW t \in Nat, NEW prices, NEW boxes,
           NEW b \in DOMAIN buildReportsResponse(p, period, t, boxes, prices).boxes
    PROVE  buildReportsResponse(p, period, t, boxes, prices).boxes[b].minutes
             <= periodBounds(period, t).end - periodBounds(period, t).start
<1> DEFINE bounds == periodBounds(period, t)
           rows == FindByWashingPointAndRange(p, bounds.start, bounds.end)
           S == OfBox(rows, b)
<1>1. PICK m, n \in Int : m < n /\ bounds.start = Day * m /\ bounds.end = Day * n
  BY PeriodDays
<1>2. buildReportsResponse(p, period, t, boxes, prices).boxes[b].minutes = SumOver(Lasting, S)
  <2> DEFINE r == buildReportsResponse(p, period, t, boxes, prices)
  <2>1. ReportSays(r, p, period, t, boxes, prices)
    BY ReportFields
  <2> HIDE DEF r
  <2>2. \A c \in DOMAIN r.boxes : r.boxes[c].minutes = SumOver(Lasting, OfBox(rows, c))
    BY <2>1 DEF ReportSays
  <2> HIDE DEF rows, bounds
  <2> QED
    BY <2>2 DEF r
<1>3. rows = {o \in Booked : /\ queue[o].point = p
                            /\ m <= queue[o].start \div Day /\ queue[o].start \div Day < n}
  BY <1>1, RowsOfDays
<1>4. Day * m \in Int /\ Day * n \in Int /\ Day * m <= Day * n
  BY <1>1, ViewsAssumption, Products
<1> HIDE DEF bounds, rows
<1>5. ASSUME NEW o \in S
      PROVE  /\ o \in Booked /\ HoldsBox(o) /\ queue[o].point = p /\ queue[o].box = b
             /\ Day * m <= queue[o].start /\ queue[o].end <= Day * n
  <2>1. /\ o \in Booked /\ queue[o].point = p /\ m <= queue[o].start \div Day
        /\ queue[o].start \div Day < n /\ queue[o].box = b /\ queue[o].status = "ready"
        /\ ~queue[o].overflow
    BY <1>3 DEF OfBox, InBoxes, Ready
  <2> DEFINE s == queue[o].start
             k == s \div Day
             e == queue[o].end
  <2>2. s \in Int /\ e \in Int /\ e <= dayStart(s) + Day
    BY <2>1, RowFacts
  <2>3. m <= k /\ k < n
    BY <2>1
  <2> HIDE DEF s, e
  <2>4. k \in Int /\ dayStart(s) = Day * k /\ Day * m <= s
    BY <2>2, <2>3, DayNumbers
  <2> HIDE DEF k
  <2>5. Day * k + Day <= Day * n /\ Day * k \in Int /\ Day \in Nat
    BY <2>3, <2>4, ViewsAssumption, Products
  <2>6. Day * m <= s /\ e <= Day * n
    BY <1>4, <2>2, <2>4, <2>5
  <2>7. HoldsBox(o)
    BY <2>1 DEF HoldsBox, OccupyingStatus, Status
  <2> QED
    BY <2>1, <2>6, <2>7 DEF s, e
<1> HIDE DEF S
<1>6. S \in SUBSET Booked /\ \A o, x \in S : queue[o].point = queue[x].point
                                             /\ queue[o].box = queue[x].box
  BY <1>5
<1>7. SumOver(Lasting, S) <= Day * n - Day * m
  <2> DEFINE lo == Day * m
             hi == Day * n
  <2>1. lo \in Int /\ hi \in Int /\ lo <= hi
    BY <1>4
  <2>2. \A o \in S : HoldsBox(o) /\ lo <= queue[o].start /\ queue[o].end <= hi
    BY <1>5
  <2> HIDE DEF lo, hi
  <2>3. SumOver(Lasting, S) <= hi - lo
    BY <1>6, <2>1, <2>2, BoxPacked
  <2> QED
    BY <2>3 DEF lo, hi
<1> QED
  BY <1>1, <1>2, <1>7 DEF S, rows, bounds

(***************************************************************************)
(* The booked minutes of a day fit into its boxes, those of a report into  *)
(* its period, however many bookings, boxes and days there are.            *)
(***************************************************************************)
THEOREM UtilizationSafety == Spec => []UtilizationWithinDay
<1>1. Moments \subseteq Nat
  BY ViewsAssumption
<1>2. FiguresInv => UtilizationWithinDay
  BY <1>1, DayUtilized, PeriodUtilized DEF UtilizationWithinDay
<1> QED
  BY <1>2, FiguresInvariance, PTL

(* A row of a period falls into one of its bars. *)
LEMMA InABar ==
    ASSUME FiguresInv, NEW p, NEW period \in Period, NEW m \in Int, NEW n \in Int, m < n,
           period = "today" => n = m + 1,
           NEW bounds, bounds.start = Day * m, bounds.end = Day * n,
           NEW o \in FindByWashingPointAndRange(p, Day * m, Day * n)
    PROVE  /\ bucketIndex(period, bounds.start, queue[o].start) \in Buckets(period, bounds)
           /\ period # "today" => /\ Buckets(period, bounds) = 0 .. (n - m) - 1
                                  /\ bucketIndex(period, bounds.start, queue[o].start)
                                       = queue[o].start \div Day - m
<1> DEFINE s == queue[o].start
<1>1. o \in Booked /\ m <= s \div Day /\ s \div Day < n
  BY RowsOfDays
<1>2. s \in Int
  BY <1>1, RowFacts
<1> HIDE DEF s
<1>3. s \div Day \in Int /\ (s - Day * m) \div Day = s \div Day - m
  BY <1>2, DayNumbers
<1>4. (Day * n - Day * m) \div Day = n - m
  <2> DEFINE x == Day * n
  <2>1. x \in Int /\ x \div Day = n
    <3>1. x \in Int /\ Day \in Nat \ {0} /\ Day * n <= x /\ x < Day * n + Day
      BY ViewsAssumption
    <3> HIDE DEF x
    <3> QED
      BY <3>1, Division
  <2> HIDE DEF x
  <2>2. (x - Day * m) \div Day = x \div Day - m
    BY <2>1, DayNumbers
  <2> QED
    BY <2>1, <2>2 DEF x
<1>5. CASE period = "today"
  BY <1>2, <1>5, HourOfDay DEF bucketIndex, Buckets, s
<1>6. CASE period # "today"
  <2>1. Buckets(period, bounds) = 0 .. (n - m) - 1
    BY <1>4, <1>6 DEF Buckets
  <2>2. bucketIndex(period, bounds.start, s) = s \div Day - m
    BY <1>3, <1>6 DEF bucketIndex
  <2> QED
    BY <1>1, <1>3, <1>6, <2>1, <2>2 DEF s
<1> QED
  BY <1>5, <1>6

(* The bars add up to the revenue. *)
LEMMA BarsAddUp ==
    ASSUME FiguresInv, NEW p, NEW period \in Period, NEW prices \in Prices,
           NEW m \in Int, NEW n \in Int, m < n, period = "today" => n = m + 1,
           NEW bounds, bounds.start = Day * m, bounds.end = Day * n
    PROVE  LET rows == FindByWashingPointAndRange(p, Day * m, Day * n)
           IN  Revenue(Ready(rows), prices) = Total(reportBars(period, bounds, rows, prices))
<1> DEFINE rows == FindByWashingPointAndRange(p, Day * m, Day * n)
           S == Ready(rows)
           I == Buckets(period, bounds)
           f == Priced(prices)
           r == reportBars(period, bounds, rows, prices)
           c == [o \in S |-> bucketIndex(period, bounds.start, queue[o].start)]
<1>1. S \in SUBSET Booked /\ S \in SUBSET rows
  BY DEF FindByWashingPointAndRange, Ready
<1>2. Terms(f, Booked)
  BY FigureTerms
<1>3. IsFiniteSet(I)
  <2>1. Day \div Hour \in Int
    BY ViewsAssumption, Division
  <2>2. (bounds.end - bounds.start) \div Day \in Int
    <3> DEFINE x == bounds.end - bounds.start
    <3>1. x \in Int /\ Day \in Nat \ {0}
      BY ViewsAssumption
    <3> HIDE DEF x
    <3>2. x \div Day \in Int
      BY <3>1, Division
    <3> QED
      BY <3>2 DEF x
  <2> DEFINE k == IF period = "today" THEN Day \div Hour ELSE (bounds.end - bounds.start) \div Day
  <2>3. k - 1 \in Int /\ 0 \in Int
    BY <2>1, <2>2
  <2>4. I = 0 .. (k - 1)
    BY DEF Buckets
  <2> HIDE DEF k, I
  <2> QED
    BY <2>3, <2>4, FS_Interval
<1>4. c \in [S -> I]
  <2>1. \A o \in S : bucketIndex(period, bounds.start, queue[o].start) \in I
    BY <1>1, InABar
  <2> HIDE DEF S, I
  <2> QED
    BY <2>1
<1>5. ASSUME NEW i \in I PROVE r[i] = SumOver(f, Fiber(c, i, S))
  <2> DEFINE F == {o \in S : bucketIndex(period, bounds.start, queue[o].start) = i}
  <2>1. r[i] = Revenue(F, prices)
    BY DEF reportBars
  <2>2. F = Fiber(c, i, S) /\ F \in SUBSET Booked
    BY <1>1 DEF Fiber
  <2> HIDE DEF F, f, S, c, r
  <2>3. Revenue(F, prices) = SumOver(f, F)
    BY <2>2, FigureSums DEF f
  <2> QED
    BY <2>1, <2>2, <2>3
<1>6. Revenue(S, prices) = SumOver(f, S)
  BY <1>1, FigureSums
<1>7. DOMAIN r = I /\ r = [i \in I |-> r[i]]
  BY DEF reportBars
<1> HIDE DEF f, S, c, r, I
<1>8. Terms(r, I)
  <2>1. ASSUME NEW i \in I PROVE r[i] \in Int
    <3>1. Fiber(c, i, S) \in SUBSET Booked
      BY <1>1 DEF Fiber
    <3> QED
      BY <1>2, <1>5, <3>1, SumParts
  <2> QED
    BY <1>3, <1>7, <2>1 DEF Terms
<1>9. SumOver(f, S) = Total(r)
  BY <1>1, <1>2, <1>4, <1>5, <1>8, SumClasses
<1> QED
  BY <1>6, <1>9 DEF S, r

(* Finitely many services were sold. *)
LEMMA ServicesFinite ==
    ASSUME FiguresInv, NEW prices \in Prices, NEW rows \in SUBSET Booked
    PROVE  IsFiniteSet(Services(rows))
<1> DEFINE S == Ready(rows)
           sold == UNION {items[o] : o \in S}
           name == [it \in sold |-> it.service]
<1>1. S \in SUBSET Booked /\ IsFiniteSet(S)
  <2>1. S \in SUBSET Booked
    BY DEF Ready
  <2> QED
    BY <2>1, FS_Subset DEF FiguresInv, ViewsInv, Finite
<1>2. IsFiniteSet(sold)
  <2> DEFINE each == {items[o] : o \in S}
  <2>1. IsFiniteSet(each)
    BY <1>1, FiniteImage
  <2>2. \A T \in each : IsFiniteSet(T)
    BY <1>1, FigureTerms DEF Terms
  <2> HIDE DEF each
  <2>3. IsFiniteSet(UNION each)
    BY <2>1, <2>2, FS_UNION
  <2> QED
    BY <2>3 DEF each
<1>3. Services(rows) = {name[it] : it \in sold}
  BY DEF Services
<1> HIDE DEF sold, name
<1> QED
  BY <1>2, <1>3, FiniteImage

(* The services add up to the revenue. *)
LEMMA ServicesAddUp ==
    ASSUME FiguresInv, NEW prices \in Prices, NEW rows \in SUBSET Booked
    PROVE  Revenue(Ready(rows), prices)
             = Total([s \in Services(rows) |-> ServiceRevenue(rows, s, prices)])
<1> DEFINE S == Ready(rows)
           I == Services(rows)
           part(o, s) == SumOver(ItemPrices(o, prices), ItemsOf(o, s))
           h == [o \in S |-> [s \in I |-> part(o, s)]]
           t == [s \in I |-> [o \in S |-> part(o, s)]]
           r == [o \in S |-> bookingPrice(o, prices)]
           q == [s \in I |-> ServiceRevenue(rows, s, prices)]
<1>1. S \in SUBSET Booked /\ IsFiniteSet(S) /\ IsFiniteSet(I)
  <2>1. S \in SUBSET Booked
    BY DEF Ready
  <2> QED
    BY <2>1, ServicesFinite, FS_Subset DEF FiguresInv, ViewsInv, Finite
<1>2. ASSUME NEW o \in S
      PROVE  /\ Terms(ItemPrices(o, prices), items[o])
             /\ \A s \in I : ItemsOf(o, s) \in SUBSET items[o] /\ part(o, s) \in Int
             /\ \A it \in items[o] : it.service \in I
  <2>1. Terms(ItemPrices(o, prices), items[o])
    BY <1>1, FigureTerms
  <2>2. \A s \in I : ItemsOf(o, s) \in SUBSET items[o]
    BY DEF ItemsOf
  <2>3. \A s \in I : part(o, s) \in Int
    BY <2>1, <2>2, SumParts
  <2>4. \A it \in items[o] : it.service \in I
    BY DEF Services
  <2> QED
    BY <2>1, <2>2, <2>3, <2>4
<1>3. \A o \in S : \A s \in I : h[o][s] = t[s][o] /\ h[o][s] = part(o, s)
  OBVIOUS
<1>4. (\A o \in S : Terms(h[o], I)) /\ (\A s \in I : Terms(t[s], S))
  BY <1>1, <1>2 DEF Terms
<1>5. ASSUME NEW o \in S PROVE r[o] = Total(h[o])
  <2> DEFINE c == [it \in items[o] |-> it.service]
             f == ItemPrices(o, prices)
             ho == h[o]
  <2>1. Terms(f, items[o]) /\ Terms(ho, I) /\ c \in [items[o] -> I]
    BY <1>2, <1>4
  <2>2. ASSUME NEW s \in I PROVE ho[s] = SumOver(f, Fiber(c, s, items[o]))
    <3>1. Fiber(c, s, items[o]) = ItemsOf(o, s)
      BY DEF Fiber, ItemsOf
    <3> QED
      BY <3>1
  <2>3. r[o] = Total(f)
    BY DEF bookingPrice, ItemPrices
  <2> HIDE DEF c, f, ho, r, h
  <2>4. Total(f) = Total(ho)
    BY <2>1, <2>2, SumFibers
  <2> QED
    BY <2>3, <2>4 DEF ho
<1>6. ASSUME NEW s \in I PROVE q[s] = Total(t[s])
  <2> DEFINE u == [o \in S |-> Total([it \in ItemsOf(o, s) |-> prices[it.option]])]
  <2>1. ASSUME NEW o \in S PROVE Total([it \in ItemsOf(o, s) |-> prices[it.option]]) = part(o, s)
    <3>1. [it \in ItemsOf(o, s) |-> prices[it.option]]
            = [it \in ItemsOf(o, s) |-> ItemPrices(o, prices)[it]]
      BY DEF ItemPrices, ItemsOf
    <3> QED
      BY <3>1 DEF SumOver
  <2>2. u = t[s]
    <3> HIDE DEF S, I, part
    <3> QED
      BY <2>1
  <2>3. q[s] = Total(u)
    BY DEF ServiceRevenue
  <2> QED
    BY ONLY <2>2, <2>3
<1>7. Terms(r, S) /\ Terms(q, I)
  <2>1. ASSUME NEW o \in S PROVE r[o] \in Int
    <3> DEFINE ho == h[o]
    <3>1. Terms(ho, I) /\ r[o] = Total(ho)
      BY <1>4, <1>5
    <3> HIDE DEF ho, r
    <3> QED
      BY <3>1, SumIsInt
  <2>2. ASSUME NEW s \in I PROVE q[s] \in Int
    <3> DEFINE ts == t[s]
    <3>1. Terms(ts, S) /\ q[s] = Total(ts)
      BY <1>4, <1>6
    <3> HIDE DEF ts, q
    <3> QED
      BY <3>1, SumIsInt
  <2> QED
    BY <1>1, <2>1, <2>2 DEF Terms
<1>8. Revenue(S, prices) = Total(r)
  BY DEF Revenue
<1> HIDE DEF S, I, part, h, t, r, q
<1>9. TotalsOf(r, h, S, I) /\ TotalsOf(q, t, I, S) /\ Transposed(h, t, S, I)
  BY <1>3, <1>4, <1>5, <1>6, <1>7 DEF TotalsOf, Transposed
<1>10. Total(r) = Total(q)
  BY <1>9, SumSwap
<1> QED
  BY <1>8, <1>10 DEF S, q, I

(* The boxes that are listed and those that are not add up to the minutes. *)
LEMMA MinutesAddUp ==
    ASSUME FiguresInv, NEW rows \in SUBSET Booked, NEW boxes
    PROVE  SumOver(Lasting, InBoxes(rows))
             = SumOver(Lasting, {o \in InBoxes(rows) : queue[o].box \notin boxes})
                 + Total([b \in boxes \cap Washed(rows) |-> SumOver(Lasting, OfBox(rows, b))])
<1> DEFINE S == {o \in InBoxes(rows) : queue[o].box \in boxes}
           R == {o \in InBoxes(rows) : queue[o].box \notin boxes}
           I == boxes \cap Washed(rows)
           c == [o \in S |-> queue[o].box]
           r == [b \in I |-> SumOver(Lasting, OfBox(rows, b))]
<1>1. S \in SUBSET Booked /\ R \in SUBSET Booked /\ IsFiniteSet(S)
  <2>1. S \in SUBSET Booked /\ R \in SUBSET Booked
    BY DEF InBoxes, Ready
  <2> QED
    BY <2>1, FS_Subset DEF FiguresInv, ViewsInv, Finite
<1>2. Terms(Lasting, Booked)
  BY RowFacts DEF FiguresInv, ViewsInv, Finite, Terms, Lasting, Minutes
<1>3. I = {c[o] : o \in S} /\ c \in [S -> I]
  BY DEF Washed
<1>4. \A b \in I : OfBox(rows, b) = Fiber(c, b, S) /\ OfBox(rows, b) \in SUBSET Booked
  BY <1>1 DEF OfBox, Fiber
<1>5. IsFiniteSet(I)
  <2> HIDE DEF S, c, I
  <2> QED
    BY <1>1, <1>3, FiniteImage
<1>6. \A b \in I : r[b] = SumOver(Lasting, Fiber(c, b, S)) /\ r[b] \in Int
  BY <1>2, <1>4, SumParts
<1>7. Terms(r, I)
  BY <1>5, <1>6 DEF Terms
<1>8. InBoxes(rows) = R \cup S /\ R \cap S = {}
  OBVIOUS
<1> HIDE DEF S, R, c, I, r
<1>9. SumOver(Lasting, S) = Total(r)
  BY <1>1, <1>2, <1>3, <1>6, <1>7, SumClasses
<1>10. SumOver(Lasting, R \cup S) = SumOver(Lasting, R) + SumOver(Lasting, S)
  BY <1>1, <1>2, <1>8, SumUnion
<1> QED
  BY <1>8, <1>9, <1>10 DEF R, r, I

(* Every car is in a box that is listed, in one that is not, or in none. *)
LEMMA CarsAddUp ==
    ASSUME FiguresInv, NEW rows \in SUBSET Booked, NEW boxes \in SUBSET Boxes
    PROVE  Cardinality(Ready(rows))
             = Cardinality({o \in Ready(rows) : queue[o].box \notin boxes})
                 + Total([b \in boxes \cap Washed(rows) |-> Cardinality(OfBox(rows, b))])
<1> DEFINE S == {o \in InBoxes(rows) : queue[o].box \in boxes}
           N == {o \in Ready(rows) : queue[o].box \notin boxes}
           I == boxes \cap Washed(rows)
           c == [o \in S |-> queue[o].box]
           r == [b \in I |-> Cardinality(OfBox(rows, b))]
<1>1. \A o \in Ready(rows) : o \in Booked /\ (queue[o].overflow <=> queue[o].box \notin Boxes)
  BY RowFacts DEF Ready
<1>2. S \cup N = Ready(rows) /\ S \cap N = {} /\ S \in SUBSET Booked /\ N \in SUBSET Booked
  BY <1>1 DEF InBoxes
<1>3. IsFiniteSet(S) /\ IsFiniteSet(N)
  <2> HIDE DEF S, N
  <2> QED
    BY <1>2, FS_Subset DEF FiguresInv, ViewsInv, Finite
<1>4. I = {c[o] : o \in S} /\ c \in [S -> I]
  BY DEF Washed
<1>5. \A b \in I : OfBox(rows, b) = Fiber(c, b, S) /\ OfBox(rows, b) \in SUBSET S
  BY DEF OfBox, Fiber
<1>6. IsFiniteSet(I)
  <2> HIDE DEF S, c, I
  <2> QED
    BY <1>3, <1>4, FiniteImage
<1>7. \A b \in I : r[b] = Cardinality(Fiber(c, b, S)) /\ r[b] \in Int
  <2>1. ASSUME NEW b \in I PROVE Cardinality(OfBox(rows, b)) \in Nat
    <3> HIDE DEF S
    <3> QED
      BY <1>3, <1>5, FS_Subset, FS_CardinalityType
  <2> QED
    BY <1>5, <2>1
<1>8. Terms(r, I)
  BY <1>6, <1>7 DEF Terms
<1> HIDE DEF S, N, c, I, r
<1>9. Cardinality(S) = Total(r)
  BY <1>3, <1>4, <1>7, <1>8, CountFibers
<1>10. Cardinality(S \cup N) = Cardinality(S) + Cardinality(N)
  <2>1. Cardinality(S \cup N) = Cardinality(S) + Cardinality(N) - Cardinality(S \cap N)
    BY <1>3, FS_Union
  <2>2. Cardinality(S \cap N) = 0
    BY <1>2, FS_EmptySet
  <2> QED
    BY <1>3, <2>1, <2>2, FS_CardinalityType
<1>11. Cardinality(Ready(rows)) = Cardinality(N) + Cardinality(S)
  <2> DEFINE all == S \cup N
  <2>1. all = Ready(rows) /\ Cardinality(all) = Cardinality(S) + Cardinality(N)
    BY <1>2, <1>10
  <2> HIDE DEF all
  <2> QED
    BY <1>3, <2>1, FS_CardinalityType
<1> QED
  BY <1>9, <1>11 DEF N, r, I

(* What a day has brought in, by its number. *)
DayRevenue(p, j, prices) ==
    Revenue(Ready(FindByWashingPointAndRange(p, Day * j, Day * (j + 1))), prices)

(* It is what the report of the day says. *)
LEMMA ReportOfDay ==
    ASSUME NEW p, NEW j \in Int, NEW d, d = Day * j, NEW prices
    PROVE  buildReportsResponse(p, "today", d, {}, prices).current.revenue = DayRevenue(p, j, prices)
<1> DEFINE bounds == periodBounds("today", d)
           r == buildReportsResponse(p, "today", d, {}, prices)
<1>1. ReportSays(r, p, "today", d, {}, prices)
  BY ReportFields
<1>2. dayStart(d) = Day * j
  BY DayNumbers
<1>3. bounds.start = Day * j /\ bounds.end = Day * j + Day
  BY <1>2 DEF periodBounds
<1>4. Day * j + Day = Day * (j + 1)
  BY ViewsAssumption
<1> HIDE DEF r
<1>5. r.current.revenue
        = Revenue(Ready(FindByWashingPointAndRange(p, bounds.start, bounds.end)), prices)
  BY <1>1 DEF ReportSays
<1> HIDE DEF bounds
<1> QED
  BY <1>3, <1>4, <1>5 DEF DayRevenue, r

(* A bar of a week or a month is what its day has brought in. *)
LEMMA BarIsDay ==
    ASSUME FiguresInv, NEW p, NEW period \in Period, period # "today", NEW prices,
           NEW m \in Int, NEW n \in Int, m < n,
           NEW bounds, bounds.start = Day * m, bounds.end = Day * n,
           NEW i \in 0 .. (n - m) - 1
    PROVE  LET rows == FindByWashingPointAndRange(p, Day * m, Day * n)
           IN  /\ i \in Buckets(period, bounds)
               /\ reportBars(period, bounds, rows, prices)[i] = DayRevenue(p, m + i, prices)
<1> DEFINE rows == FindByWashingPointAndRange(p, Day * m, Day * n)
           F == {o \in Ready(rows) : bucketIndex(period, bounds.start, queue[o].start) = i}
           j == m + i
           day == FindByWashingPointAndRange(p, Day * j, Day * (j + 1))
<1>0. j \in Int /\ j + 1 \in Int /\ m <= j /\ j + 1 <= n
  OBVIOUS
<1>1. (Day * n - Day * m) \div Day = n - m
  <2> DEFINE x == Day * (n - m)
             k == n - m
  <2>1. x = Day * n - Day * m /\ x \in Int /\ Day \in Nat \ {0} /\ x = Day * k /\ k \in Int
    BY ViewsAssumption
  <2> HIDE DEF x, k
  <2>2. Day * k <= x /\ x < Day * k + Day
    BY <2>1
  <2>3. x \div Day = k
    BY <2>1, <2>2, Division
  <2> QED
    BY <2>1, <2>3 DEF k
<1>2. Buckets(period, bounds) = 0 .. (n - m) - 1
  BY <1>1 DEF Buckets
<1>3. reportBars(period, bounds, rows, prices)[i] = Revenue(F, prices)
  BY <1>2 DEF reportBars
<1>4. /\ rows = {o \in Booked : /\ queue[o].point = p
                                /\ m <= queue[o].start \div Day /\ queue[o].start \div Day < n}
      /\ day = {o \in Booked : /\ queue[o].point = p
                               /\ j <= queue[o].start \div Day /\ queue[o].start \div Day < j + 1}
  <2> HIDE DEF j
  <2> QED
    BY <1>0, RowsOfDays
<1>5. F = Ready(day)
  <2>1. ASSUME NEW o \in rows
        PROVE  /\ queue[o].start \div Day \in Int
               /\ bucketIndex(period, bounds.start, queue[o].start) = queue[o].start \div Day - m
    <3> DEFINE s == queue[o].start
    <3>1. s \in Int
      BY <1>4, RowFacts
    <3>2. bucketIndex(period, bounds.start, s) = (s - Day * m) \div Day
      BY DEF bucketIndex
    <3> HIDE DEF s, rows, F, day, j
    <3>3. s \div Day \in Int /\ (s - Day * m) \div Day = s \div Day - m
      BY <3>1, DayNumbers
    <3> QED
      BY <3>2, <3>3 DEF s
  <2>2. \A o \in Booked : queue[o].start \div Day \in Int
    <3>1. ASSUME NEW o \in Booked PROVE queue[o].start \div Day \in Int
      <4>1. queue[o].start \in Int
        BY RowFacts
      <4> QED
        BY <4>1, DayNumbers
    <3> QED
      BY <3>1
  <2>3. day \subseteq rows
    <3> HIDE DEF rows, day, j
    <3> QED
      BY <1>0, <1>4, <2>2
  <2>4. ASSUME NEW o \in rows
        PROVE  o \in day <=> bucketIndex(period, bounds.start, queue[o].start) = i
    <3> DEFINE k == queue[o].start \div Day
    <3>1. /\ k \in Int /\ bucketIndex(period, bounds.start, queue[o].start) = k - m
          /\ o \in day <=> j <= k /\ k < j + 1
      <4> HIDE DEF rows, day, j
      <4> QED
        BY <1>4, <2>1, <2>4
    <3> HIDE DEF rows, day, k
    <3> QED
      BY <3>1
  <2> HIDE DEF rows, day, j
  <2> QED
    BY <2>3, <2>4 DEF Ready
<1> HIDE DEF F, rows
<1> QED
  BY <1>2, <1>3, <1>5 DEF DayRevenue, rows

(* And the k days before day n have, one by one. *)
DaysBefore(p, n, k, prices) == [i \in 1 .. k |-> DayRevenue(p, n - i, prices)]

(* Days in a row bring in what each of them does. *)
LEMMA DaysAddUp ==
    ASSUME FiguresInv, NEW p, NEW prices \in Prices, NEW n \in Int, NEW k \in Nat
    PROVE  Revenue(Ready(FindByWashingPointAndRange(p, Day * (n - k), Day * n)), prices)
             = Total(DaysBefore(p, n, k, prices))
<1> DEFINE m == n - k
           rows == FindByWashingPointAndRange(p, Day * m, Day * n)
           S == Ready(rows)
           I == 1 .. k
           f == Priced(prices)
           c == [o \in S |-> n - queue[o].start \div Day]
           r == DaysBefore(p, n, k, prices)
<1>1. S \in SUBSET Booked
  BY DEF FindByWashingPointAndRange, Ready
<1>2. Terms(f, Booked)
  BY FigureTerms
<1>3. IsFiniteSet(I)
  BY FS_Interval
<1>4. \A o \in Booked : queue[o].start \div Day \in Int
  <2>1. ASSUME NEW o \in Booked PROVE queue[o].start \div Day \in Int
    <3>1. queue[o].start \in Int
      BY RowFacts
    <3> QED
      BY <3>1, DayNumbers
  <2> QED
    BY <2>1
<1>5. S = {o \in Booked : /\ queue[o].status = "ready" /\ queue[o].point = p
                         /\ m <= queue[o].start \div Day /\ queue[o].start \div Day < n}
  <2>1. rows = {o \in Booked : /\ queue[o].point = p
                              /\ m <= queue[o].start \div Day /\ queue[o].start \div Day < n}
    <3>1. m \in Int
      OBVIOUS
    <3> HIDE DEF m
    <3> QED
      BY <3>1, RowsOfDays
  <2> HIDE DEF rows, m
  <2> QED
    BY <2>1 DEF Ready
<1>6. c \in [S -> I]
  <2>1. ASSUME NEW o \in S PROVE n - queue[o].start \div Day \in I
    <3> DEFINE d == queue[o].start \div Day
    <3>1. d \in Int /\ n - k <= d /\ d < n
      BY <1>4, <1>5
    <3> HIDE DEF d
    <3>2. n - d \in 1 .. k
      BY <3>1
    <3> QED
      BY <3>2 DEF d
  <2> HIDE DEF S, I
  <2> QED
    BY <2>1
<1>7. ASSUME NEW i \in I PROVE r[i] = SumOver(f, Fiber(c, i, S))
  <2> DEFINE j == n - i
             F == Ready(FindByWashingPointAndRange(p, Day * j, Day * (j + 1)))
  <2>0. j \in Int /\ j + 1 \in Int
    OBVIOUS
  <2>1. F = {o \in Booked : /\ queue[o].status = "ready" /\ queue[o].point = p
                           /\ j <= queue[o].start \div Day /\ queue[o].start \div Day < j + 1}
    <3> HIDE DEF j
    <3>1. FindByWashingPointAndRange(p, Day * j, Day * (j + 1))
            = {o \in Booked : /\ queue[o].point = p
                             /\ j <= queue[o].start \div Day /\ queue[o].start \div Day < j + 1}
      BY <2>0, RowsOfDays
    <3> QED
      BY <3>1 DEF Ready
  <2>2. F = Fiber(c, i, S)
    <3>1. ASSUME NEW o \in Booked
          PROVE  /\ j <= queue[o].start \div Day /\ queue[o].start \div Day < j + 1
                 <=> /\ m <= queue[o].start \div Day /\ queue[o].start \div Day < n
                     /\ n - queue[o].start \div Day = i
      <4> DEFINE d == queue[o].start \div Day
      <4>1. d \in Int /\ i \in 1 .. k
        BY <1>4
      <4> HIDE DEF d
      <4>2. (j <= d /\ d < j + 1) <=> (m <= d /\ d < n /\ n - d = i)
        BY <4>1
      <4> QED
        BY <4>2 DEF d
    <3>2. \A o \in S : c[o] = n - queue[o].start \div Day
      OBVIOUS
    <3> HIDE DEF F, S, c, j, m
    <3> QED
      BY <1>5, <2>1, <3>1, <3>2 DEF Fiber
  <2>3. F \in SUBSET Booked
    BY <2>1
  <2>4. r[i] = Revenue(F, prices)
    BY DEF DayRevenue, DaysBefore
  <2> HIDE DEF F, f, S, c, r
  <2>5. Revenue(F, prices) = SumOver(f, F)
    BY <2>3, FigureSums DEF f
  <2> QED
    BY <2>2, <2>4, <2>5
<1>8. Revenue(S, prices) = SumOver(f, S)
  BY <1>1, FigureSums
<1>9. r = [i \in I |-> r[i]]
  BY DEF DaysBefore
<1> HIDE DEF f, S, c, r, I
<1>10. Terms(r, I)
  <2>1. ASSUME NEW i \in I PROVE r[i] \in Int
    <3>1. Fiber(c, i, S) \in SUBSET Booked
      BY <1>1 DEF Fiber
    <3> QED
      BY <1>2, <1>7, <3>1, SumParts
  <2> QED
    BY <1>3, <1>9, <2>1 DEF Terms
<1>11. SumOver(f, S) = Total(r)
  BY <1>1, <1>2, <1>6, <1>7, <1>10, SumClasses
<1> QED
  BY <1>8, <1>11 DEF S, r, I

(* Each clause, of one report. *)
LEMMA ReportAgrees ==
    ASSUME FiguresInv, NEW p \in Points, NEW period \in Period, NEW t \in Moments,
           NEW prices \in Prices, NEW boxes \in SUBSET Boxes
    PROVE  LET r      == buildReportsResponse(p, period, t, boxes, prices)
               bounds == periodBounds(period, t)
               days   == (bounds.end - bounds.start) \div Day
               revenueOf(d) == buildReportsResponse(p, "today", d, {}, prices).current.revenue
               inNoBox == {o \in Ready(FindByWashingPointAndRange(p, bounds.start, bounds.end)) :
                               queue[o].box \notin boxes}
               removed == {o \in inNoBox : ~queue[o].overflow}
           IN  /\ r.current.revenue = Total(r.bars)
               /\ r.current.revenue = Total(r.services)
               /\ r.current.cars
                    = Cardinality(inNoBox) + Total([b \in DOMAIN r.boxes |-> r.boxes[b].cars])
               /\ r.current.minutes = Total([o \in removed |-> Minutes(o)])
                                       + Total([b \in DOMAIN r.boxes |-> r.boxes[b].minutes])
               /\ period # "today" =>
                    \A i \in DOMAIN r.bars : r.bars[i] = revenueOf(bounds.start + i * Day)
               /\ r.previous.revenue
                    = Total([i \in 1 .. days |-> revenueOf(bounds.start - i * Day)])
<1> DEFINE r      == buildReportsResponse(p, period, t, boxes, prices)
           bounds == periodBounds(period, t)
           before == previousPeriodBounds(bounds)
           days   == (bounds.end - bounds.start) \div Day
           revenueOf(d) == buildReportsResponse(p, "today", d, {}, prices).current.revenue
           rows   == FindByWashingPointAndRange(p, bounds.start, bounds.end)
           prior  == FindByWashingPointAndRange(p, before.start, before.end)
           inNoBox == {o \in Ready(rows) : queue[o].box \notin boxes}
           removed == {o \in inNoBox : ~queue[o].overflow}
<1>1. t \in Nat
  BY ViewsAssumption
<1>2. PICK m, n \in Int :
         /\ m < n /\ bounds.start = Day * m /\ bounds.end = Day * n
         /\ before.start = Day * (m - (n - m)) /\ before.end = Day * m
         /\ period = "today" => n = m + 1
  BY <1>1, PeriodDays
<1> DEFINE k == n - m
<1>3. days = k /\ k \in Nat /\ Day \in Nat \ {0}
  <2> DEFINE x == Day * k
  <2>1. x = Day * n - Day * m /\ x \in Int /\ Day \in Nat \ {0} /\ k \in Nat
    BY <1>2, ViewsAssumption
  <2>2. days = x \div Day
    BY <1>2, <2>1
  <2>3. Day * k <= x /\ x < Day * k + Day
    BY <2>1
  <2> HIDE DEF x, k, days
  <2> QED
    BY <2>1, <2>2, <2>3, Division
<1>4. rows \in SUBSET Booked
  BY DEF FindByWashingPointAndRange
<1>5. ReportSays(r, p, period, t, boxes, prices)
  BY ReportFields
<1> HIDE DEF r
<1>6. /\ r.current.cars = Cardinality(Ready(rows))
      /\ r.current.revenue = Revenue(Ready(rows), prices)
      /\ r.current.minutes = SumOver(Lasting, InBoxes(rows))
      /\ r.previous.revenue = Revenue(Ready(prior), prices)
      /\ r.bars = reportBars(period, bounds, rows, prices)
      /\ r.services = [s \in Services(rows) |-> ServiceRevenue(rows, s, prices)]
      /\ DOMAIN r.boxes = boxes \cap Washed(rows)
      /\ \A b \in DOMAIN r.boxes : /\ r.boxes[b].cars = Cardinality(OfBox(rows, b))
                                   /\ r.boxes[b].minutes = SumOver(Lasting, OfBox(rows, b))
  BY <1>5 DEF ReportSays
<1>7. /\ removed = {o \in InBoxes(rows) : queue[o].box \notin boxes} /\ removed \in SUBSET Booked
  BY <1>4 DEF InBoxes, Ready
<1> HIDE DEF bounds, before, days, rows, prior, k, revenueOf, inNoBox, removed
<1>8. rows = FindByWashingPointAndRange(p, Day * m, Day * n)
  BY <1>2 DEF rows
<1>9. r.current.revenue = Total(r.bars)
  <2>1. Revenue(Ready(rows), prices) = Total(reportBars(period, bounds, rows, prices))
    BY <1>2, <1>8, BarsAddUp
  <2> QED
    BY <1>6, <2>1
<1>10. r.current.revenue = Total(r.services)
  BY <1>4, <1>6, ServicesAddUp
<1>11. [b \in DOMAIN r.boxes |-> r.boxes[b].cars]
          = [b \in boxes \cap Washed(rows) |-> Cardinality(OfBox(rows, b))]
  BY <1>6
<1>12. [b \in DOMAIN r.boxes |-> r.boxes[b].minutes]
          = [b \in boxes \cap Washed(rows) |-> SumOver(Lasting, OfBox(rows, b))]
  BY <1>6
<1>13. r.current.cars = Cardinality(inNoBox) + Total([b \in DOMAIN r.boxes |-> r.boxes[b].cars])
  <2> DEFINE parts == [b \in boxes \cap Washed(rows) |-> Cardinality(OfBox(rows, b))]
  <2>1. Cardinality(Ready(rows)) = Cardinality(inNoBox) + Total(parts)
    BY <1>4, CarsAddUp DEF inNoBox
  <2>2. [b \in DOMAIN r.boxes |-> r.boxes[b].cars] = parts
    BY <1>11
  <2> HIDE DEF parts
  <2> QED
    BY <1>6, <2>1, <2>2
<1>14. r.current.minutes = Total([o \in removed |-> Minutes(o)])
                           + Total([b \in DOMAIN r.boxes |-> r.boxes[b].minutes])
  <2>1. Total([o \in removed |-> Minutes(o)]) = SumOver(Lasting, removed)
    BY <1>7, FigureSums
  <2> DEFINE parts == [b \in boxes \cap Washed(rows) |-> SumOver(Lasting, OfBox(rows, b))]
             out == {o \in InBoxes(rows) : queue[o].box \notin boxes}
  <2>2. SumOver(Lasting, InBoxes(rows)) = SumOver(Lasting, out) + Total(parts)
    BY <1>4, MinutesAddUp
  <2>3. removed = out /\ [b \in DOMAIN r.boxes |-> r.boxes[b].minutes] = parts
    BY <1>7, <1>12
  <2> HIDE DEF parts, out
  <2> QED
    BY <1>6, <2>1, <2>2, <2>3
<1>15. ASSUME period # "today", NEW i \in DOMAIN r.bars
       PROVE  r.bars[i] = revenueOf(bounds.start + i * Day)
  <2>1. i \in 0 .. k - 1
    <3>1. DOMAIN r.bars = Buckets(period, bounds)
      BY <1>6 DEF reportBars
    <3>2. Buckets(period, bounds) = 0 .. days - 1
      BY <1>15 DEF Buckets, days
    <3> QED
      BY <1>3, <1>15, <3>1, <3>2
  <2>2. reportBars(period, bounds, rows, prices)[i] = DayRevenue(p, m + i, prices)
    <3>1. i \in 0 .. (n - m) - 1
      BY <2>1 DEF k
    <3> QED
      BY <1>2, <1>8, <1>15, <3>1, BarIsDay
  <2>3. bounds.start + i * Day = Day * (m + i) /\ m + i \in Int
    BY <1>2, <1>3, <2>1
  <2> DEFINE d == bounds.start + i * Day
             j == m + i
  <2>4. d = Day * j /\ j \in Int
    BY <2>3
  <2>5. revenueOf(d) = DayRevenue(p, j, prices)
    <3> HIDE DEF d, j
    <3> QED
      BY <2>4, ReportOfDay DEF revenueOf
  <2> QED
    BY <1>6, <2>2, <2>5
<1>16. r.previous.revenue = Total([i \in 1 .. days |-> revenueOf(bounds.start - i * Day)])
  <2>1. prior = FindByWashingPointAndRange(p, Day * (m - k), Day * m)
    BY <1>2 DEF prior, k
  <2>2. r.previous.revenue = Total(DaysBefore(p, m, k, prices))
    BY <1>3, <1>6, <2>1, DaysAddUp
  <2>3. ASSUME NEW i \in 1 .. k
        PROVE  revenueOf(bounds.start - i * Day) = DayRevenue(p, m - i, prices)
    <3> DEFINE d == bounds.start - i * Day
               j == m - i
    <3>1. d = Day * j /\ j \in Int
      BY <1>2, <1>3
    <3> HIDE DEF d, j
    <3>2. revenueOf(d) = DayRevenue(p, j, prices)
      BY <3>1, ReportOfDay DEF revenueOf
    <3> QED
      BY <3>2 DEF d, j
  <2>4. [i \in 1 .. days |-> revenueOf(bounds.start - i * Day)]
          = DaysBefore(p, m, k, prices)
    BY <1>3, <2>3 DEF DaysBefore
  <2> QED
    BY <2>2, <2>4
<1> QED
  BY <1>9, <1>10, <1>13, <1>14, <1>15, <1>16
     DEF r, bounds, days, rows, revenueOf, inNoBox, removed

(***************************************************************************)
(* A report agrees with itself and with the reports of its days, whatever  *)
(* was booked, whatever it costs now and whichever boxes are left: bars,   *)
(* services, boxes listed or removed, and days are four ways of dividing   *)
(* up the same washes.                                                     *)
(***************************************************************************)
THEOREM ReportSafety == Spec => []ReportsAgree
<1>1. Moments \subseteq Nat
  BY ViewsAssumption
<1>2. FiguresInv => ReportsAgree
  BY <1>1, ReportAgrees DEF ReportsAgree
<1> QED
  BY <1>2, FiguresInvariance, PTL

-----------------------------------------------------------------------------
(* The statistics of a code *)

(* What two finite sets cover is no more than they have. *)
LEMMA Covered ==
    ASSUME NEW A, NEW B, NEW C, IsFiniteSet(B), IsFiniteSet(C), A \subseteq B \cup C
    PROVE  Cardinality(A) <= Cardinality(B) + Cardinality(C)
<1> DEFINE u == B \cup C
<1>1. IsFiniteSet(u) /\ Cardinality(u) = Cardinality(B) + Cardinality(C) - Cardinality(B \cap C)
  BY FS_Union
<1>2. B \cap C \in SUBSET B /\ A \in SUBSET u
  OBVIOUS
<1> HIDE DEF u
<1>3. Cardinality(A) <= Cardinality(u)
  BY <1>1, <1>2, FS_Subset
<1>4. IsFiniteSet(A) /\ IsFiniteSet(B \cap C)
  BY <1>1, <1>2, FS_Subset
<1>5. /\ Cardinality(A) \in Nat /\ Cardinality(B) \in Nat /\ Cardinality(C) \in Nat
      /\ Cardinality(u) \in Nat /\ Cardinality(B \cap C) \in Nat
  BY <1>1, <1>4, FS_CardinalityType
<1> QED
  BY <1>1, <1>3, <1>5

(* The day of the week a scan falls on, of the scans of the week. *)
OnDay(times, weekAgo, d) == {i \in times : (scans[i] - weekAgo) \div Day = d}

(* Today's scans are among the week's, and the week's in its days or later. *)
LEMMA ScansCovered ==
    ASSUME FiguresInv, NEW now \in Nat,
           NEW n1 \in 0 .. Len(scans), NEW n2 \in 0 .. Len(scans), NEW n3 \in 0 .. Len(scans),
           n1 <= n2, n2 <= n3, NEW weekAgo, weekAgo = dayStart(now) - (WeekDays - 1) * Day
    PROVE  LET times == ScanTimesSince(n3, weekAgo)
               after == {i \in 1 .. n3 : scans[i] >= dayStart(now) + Day}
           IN  /\ ScanTimesSince(n1, dayStart(now)) \subseteq ScanTimesSince(n2, weekAgo)
               /\ ScanTimesSince(n1, dayStart(now))
                    \subseteq OnDay(times, weekAgo, WeekDays - 1) \cup after
               /\ ScanTimesSince(n2, weekAgo)
                    \subseteq (UNION {OnDay(times, weekAgo, d) : d \in 0 .. WeekDays - 1}) \cup after
<1> DEFINE q == now \div Day
           w == q - (WeekDays - 1)
           v == WeekDays - 1
           today == dayStart(now)
           times == ScanTimesSince(n3, weekAgo)
           after == {i \in 1 .. n3 : scans[i] >= today + Day}
<1>1. Day \in Nat \ {0} /\ WeekDays \in Nat \ {0} /\ q \in Int /\ today = Day * q
  BY ViewsAssumption, DayNumbers
<1> HIDE DEF q, today
<1>2. /\ v \in Nat /\ w \in Int /\ weekAgo = Day * w /\ q - w = v
      /\ today + Day = Day * (q + 1) /\ weekAgo <= today /\ today \in Int /\ weekAgo \in Int
  <2>1. v \in Nat /\ w \in Int /\ q - w = v /\ w <= q
    BY <1>1
  <2>2. v * Day = Day * v /\ Day * q - Day * v = Day * (q - v) /\ Day * (q + 1) = Day * q + Day
    BY <1>1, <2>1
  <2>3. weekAgo = Day * w /\ today + Day = Day * (q + 1)
    BY <1>1, <2>2 DEF today
  <2>4. Day * w <= Day * q /\ Day * w \in Int /\ Day * q \in Int
    BY <1>1, <2>1, Products
  <2> QED
    BY <1>1, <2>1, <2>3, <2>4
<1>3. ASSUME NEW i \in 1 .. n3, scans[i] >= weekAgo
      PROVE  /\ (scans[i] - weekAgo) \div Day \in Int /\ 0 <= (scans[i] - weekAgo) \div Day
             /\ scans[i] >= today + Day \/ (scans[i] - weekAgo) \div Day <= v
             /\ scans[i] >= today => v <= (scans[i] - weekAgo) \div Day
  <2> DEFINE x == scans[i]
             d == x \div Day
  <2>1. x \in Int /\ weekAgo <= x
    <3>1. scans \in Seq(Nat)
      BY DEF FiguresInv
    <3>2. i \in 1 .. Len(scans)
      BY <3>1
    <3>3. scans[i] \in Nat
      BY <3>1, <3>2
    <3> QED
      BY <1>3, <3>3
  <2> HIDE DEF x
  <2>2. d \in Int /\ (x - weekAgo) \div Day = d - w /\ w <= d
    BY <1>2, <2>1, DayNumbers
  <2>3. (x < today + Day <=> d < q + 1) /\ (today <= x <=> q <= d)
    <3> DEFINE j == q + 1
    <3>1. j \in Int /\ today + Day = Day * j
      BY <1>1, <1>2
    <3> HIDE DEF j
    <3>2. (x < Day * j <=> x \div Day < j) /\ (Day * q <= x <=> q <= x \div Day)
      BY <1>1, <2>1, <3>1, DayNumbers
    <3> QED
      BY <1>1, <3>1, <3>2 DEF j
  <2> HIDE DEF d, v, w
  <2>4. d - w \in Int /\ 0 <= d - w /\ (d < q + 1 => d - w <= v) /\ (q <= d => v <= d - w)
    BY <1>1, <1>2, <2>2
  <2>5. x >= today + Day \/ d < q + 1
    BY <1>1, <1>2, <2>1, <2>3
  <2>6. x >= today => q <= d
    BY <1>2, <2>1, <2>3
  <2> QED
    BY <2>2, <2>4, <2>5, <2>6 DEF x
<1> HIDE DEF v, w
<1>4. ASSUME NEW i \in ScanTimesSince(n1, today)
      PROVE  i \in ScanTimesSince(n2, weekAgo) /\ i \in OnDay(times, weekAgo, v) \cup after
  <2>1. i \in 1 .. n1 /\ scans[i] >= today /\ i \in 1 .. n2 /\ i \in 1 .. n3 /\ scans[i] \in Int
    BY DEF ScanTimesSince, FiguresInv
  <2>2. scans[i] >= weekAgo
    BY <1>2, <2>1
  <2>3. scans[i] >= today + Day \/ (scans[i] - weekAgo) \div Day = v
    BY <1>2, <1>3, <2>1, <2>2
  <2> QED
    BY <2>1, <2>2, <2>3 DEF ScanTimesSince, OnDay
<1>5. ASSUME NEW i \in ScanTimesSince(n2, weekAgo)
      PROVE  i \in after \/ \E d \in 0 .. v : i \in OnDay(times, weekAgo, d)
  <2>1. i \in 1 .. n2 /\ scans[i] >= weekAgo /\ i \in 1 .. n3
    BY DEF ScanTimesSince
  <2>2. scans[i] >= today + Day \/ (scans[i] - weekAgo) \div Day \in 0 .. v
    BY <1>2, <1>3, <2>1
  <2> QED
    BY <2>1, <2>2 DEF ScanTimesSince, OnDay
<1> QED
  BY <1>4, <1>5 DEF v, today

(* What the days of a week have, they have together. *)
LEMMA DaysCount ==
    ASSUME NEW times, IsFiniteSet(times), NEW weekAgo, NEW k \in Nat
    PROVE  /\ IsFiniteSet(UNION {OnDay(times, weekAgo, d) : d \in 0 .. k})
           /\ Cardinality(UNION {OnDay(times, weekAgo, d) : d \in 0 .. k})
                = Total([d \in 0 .. k |-> Cardinality(OnDay(times, weekAgo, d))])
<1> DEFINE D == UNION {OnDay(times, weekAgo, d) : d \in 0 .. k}
           I == 0 .. k
           c == [i \in D |-> (scans[i] - weekAgo) \div Day]
           r == [d \in I |-> Cardinality(OnDay(times, weekAgo, d))]
<1>1. D \in SUBSET times
  BY DEF OnDay
<1>2. IsFiniteSet(D) /\ IsFiniteSet(I)
  <2>1. IsFiniteSet(I)
    BY FS_Interval
  <2> HIDE DEF D
  <2> QED
    BY <1>1, <2>1, FS_Subset
<1>3. c \in [D -> I]
  BY DEF OnDay
<1>4. ASSUME NEW d \in I PROVE OnDay(times, weekAgo, d) = Fiber(c, d, D)
  BY DEF OnDay, Fiber
<1>5. ASSUME NEW d \in I PROVE Cardinality(OnDay(times, weekAgo, d)) \in Nat
  <2>1. OnDay(times, weekAgo, d) \in SUBSET times
    BY DEF OnDay
  <2> QED
    BY <2>1, FS_Subset, FS_CardinalityType
<1>6. Terms(r, I) /\ \A d \in I : r[d] = Cardinality(Fiber(c, d, D))
  BY <1>2, <1>4, <1>5 DEF Terms
<1> HIDE DEF D, I, c, r
<1>7. Cardinality(D) = Total(r)
  BY <1>2, <1>3, <1>6, CountFibers
<1> QED
  BY <1>2, <1>7 DEF D, r, I

(* The figures of a code, when its queries saw ever more scans. *)
LEMMA StatsAddUp ==
    ASSUME FiguresInv, NEW p, NEW now \in Nat,
           NEW n1 \in 0 .. Len(scans), NEW n2 \in 0 .. Len(scans), NEW n3 \in 0 .. Len(scans),
           n1 <= n2, n2 <= n3
    PROVE  LET s == Stats(p, now, n1, n2, n3)
               afterMidnight == CountScans(n3, dayStart(now) + Day)
           IN  /\ s.scansToday <= s.scans7d
               /\ s.scansToday <= s.scansByDay[WeekDays - 1] + afterMidnight
               /\ s.scans7d <= Total(s.scansByDay) + afterMidnight
               /\ s.bookingsViaQR <= Cardinality({o \in Booked : queue[o].point = p})
<1> DEFINE s == Stats(p, now, n1, n2, n3)
           weekAgo == dayStart(now) - (WeekDays - 1) * Day
           times == ScanTimesSince(n3, weekAgo)
           after == {i \in 1 .. n3 : scans[i] >= dayStart(now) + Day}
           today == ScanTimesSince(n1, dayStart(now))
           week  == ScanTimesSince(n2, weekAgo)
           k     == WeekDays - 1
           days  == UNION {OnDay(times, weekAgo, d) : d \in 0 .. k}
           byDay == [d \in 0 .. k |-> Cardinality(OnDay(times, weekAgo, d))]
<1>1. /\ s.scansToday = Cardinality(today) /\ s.scans7d = Cardinality(week)
      /\ s.scansByDay = byDay /\ s.bookingsViaQR = CountCreatedNearTimes(p, times)
      /\ CountScans(n3, dayStart(now) + Day) = Cardinality(after)
  BY DEF Stats, CountScans, ScanTimesSince, OnDay
<1>2. today \subseteq week /\ today \subseteq OnDay(times, weekAgo, k) \cup after
      /\ week \subseteq days \cup after
  <2> DEFINE ago == weekAgo
  <2>1. ago = dayStart(now) - (WeekDays - 1) * Day
    OBVIOUS
  <2> HIDE DEF ago
  <2>2. LET tms == ScanTimesSince(n3, ago)
        IN  /\ ScanTimesSince(n1, dayStart(now)) \subseteq ScanTimesSince(n2, ago)
            /\ ScanTimesSince(n1, dayStart(now))
                 \subseteq OnDay(tms, ago, WeekDays - 1) \cup after
            /\ ScanTimesSince(n2, ago)
                 \subseteq (UNION {OnDay(tms, ago, d) : d \in 0 .. WeekDays - 1}) \cup after
    BY <2>1, ScansCovered
  <2> QED
    BY <2>2 DEF ago
<1>3. k \in Nat
  BY ViewsAssumption
<1>4. IsFiniteSet(times) /\ IsFiniteSet(after) /\ IsFiniteSet(week)
  <2>1. IsFiniteSet(1 .. n3) /\ IsFiniteSet(1 .. n2)
    BY FS_Interval
  <2>2. times \in SUBSET (1 .. n3) /\ after \in SUBSET (1 .. n3) /\ week \in SUBSET (1 .. n2)
    BY DEF ScanTimesSince
  <2> HIDE DEF times, after, week
  <2> QED
    BY <2>1, <2>2, FS_Subset
<1>5. byDay[k] = Cardinality(OnDay(times, weekAgo, k)) /\ IsFiniteSet(OnDay(times, weekAgo, k))
  <2>1. OnDay(times, weekAgo, k) \in SUBSET times /\ k \in 0 .. k
    BY <1>3 DEF OnDay
  <2> HIDE DEF times, k
  <2> QED
    BY <1>4, <2>1, FS_Subset
<1>6. IsFiniteSet(days) /\ Cardinality(days) = Total(byDay)
  <2> HIDE DEF times, weekAgo, k
  <2> QED
    BY <1>3, <1>4, DaysCount
<1>7. s.bookingsViaQR <= Cardinality({o \in Booked : queue[o].point = p})
  <2> DEFINE all == {o \in Booked : queue[o].point = p}
             near == {o \in Booked :
                        /\ queue[o].point = p
                        /\ \E i \in times : scans[i] <= created_at[o]
                                           /\ created_at[o] <= scans[i] + Window}
  <2>1. near \in SUBSET all /\ all \in SUBSET Booked /\ s.bookingsViaQR = Cardinality(near)
    BY <1>1 DEF CountCreatedNearTimes
  <2> HIDE DEF all, near, s
  <2>2. IsFiniteSet(all)
    BY <2>1, FS_Subset DEF FiguresInv, ViewsInv, Finite
  <2> QED
    BY <2>1, <2>2, FS_Subset DEF all
<1> HIDE DEF s, times, after, today, week, days, byDay, weekAgo
<1>8. Cardinality(today) <= Cardinality(week)
  BY <1>2, <1>4, FS_Subset
<1>9. Cardinality(today) <= byDay[k] + Cardinality(after)
  BY <1>2, <1>4, <1>5, Covered
<1>10. Cardinality(week) <= Total(byDay) + Cardinality(after)
  BY <1>2, <1>4, <1>6, Covered
<1> QED
  BY <1>1, <1>7, <1>8, <1>9, <1>10 DEF s, k

(***************************************************************************)
(* The figures of a code add up, however many scans come in between its    *)
(* queries, and no booking is attributed to it twice.                      *)
(***************************************************************************)
THEOREM ScanSafety == Spec => []ScansAddUp
<1>1. FiguresInv => ScansAddUp
  <2> SUFFICES ASSUME FiguresInv PROVE ScansAddUp
    OBVIOUS
  <2>1. \A now \in 0 .. clock : now \in Nat
    BY DEF FiguresInv, ViewsInv, CreationOrder
  <2> QED
    BY <2>1, StatsAddUp DEF ScansAddUp
<1> QED
  BY <1>1, FiguresInvariance, PTL

-----------------------------------------------------------------------------
(* The streams of a point, for any number of them and of writers.          *)

(* Where the k-th read of the snapshot in hand has been done. *)
Done(k) == IF k = 1 THEN {"read2", "send", "wait"} ELSE {"send", "wait"}

(***************************************************************************)
(* NoLostWakeup has to hold from the moment of the read, not only while    *)
(* the stream sleeps: a change may come between the read and the sleep.    *)
(***************************************************************************)
Remembered ==
    \A s \in Streams, k \in {1, 2} :
        s \in subs /\ woken[s] /\ spc[s] \in Done(k) /\ Reads(s, k) = "rows" /\ Stale(s, k)
        => signal[s] = 1 \/ PublishComing

(* A stream takes wakeups only while it is subscribed. *)
WokenSubscribed == \A s \in Streams : woken[s] => s \in subs

StreamInv == TypeOK /\ NoLeakedSubscriber /\ WokenSubscribed /\ Remembered

(* Nobody is connected at the start. *)
LEMMA InitStreamInv == StreamInit => StreamInv
<1> SUFFICES ASSUME StreamInit PROVE StreamInv
  OBVIOUS
<1>1. TypeOK
  <2>1. version \in [rows : 0..MaxCommits, open : 0..MaxFlips]
    BY StreamAssumption DEF StreamInit
  <2>2. seen \in [Streams -> [{1, 2} -> Nat]] /\ signal \in [Streams -> 0..1]
    BY DEF StreamInit
  <2> QED
    BY <2>1, <2>2 DEF StreamInit, TypeOK, NoJob
<1>2. NoLeakedSubscriber /\ WokenSubscribed /\ Remembered
  BY DEF StreamInit, NoLeakedSubscriber, WokenSubscribed, Remembered
<1> QED
  BY <1>1, <1>2 DEF StreamInv

(* The versions stay numbers under each kind of change. *)
LEMMA StreamTypeStep ==
    ASSUME TypeOK, [StreamNext]_boardVars
    PROVE  TypeOK'
<1> USE StreamAssumption DEF TypeOK, writerVars, streamVars
<1>v. version.rows \in Nat /\ version.open \in Nat
  OBVIOUS
<1>r. \A s \in Streams, k \in {1, 2} : version[Reads(s, k)] \in Nat
  BY <1>v DEF Reads
<1>1. ASSUME NEW w \in Writers, CommitBooking(w) PROVE TypeOK'
  BY <1>1 DEF CommitBooking
<1>2. ASSUME NEW w \in Writers, NEW want \in BOOLEAN, BoxRead(w, want) PROVE TypeOK'
  BY <1>2 DEF BoxRead
<1>3. ASSUME NEW w \in Writers, BoxWrite(w) PROVE TypeOK'
  BY <1>3 DEF BoxWrite, NoJob
<1>4. ASSUME NEW w \in Writers, Publish(w) PROVE TypeOK'
  BY <1>4 DEF Publish, NoJob
<1>5. ASSUME NEW s \in Streams, Connect(s) PROVE TypeOK'
  BY <1>5 DEF Connect
<1>6. ASSUME NEW s \in Streams, NEW k \in {1, 2}, Read(s, k) PROVE TypeOK'
  BY <1>6, <1>r DEF Read
<1>g. ASSUME NEW s \in Streams, Gone(s), UNCHANGED writerVars PROVE TypeOK'
  BY <1>g DEF Gone, Forget
<1>7. ASSUME NEW s \in Streams, Send(s) PROVE TypeOK'
  BY <1>7, <1>g DEF Send
<1>8. ASSUME NEW s \in Streams, Subscribe(s) PROVE TypeOK'
  BY <1>8 DEF Subscribe
<1>9. ASSUME NEW s \in Streams, Wake(s) PROVE TypeOK'
  BY <1>9 DEF Wake
<1>10. ASSUME NEW s \in Streams, Close(s) PROVE TypeOK'
  BY <1>10, <1>g DEF Close
<1>11. CASE UNCHANGED boardVars
  BY <1>11 DEF boardVars
<1> QED
  BY <1>1, <1>2, <1>3, <1>4, <1>5, <1>6, <1>7, <1>8, <1>9, <1>10, <1>11 DEF StreamNext, Snapshot

(* Each step keeps subscribers and live streams the same. *)
LEMMA SubscriberStep ==
    ASSUME TypeOK, NoLeakedSubscriber, WokenSubscribed, [StreamNext]_boardVars
    PROVE  NoLeakedSubscriber' /\ WokenSubscribed'
<1> USE DEF TypeOK, NoLeakedSubscriber, WokenSubscribed, writerVars, streamVars
<1>1. ASSUME NEW w \in Writers,
             CommitBooking(w) \/ BoxWrite(w) \/ \E want \in BOOLEAN : BoxRead(w, want)
      PROVE  NoLeakedSubscriber' /\ WokenSubscribed'
  BY <1>1 DEF CommitBooking, BoxRead, BoxWrite
<1>2. ASSUME NEW w \in Writers, Publish(w) PROVE NoLeakedSubscriber' /\ WokenSubscribed'
  BY <1>2 DEF Publish
<1>g. ASSUME NEW s \in Streams, Gone(s) PROVE NoLeakedSubscriber' /\ WokenSubscribed'
  BY <1>g DEF Gone, Forget
<1>3. ASSUME NEW s \in Streams, Connect(s) \/ Read(s, 1) \/ Read(s, 2) PROVE NoLeakedSubscriber' /\ WokenSubscribed'
  BY <1>3 DEF Connect, Read
<1>4. ASSUME NEW s \in Streams, Send(s) PROVE NoLeakedSubscriber' /\ WokenSubscribed'
  BY <1>4, <1>g DEF Send
<1>5. ASSUME NEW s \in Streams, Subscribe(s) \/ Wake(s) PROVE NoLeakedSubscriber' /\ WokenSubscribed'
  BY <1>5 DEF Subscribe, Wake
<1>6. ASSUME NEW s \in Streams, Close(s) PROVE NoLeakedSubscriber' /\ WokenSubscribed'
  BY <1>6, <1>g DEF Close
<1>7. CASE UNCHANGED boardVars
  BY <1>7 DEF boardVars
<1> QED
  BY <1>1, <1>2, <1>3, <1>4, <1>5, <1>6, <1>7 DEF StreamNext, Snapshot

(* Each step keeps what a sleeping stream may have missed accounted for. *)
LEMMA RememberedStep ==
    ASSUME StreamInv, [StreamNext]_boardVars
    PROVE  Remembered'
<1> USE DEF StreamInv, TypeOK, writerVars, streamVars
<1>1. ASSUME NEW w \in Writers, CommitBooking(w) PROVE Remembered'
  <2>1. wpc'[w] = "publish"
    BY <1>1 DEF CommitBooking
  <2> QED
    BY <2>1 DEF Remembered, PublishComing
<1>2. ASSUME NEW w \in Writers, BoxWrite(w) \/ \E want \in BOOLEAN : BoxRead(w, want)
      PROVE  Remembered'
  <2>1. version'.rows = version.rows /\ UNCHANGED streamVars
    BY <1>2 DEF BoxRead, BoxWrite
  <2>2. PublishComing => PublishComing'
    BY <1>2 DEF BoxRead, BoxWrite, PublishComing
  <2> QED
    BY <2>1, <2>2 DEF Remembered, Stale
<1>3. ASSUME NEW w \in Writers, Publish(w) PROVE Remembered'
  BY <1>3 DEF Publish, Remembered
<1>4. ASSUME NEW s \in Streams, UNCHANGED writerVars,
             \A t \in Streams : t # s => /\ spc'[t] = spc[t] /\ woken'[t] = woken[t]
                                         /\ seen'[t] = seen[t] /\ signal'[t] = signal[t]
                                         /\ t \in subs' => t \in subs,
             \A k \in {1, 2} :
                s \in subs' /\ woken'[s] /\ spc'[s] \in Done(k) /\ Reads(s, k) = "rows" /\ Stale(s, k)'
                => signal'[s] = 1 \/ PublishComing'
      PROVE  Remembered'
  <2>1. PublishComing' <=> PublishComing
    BY <1>4 DEF PublishComing
  <2> QED
    BY <1>4, <2>1 DEF Remembered, Stale
<1>5. ASSUME NEW s \in Streams, Connect(s) \/ Subscribe(s) \/ Wake(s) \/ Close(s) \/ (Send(s) /\ last[s])
      PROVE  Remembered'
  <2>1. s \notin subs' \/ ~woken'[s] \/ spc'[s] = "read1"
    BY <1>5 DEF Connect, Subscribe, Wake, Close, Send, Gone, Forget, NoLeakedSubscriber, WokenSubscribed
  <2>2. \A t \in Streams : t # s => /\ spc'[t] = spc[t] /\ woken'[t] = woken[t]
                                    /\ seen'[t] = seen[t] /\ signal'[t] = signal[t]
                                    /\ t \in subs' => t \in subs
    BY <1>5 DEF Connect, Subscribe, Wake, Close, Send, Gone, Forget
  <2>3. UNCHANGED writerVars
    BY <1>5 DEF Connect, Subscribe, Wake, Close, Send
  <2> QED
    BY <1>4, <2>1, <2>2, <2>3 DEF Done
<1>6. ASSUME NEW s \in Streams, Send(s), ~last[s] PROVE Remembered'
  <2>1. /\ UNCHANGED <<subs, signal, seen, woken>> /\ UNCHANGED writerVars
        /\ spc[s] = "send" /\ \A t \in Streams : t # s => spc'[t] = spc[t]
    BY <1>6 DEF Send
  <2>2. \A k \in {1, 2} : spc[s] \in Done(k)
    BY <2>1 DEF Done
  <2>3. PublishComing' <=> PublishComing
    BY <2>1 DEF PublishComing
  <2> QED
    BY <1>4, <2>1, <2>2, <2>3 DEF Remembered, Stale
<1>7. ASSUME NEW s \in Streams, NEW j \in {1, 2}, Read(s, j) PROVE Remembered'
  <2>1. /\ UNCHANGED <<subs, signal, woken>> /\ UNCHANGED writerVars
        /\ \A t \in Streams : t # s => spc'[t] = spc[t] /\ seen'[t] = seen[t]
        /\ spc[s] = (IF j = 1 THEN "read1" ELSE "read2")
        /\ spc'[s] = (IF j = 1 THEN "read2" ELSE "send")
    BY <1>7 DEF Read
  <2>2. seen'[s][j] = version[Reads(s, j)] /\ \A k \in {1, 2} : k # j => seen'[s][k] = seen[s][k]
    BY <1>7 DEF Read
  <2>r. version[Reads(s, j)] \in Nat
    BY StreamAssumption DEF Reads
  <2>3. ~Stale(s, j)'
    <3>1. version' = version
      BY <2>1
    <3> QED
      BY <2>2, <2>r, <3>1 DEF Stale
  <2>4. \A k \in {1, 2} : k # j /\ spc'[s] \in Done(k) => spc[s] \in Done(k)
    BY <2>1 DEF Done
  <2>5. PublishComing' <=> PublishComing
    BY <2>1 DEF PublishComing
  <2>6. \A k \in {1, 2} : k # j /\ Stale(s, k)' => Stale(s, k)
    BY <2>1, <2>2 DEF Stale
  <2>7. ASSUME NEW k \in {1, 2}, s \in subs', woken'[s], spc'[s] \in Done(k), Reads(s, k) = "rows",
               Stale(s, k)'
        PROVE  signal'[s] = 1 \/ PublishComing'
    <3>1. k # j
      BY <2>3, <2>7
    <3> QED
      BY <2>1, <2>4, <2>5, <2>6, <2>7, <3>1 DEF Remembered
  <2> QED
    BY <1>4, <2>1, <2>7
<1>8. CASE UNCHANGED boardVars
  BY <1>8 DEF boardVars, Remembered, Stale, PublishComing
<1> QED
  BY <1>1, <1>2, <1>3, <1>5, <1>6, <1>7, <1>8 DEF StreamNext, Snapshot

(* The strengthened invariant holds of every behaviour. *)
THEOREM StreamInvariance == StreamSpec => []StreamInv
<1>1. StreamInv /\ [StreamNext]_boardVars => StreamInv'
  BY StreamTypeStep, SubscriberStep, RememberedStep DEF StreamInv
<1> QED
  BY <1>1, InitStreamInv, PTL DEF StreamSpec

(* Channels never hold more than one wakeup, and every variable its type. *)
THEOREM StreamTypeCorrect == StreamSpec => []TypeOK
  BY StreamInvariance, PTL DEF StreamInv

(***************************************************************************)
(* A woken stream that sleeps on changed bookings has a signal or a        *)
(* publish coming, however many streams and writers there are.             *)
(***************************************************************************)
THEOREM WakeupSafety == StreamSpec => []NoLostWakeup
<1>1. StreamInv => NoLostWakeup
  BY DEF StreamInv, NoLostWakeup, Remembered, NoLeakedSubscriber, Done
<1> QED
  BY <1>1, StreamInvariance, PTL

(* The bus holds exactly the channels of streams that will drain them. *)
THEOREM SubscriberSafety == StreamSpec => []NoLeakedSubscriber
  BY StreamInvariance, PTL DEF StreamInv
=============================================================================
