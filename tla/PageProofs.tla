---------------------------- MODULE PageProofs -----------------------------
(***************************************************************************)
(* The proofs about pagination, for an int of any width.                   *)
(***************************************************************************)
EXTENDS Paging, FiniteSetTheorems, TLAPS

(* A power of two is the size of a powerset: that is how the provers learn *)
(* what doubling does to it.                                               *)
LEMMA PowersOfTwo ==
    ASSUME NEW n \in Nat
    PROVE  2^n \in Nat \ {0} /\ 2^(n + 1) = 2 * 2^n
<1> DEFINE S == 1..n
           T == 1..(n + 1)
           With == {X \union {n + 1} : X \in SUBSET S}
           f == [X \in SUBSET S |-> X \union {n + 1}]
<1>1. IsFiniteSet(S) /\ Cardinality(S) = n /\ IsFiniteSet(T) /\ Cardinality(T) = n + 1
  BY FS_Interval
<1>2. IsFiniteSet(SUBSET S) /\ Cardinality(SUBSET S) = 2^n
  <2> HIDE DEF S
  <2> QED BY <1>1, FS_SUBSET
<1>3. Cardinality(SUBSET T) = 2^(n + 1)
  <2> HIDE DEF T
  <2> QED BY <1>1, FS_SUBSET
<1>4. 2^n \in Nat /\ 2^n # 0
  <2>1. Cardinality(SUBSET S) \in Nat
    BY <1>2, FS_CardinalityType
  <2>2. SUBSET S # {}
    OBVIOUS
  <2> QED BY <1>2, <2>1, <2>2, FS_EmptySet
<1>5. IsFiniteSet(With) /\ Cardinality(With) = 2^n
  <2>1. f \in Bijection(SUBSET S, With)
    <3>1. f \in [SUBSET S -> With]
      OBVIOUS
    <3>2. ASSUME NEW X \in SUBSET S, NEW Y \in SUBSET S, X \union {n + 1} = Y \union {n + 1}
          PROVE  X = Y
      <4>1. n + 1 \notin X /\ n + 1 \notin Y
        OBVIOUS
      <4> HIDE DEF S
      <4> QED BY <3>2, <4>1
    <3>3. \A y \in With : \E X \in SUBSET S : f[X] = y
      OBVIOUS
    <3> QED BY <3>1, <3>2, <3>3 DEF Bijection, Injection, Surjection, IsInjective
  <2> HIDE DEF f, With, S
  <2> QED BY <1>2, <2>1, FS_Bijection DEF ExistsBijection
<1>6. SUBSET T = (SUBSET S) \union With /\ (SUBSET S) \intersect With = {}
  <2>1. T = S \union {n + 1} /\ n + 1 \notin S
    OBVIOUS
  <2> HIDE DEF S, T
  <2>2. ASSUME NEW X \in SUBSET T PROVE X \in SUBSET S \/ X \in With
    <3>1. CASE n + 1 \in X
      <4>1. X \ {n + 1} \in SUBSET S
        BY <2>1
      <4>2. X = (X \ {n + 1}) \union {n + 1}
        BY <3>1
      <4> QED BY <4>1, <4>2
    <3>2. CASE n + 1 \notin X
      BY <2>1, <3>2
    <3> QED BY <3>1, <3>2
  <2>3. \A X \in With : X \in SUBSET T /\ X \notin SUBSET S
    BY <2>1
  <2>4. \A X \in SUBSET S : X \in SUBSET T
    BY <2>1
  <2> HIDE DEF With
  <2> QED BY <2>2, <2>3, <2>4
<1> HIDE DEF S, T, With
<1>7. Cardinality(SUBSET T) = 2^n + 2^n - Cardinality({})
  BY <1>2, <1>5, <1>6, FS_Union
<1> QED BY <1>3, <1>4, <1>7, FS_EmptySet

(* Numbers that an int can hold stay what they are.                        *)
LEMMA WrapFits ==
    /\ MaxInt \in Nat
    /\ \A n \in 0..MaxInt : Wrap(n) = n
<1>1. 2^(Width - 1) \in Nat \ {0} /\ 2^Width = 2 * 2^(Width - 1)
  <2>1. Width - 1 \in Nat /\ (Width - 1) + 1 = Width
    BY WidthAssumption
  <2> QED BY <2>1, PowersOfTwo
<1>2. MaxInt \in Nat /\ 2^Width = 2 * (MaxInt + 1)
  BY <1>1 DEF MaxInt
<1>3. ASSUME NEW M \in Nat, NEW n \in 0..M PROVE ((n + M + 1) % (2 * (M + 1))) - M - 1 = n
  OBVIOUS
<1> QED BY <1>2, <1>3 DEF Wrap

LEMMA NormalLimit ==
    ASSUME NEW l, ParsesTo(l), NEW p
    PROVE  /\ normalizePagination(p, l).limit \in 1..100
           /\ normalizePagination(p, l).limit =
                  IF l = Absent THEN 20 ELSE IF l > 100 THEN 100 ELSE l
           /\ normalizePagination(p, l).page = IF p = Absent THEN 1 ELSE p
<1> USE DEF normalizePagination, Smaller, defaultListLimit, maxListLimit
<1>1. CASE l = Absent
  BY <1>1
<1>2. CASE l # Absent
  <2>1. l \in Nat \ {0}
    BY <1>2, WrapFits DEF ParsesTo
  <2> QED BY <1>2, <2>1
<1> QED BY <1>1, <1>2

(* LIMIT l OFFSET off gives the rows after the first off, l at most.       *)
LEMMA SliceRows ==
    ASSUME NEW S, NEW rows \in Seq(S), NEW l \in Nat, NEW off \in Nat,
           NEW s, s = Slice(rows, l, off)
    PROVE  /\ s \in Seq(S)
           /\ DOMAIN s = 1..Len(s)
           /\ Len(s) \in Nat
           /\ \A i \in 1..Len(s) : s[i] = rows[off + i] /\ off + i \in 1..Len(rows) /\ i <= l
           /\ off <= Len(rows) => Len(s) = Smaller(off + l, Len(rows)) - off
           /\ Len(rows) <= off => s = << >>
<1> DEFINE end == Smaller(off + l, Len(rows))
<1>1. end \in Nat /\ end <= Len(rows) /\ end <= off + l
      /\ (off <= Len(rows) => off <= end) /\ (Len(rows) <= off => end <= off)
  BY DEF Smaller
<1>2. s = SubSeq(rows, off + 1, end)
  BY DEF Slice
<1> HIDE DEF end
<1>3. s \in Seq(S)
  BY <1>1, <1>2
<1>4. Len(s) = IF off <= end THEN end - off ELSE 0
  BY <1>1, <1>2
<1>5. \A i \in 1..Len(s) : s[i] = rows[off + i]
  BY <1>1, <1>2, <1>4
<1>6. DOMAIN s = 1..Len(s) /\ Len(s) \in Nat
  BY <1>3
<1>7. Len(rows) <= off => s = << >>
  BY <1>1, <1>3, <1>4
<1>8. off <= Len(rows) => Len(s) = end - off
  BY <1>1, <1>4
<1>9. \A i \in 1..Len(s) : off + i \in 1..Len(rows) /\ i <= l
  BY <1>1, <1>4
<1> QED BY <1>3, <1>5, <1>6, <1>7, <1>8, <1>9 DEF end

-----------------------------------------------------------------------------
(* One request.                                                            *)

RequestInv ==
    /\ size \in Nat
    /\ reply \in {R!Undecided, 200, 400, 500}
    /\ reply = 200 =>
           LET n == normalizePagination(askedPage, askedLimit)
           IN  /\ ParsesTo(askedPage) /\ ParsesTo(askedLimit)
               /\ items = Slice([i \in 1..size |-> i], n.limit, Offset(n.page, n.limit))

LEMMA RequestInvInit == R!Init => RequestInv
BY RequestAssumption DEF R!Init, R!Undecided, RequestInv

LEMMA RequestInvStep == ASSUME RequestInv, [R!Next]_(R!vars) PROVE RequestInv'
<1>1. CASE R!Serve
  BY <1>1 DEF R!Serve, R!Undecided, RequestInv, R!ParsesTo, ParsesTo, R!MaxInt, MaxInt,
     R!normalizePagination, normalizePagination, R!Slice, Slice, R!Offset, Offset, R!Wrap, Wrap,
     R!Smaller, Smaller, R!defaultListLimit, defaultListLimit, R!maxListLimit, maxListLimit
<1>2. CASE UNCHANGED R!vars
  BY <1>2 DEF R!vars, RequestInv
<1> QED BY <1>1, <1>2 DEF R!Next, R!Answered

(* Of the list 1, 2, ..., n they are the numbers from off + 1 to off + l.  *)
LEMMA SliceOfNumbers ==
    ASSUME NEW n \in Nat, NEW l \in Nat, NEW off \in Nat,
           NEW rows \in Seq(Nat), Len(rows) = n, \A i \in 1..n : rows[i] = i,
           NEW s, s = Slice(rows, l, off)
    PROVE  {s[i] : i \in DOMAIN s} = {k \in 1..n : off < k /\ k <= off + l}
<1>1. /\ DOMAIN s = 1..Len(s)
      /\ Len(s) \in Nat
      /\ off <= Len(rows) => Len(s) = Smaller(off + l, Len(rows)) - off
  BY SliceRows
<1>2. \A i \in 1..Len(s) : s[i] = rows[off + i] /\ off + i \in 1..Len(rows) /\ i <= l
  BY SliceRows
<1>3. ASSUME NEW k \in 1..n, off < k, k <= off + l PROVE \E i \in DOMAIN s : s[i] = k
  <2>1. k - off \in 1..Len(s)
    BY <1>1, <1>3 DEF Smaller
  <2>2. s[k - off] = k
    BY <1>2, <2>1
  <2> QED BY <1>1, <2>1, <2>2
<1>4. ASSUME NEW i \in DOMAIN s PROVE s[i] \in 1..n /\ off < s[i] /\ s[i] <= off + l
  BY <1>1, <1>2
<1> QED BY <1>3, <1>4

(* The answer is the page asked for, for an int of any width and a list of *)
(* any length, provided the position of its first row fits an int.         *)
THEOREM PageIsAnswered == R!Spec => []AnswerIsThePage
<1>1. RequestInv => AnswerIsThePage
  <2> DEFINE n == normalizePagination(askedPage, askedLimit)
             p == IF askedPage = Absent THEN 1 ELSE askedPage
             l == IF askedLimit = Absent THEN 20 ELSE IF askedLimit > 100 THEN 100 ELSE askedLimit
  <2> SUFFICES ASSUME RequestInv, reply = 200, (p - 1) * l <= MaxInt
               PROVE  {items[i] : i \in DOMAIN items} = {i \in 1..size : (i - 1) \div l = p - 1}
    BY DEF AnswerIsThePage, R!AnswerIsThePage, R!MaxInt, MaxInt
  <2>1. n.limit = l /\ n.page = p /\ l \in Nat \ {0} /\ p \in Nat \ {0}
    BY NormalLimit, WrapFits DEF RequestInv, ParsesTo
  <2> HIDE DEF p, l
  <2> DEFINE off == (p - 1) * l
             rows == [i \in 1..size |-> i]
  <2>2. off \in 0..MaxInt /\ Offset(p, l) = off
    BY <2>1, WrapFits DEF Offset
  <2>3. items = Slice(rows, l, off)
    BY <2>1, <2>2 DEF RequestInv
  <2>4. size \in Nat /\ rows \in Seq(Nat) /\ Len(rows) = size /\ \A i \in 1..size : rows[i] = i
    BY DEF RequestInv
  <2>5. \A i \in 1..size : (i - 1) \div l = p - 1 <=> off < i /\ i <= off + l
    BY <2>1
  <2> HIDE DEF off, rows, n
  <2>6. off \in Nat /\ l \in Nat
    BY <2>1, <2>2, WrapFits
  <2>7. {items[i] : i \in DOMAIN items} = {i \in 1..size : off < i /\ i <= off + l}
    BY <2>3, <2>4, <2>6, SliceOfNumbers
  <2> QED BY <2>5, <2>7
<1> QED BY <1>1, RequestInvInit, RequestInvStep, PTL DEF R!Spec

-----------------------------------------------------------------------------
(* A walk: the list and its order.                                         *)

(* What is not before is a total order of created_at.                      *)
LEMMA Ordering ==
    ASSUME TypeOK
    PROVE  /\ \A x \in Row : ~Before(x, x)
           /\ \A x, y \in Row : Before(x, y) => ~Before(y, x)
           /\ \A x, y, z \in Row : ~Before(x, y) /\ ~Before(y, z) => ~Before(x, z)
           /\ \A x, y, z \in Row : Before(x, y) /\ ~Before(z, y) => Before(x, z)
           /\ \A x, y \in Row : ~Before(x, y) /\ ~Before(y, x) => created_at[x] = created_at[y]
<1>1. \A x \in Row : created_at[x] \in Nat
  BY StampAssumption DEF TypeOK
<1> QED BY <1>1 DEF Before, TypeOK

(* Every set of rows is finite.                                            *)
LEMMA Rows ==
    ASSUME NEW S \in SUBSET Row
    PROVE  IsFiniteSet(S) /\ Cardinality(S) \in Nat /\ Cardinality(S) <= Cardinality(Row)
BY WalkAssumption, FS_Subset, FS_CardinalityType

(* The first m rows of a list without repetitions.                         *)
FirstRows(s, m) == {s[i] : i \in 1..m}

LEMMA FirstRowsSize ==
    ASSUME NEW S, NEW n \in Nat, NEW s \in Injection(1..n, S), NEW m \in 0..n
    PROVE  IsFiniteSet(FirstRows(s, m)) /\ Cardinality(FirstRows(s, m)) = m
<1> DEFINE f == [i \in 1..m |-> s[i]]
<1>1. f \in Bijection(1..m, FirstRows(s, m))
  BY DEF FirstRows, Bijection, Injection, Surjection, IsInjective
<1> HIDE DEF f
<1>2. ExistsBijection(1..m, FirstRows(s, m))
  BY <1>1 DEF ExistsBijection
<1>3. IsFiniteSet(1..m) /\ Cardinality(1..m) = m
  BY FS_Interval
<1> QED BY <1>2, <1>3, FS_Bijection

(* A list shows each row of the list at one position.                      *)
LEMMA Listed ==
    ASSUME TypeOK, NEW s \in Ordered
    PROVE  /\ Cardinality(present) \in Nat
           /\ s \in Injection(1..Cardinality(present), present)
           /\ s \in Seq(present) /\ s \in Seq(Row)
           /\ Len(s) = Cardinality(present)
           /\ \A x \in present : \E i \in 1..Cardinality(present) : s[i] = x
           /\ \A i, j \in 1..Cardinality(present) : i < j => ~Before(s[j], s[i])
<1> DEFINE n == Cardinality(present)
<1>1. IsFiniteSet(present) /\ n \in Nat
  BY Rows DEF TypeOK
<1>2. s \in Injection(1..n, present)
  BY DEF Ordered, SetToSeqs, Injection, IsInjective
<1>3. IsFiniteSet(1..n) /\ Cardinality(1..n) = n
  BY <1>1, FS_Interval
<1>4. s \in Surjection(1..n, present)
  BY <1>1, <1>2, <1>3, FS_Injection
<1>5. s \in [1..n -> present] /\ s \in Seq(present) /\ s \in Seq(Row) /\ Len(s) = n /\ DOMAIN s = 1..n
  BY <1>1, <1>2 DEF Injection, TypeOK
<1>6. \A i, j \in 1..n : i < j => ~Before(s[j], s[i])
  BY <1>5 DEF Ordered
<1> QED BY <1>1, <1>2, <1>4, <1>5, <1>6 DEF Surjection

(* A row with a created_at of its own is where its place is.               *)
LEMMA PlaceInList ==
    ASSUME TypeOK, NEW s \in Ordered, NEW k \in 1..Cardinality(present), Alone(s[k])
    PROVE  Place(s[k]) = k
<1> DEFINE n == Cardinality(present)
           First == FirstRows(s, k - 1)
<1>1. /\ n \in Nat /\ s \in Injection(1..n, present)
      /\ \A x \in present : \E i \in 1..n : s[i] = x
      /\ \A i, j \in 1..n : i < j => ~Before(s[j], s[i])
  BY Listed
<1> HIDE DEF n
<1>2. \A i \in 1..n : s[i] \in present /\ s[i] \in Row
  BY <1>1 DEF Injection, TypeOK
<1>3. k \in 1..n
  BY DEF n
<1>4. ASSUME NEW i \in 1..n PROVE Before(s[i], s[k]) <=> i < k
  <2>1. CASE i < k
    <3>1. ~Before(s[k], s[i]) /\ s[i] # s[k]
      BY <1>1, <1>3, <2>1 DEF Injection, IsInjective
    <3>2. created_at[s[i]] # created_at[s[k]]
      BY <1>2, <3>1 DEF Alone
    <3> QED BY <1>2, <1>3, <2>1, <3>1, <3>2, Ordering
  <2>2. CASE i = k
    BY <1>2, <2>2, Ordering
  <2>3. CASE i > k
    BY <1>1, <1>3, <2>3
  <2> QED BY <1>3, <2>1, <2>2, <2>3
<1>5. Earlier(s[k]) = First
  <2>1. ASSUME NEW y \in present, Before(y, s[k]) PROVE y \in First
    <3>1. PICK i \in 1..n : s[i] = y
      BY <1>1
    <3>2. i \in 1..(k - 1)
      BY <1>3, <1>4, <2>1, <3>1
    <3> QED BY <3>1, <3>2 DEF FirstRows
  <2>2. ASSUME NEW i \in 1..(k - 1) PROVE s[i] \in present /\ Before(s[i], s[k])
    <3>1. i \in 1..n /\ i < k
      BY <1>1, <1>3
    <3> QED BY <1>2, <1>4, <3>1
  <2> QED BY <2>1, <2>2 DEF FirstRows, Earlier
<1>6. Cardinality(First) = k - 1
  <2>1. k - 1 \in 0..n
    BY <1>1, <1>3
  <2> QED BY <1>1, <2>1, FirstRowsSize
<1> QED BY <1>3, <1>5, <1>6 DEF Place

-----------------------------------------------------------------------------
(* What each step does.                                                    *)

(* The rows new come as the page after Fetched, out of a list s.           *)
Received(s, new, l) ==
    /\ s \in Ordered /\ new \in Seq(Row) /\ DOMAIN new = 1..Len(new)
    /\ shown' = shown \o new
    /\ l \in 1..100 /\ Fetched \in Nat /\ Fetched' = Fetched + l
    /\ walking' = (Fetched + l < total)
    /\ \A i \in 1..Len(new) :
           new[i] = s[Fetched + i] /\ Fetched + i \in 1..Cardinality(present) /\ i <= l
    /\ Fetched <= Cardinality(present) =>
           Len(new) = Smaller(Fetched + l, Cardinality(present)) - Fetched
    /\ Cardinality(present) <= Fetched => new = << >>

LEMMA WalkLimit ==
    ASSUME NEW p
    PROVE  /\ normalizePagination(p, limit).limit \in 1..100
           /\ normalizePagination(p, limit).limit = normalizePagination(1, limit).limit
           /\ p # Absent => normalizePagination(p, limit).page = p
BY WalkAssumption, NormalLimit DEF normalizePagination

LEMMA FetchedType == ASSUME TypeOK PROVE Fetched \in Nat
<1>1. normalizePagination(page, limit).limit \in 1..100
  BY WalkLimit
<1>2. page - 1 \in Nat
  BY DEF TypeOK
<1> QED BY <1>1, <1>2 DEF Fetched

LEMMA PageReceived ==
    ASSUME TypeOK, OffsetFits, List
    PROVE  \E s \in Ordered, new \in Seq(Row), l \in 1..100 : Received(s, new, l)
<1> DEFINE l == normalizePagination(1, limit).limit
<1>1. /\ normalizePagination(page, limit).limit = l /\ l \in 1..100
      /\ normalizePagination(page', limit).limit = l
      /\ normalizePagination(page, limit).page = page
  <2>1. page # Absent
    BY AbsentAssumption DEF TypeOK
  <2> QED BY <2>1, WalkLimit
<1> HIDE DEF l
<1>2. Fetched = (page - 1) * l /\ Fetched \in Nat /\ page * l = Fetched + l
  BY <1>1 DEF Fetched, TypeOK
<1>3. page' = page + 1 /\ Fetched' = Fetched + l
  <2>1. page' = page + 1
    BY DEF List
  <2>2. Fetched' = page * l
    BY <1>1, <2>1 DEF Fetched, TypeOK
  <2> QED BY <1>2, <2>1, <2>2
<1>4. Offset(page, l) = Fetched
  <2>1. Fetched <= MaxInt
    BY DEF OffsetFits, List
  <2> QED BY <1>2, <2>1, WrapFits DEF Offset
<1>5. PICK s \in Ordered : shown' = shown \o Slice(s, l, Fetched)
  BY <1>1, <1>4 DEF List
<1>6. walking' = (Fetched + l < total)
  BY <1>1, <1>2 DEF List
<1> DEFINE new == Slice(s, l, Fetched)
<1>7. s \in Seq(Row) /\ Len(s) = Cardinality(present) /\ l \in Nat
  BY <1>1, Listed
<1>8. new = Slice(s, l, Fetched) /\ shown' = shown \o new
  BY <1>5
<1> HIDE DEF new
<1>9. /\ new \in Seq(Row) /\ DOMAIN new = 1..Len(new)
      /\ Fetched <= Len(s) => Len(new) = Smaller(Fetched + l, Len(s)) - Fetched
      /\ Len(s) <= Fetched => new = << >>
  BY <1>2, <1>7, <1>8, SliceRows
<1>10. \A i \in 1..Len(new) : new[i] = s[Fetched + i] /\ Fetched + i \in 1..Len(s) /\ i <= l
  BY <1>2, <1>7, <1>8, SliceRows
<1>11. Received(s, new, l)
  BY <1>1, <1>2, <1>3, <1>6, <1>7, <1>8, <1>9, <1>10 DEF Received
<1> QED BY <1>1, <1>9, <1>11

(* The list is sorted by what no step changes.                             *)
LEMMA OrderStays ==
    ASSUME [Next]_vars
    PROVE  /\ created_at' = created_at /\ order' = order
           /\ Distinct' = Distinct
           /\ \A x, y \in Row : Before(x, y)' = Before(x, y)
<1>1. created_at' = created_at /\ order' = order
  BY DEF Next, vars, Enter, Leave, Count, List, Arrived
<1> QED BY <1>1 DEF Distinct, Before

LEMMA TypeStep ==
    ASSUME TypeOK, OffsetFits, [Next]_vars
    PROVE  TypeOK' /\ OffsetFits'
<1>1. created_at' \in [Row -> Stamp] /\ order' \in {"ASC", "DESC"}
  BY OrderStays DEF TypeOK
<1>2. ASSUME NEW x \in Row, Enter(x) PROVE TypeOK' /\ OffsetFits'
  <2>1. Fetched' = Fetched
    BY <1>2 DEF Enter, Fetched
  <2> QED BY <1>1, <1>2, <2>1 DEF Enter, TypeOK, OffsetFits
<1>3. ASSUME NEW x \in Row, Leave(x) PROVE TypeOK' /\ OffsetFits'
  <2>1. Fetched' = Fetched
    BY <1>3 DEF Leave, Fetched
  <2> QED BY <1>1, <1>3, <2>1 DEF Leave, TypeOK, OffsetFits
<1>4. CASE Count
  <2>1. Fetched' = Fetched
    BY <1>4 DEF Count, Fetched
  <2>2. Cardinality(present) \in Nat /\ Cardinality(present) <= Cardinality(Row)
    BY Rows DEF TypeOK
  <2> QED BY <1>1, <1>4, <2>1, <2>2 DEF Count, TypeOK, OffsetFits
<1>5. CASE List
  <2>1. PICK s \in Ordered, new \in Seq(Row), l \in 1..100 : Received(s, new, l)
    BY <1>5, PageReceived
  <2>2. shown' \in Seq(Row) /\ walking' \in BOOLEAN /\ page' \in Nat \ {0}
    BY <1>5, <2>1 DEF Received, List, TypeOK
  <2>3. walking' => Fetched' <= MaxInt
    <3>1. Cardinality(Row) \in Nat /\ Cardinality(Row) <= MaxInt /\ MaxInt \in Nat
      BY Rows, WalkAssumption, WrapFits
    <3>2. walking' => Fetched + l < total
      BY <2>1, Zenon DEF Received
    <3>3. Fetched' = Fetched + l /\ Fetched \in Nat /\ l \in 1..100
      BY <2>1 DEF Received
    <3>4. total \in Int /\ total <= Cardinality(Row)
      BY DEF TypeOK, NotCounted
    <3>5. Fetched + l < total => Fetched + l <= MaxInt
      BY <3>1, <3>3, <3>4
    <3> QED BY <3>2, <3>3, <3>5
  <2>4. TypeOK'
    <3>1. Cardinality(Row) \in Nat
      BY Rows
    <3> QED BY <1>1, <1>5, <2>2, <3>1 DEF List, TypeOK, NotCounted
  <2>5. total' = NotCounted
    BY <1>5 DEF List
  <2> QED BY <2>3, <2>4, <2>5 DEF OffsetFits
<1>6. CASE UNCHANGED vars
  BY <1>6 DEF vars, TypeOK, OffsetFits, Fetched
<1> QED BY <1>2, <1>3, <1>4, <1>5, <1>6 DEF Next, Arrived

LEMMA InitInv == Init => IInv
<1> SUFFICES ASSUME Init PROVE IInv
  OBVIOUS
<1>1. Cardinality(Row) \in Nat /\ Cardinality(present) \in Nat
  BY Rows DEF Init
<1>2. TypeOK
  BY <1>1 DEF Init, TypeOK, NotCounted
<1>3. Fetched = 0
  <2>1. normalizePagination(page, limit).limit \in 1..100
    BY WalkLimit
  <2>2. page - 1 = 0
    BY DEF Init
  <2> QED BY <2>1, <2>2 DEF Fetched
<1>4. shown = << >> /\ Len(shown) = 0 /\ DOMAIN shown = {} /\ ToSet(shown) = {}
  BY DEF Init, ToSet
<1>5. OffsetFits
  BY <1>3, WrapFits DEF Init, OffsetFits
<1>6. RepeatsAccounted
  <2>1. Repeats = 0
    BY <1>4, FS_EmptySet DEF Repeats
  <2>2. Passed = {}
    BY <1>4 DEF Passed
  <2> QED BY <1>3, <2>1, <2>2, FS_EmptySet DEF Init, RepeatsAccounted
<1>7. MissesAccounted
  <2>1. \A x \in Row : Place(x) \in Nat /\ Place(x) > 0
    <3>1. \A x \in Row : Cardinality(Earlier(x)) \in Nat
      BY <1>2, Rows DEF Earlier, TypeOK
    <3> QED BY <3>1 DEF Place
  <2>2. Skipped = {}
    <3>1. \A x \in stayed : x \in Row
      BY <1>2 DEF TypeOK
    <3>2. \A x \in stayed : ~(Place(x) <= Fetched)
      BY <1>3, <2>1, <3>1
    <3> QED BY <3>2 DEF Skipped
  <2> QED BY <2>2, FS_EmptySet DEF Init, MissesAccounted
<1>8. PagesJoin
  BY <1>1, <1>3, <1>4 DEF Init, PagesJoin, Smaller, NotCounted
<1> QED BY <1>2, <1>5, <1>6, <1>7, <1>8 DEF IInv

-----------------------------------------------------------------------------
(* What is shown twice.                                                    *)

LEMMA ToSetOfRows ==
    ASSUME NEW a \in Seq(Row), NEW b \in Seq(Row)
    PROVE  /\ ToSet(a) \in SUBSET Row
           /\ ToSet(a \o b) = ToSet(a) \union ToSet(b)
           /\ Len(a \o b) = Len(a) + Len(b)
<1>1. ASSUME NEW i \in DOMAIN (a \o b)
      PROVE  (a \o b)[i] \in ToSet(a) \union ToSet(b)
  <2>1. CASE i <= Len(a)
    BY <2>1 DEF ToSet
  <2>2. CASE i > Len(a)
    <3>1. i - Len(a) \in DOMAIN b /\ (a \o b)[i] = b[i - Len(a)]
      BY <2>2
    <3> QED BY <3>1 DEF ToSet
  <2> QED BY <2>1, <2>2
<1>2. ASSUME NEW i \in DOMAIN a PROVE i \in DOMAIN (a \o b) /\ (a \o b)[i] = a[i]
  OBVIOUS
<1>3. ASSUME NEW i \in DOMAIN b
      PROVE  Len(a) + i \in DOMAIN (a \o b) /\ (a \o b)[Len(a) + i] = b[i]
  OBVIOUS
<1>4. ToSet(a \o b) = ToSet(a) \union ToSet(b)
  <2> DEFINE c == a \o b
  <2>1. \A i \in DOMAIN a : \E j \in DOMAIN c : c[j] = a[i]
    BY <1>2
  <2>2. \A i \in DOMAIN b : \E j \in DOMAIN c : c[j] = b[i]
    BY <1>3
  <2>3. \A i \in DOMAIN c : c[i] \in ToSet(a) \union ToSet(b)
    BY <1>1
  <2> HIDE DEF c
  <2>4. ToSet(c) = ToSet(a) \union ToSet(b)
    BY <2>1, <2>2, <2>3 DEF ToSet
  <2> QED BY <2>4 DEF c
<1>5. ToSet(a) \in SUBSET Row
  BY DEF ToSet
<1>6. Len(a \o b) = Len(a) + Len(b)
  OBVIOUS
<1> QED BY <1>4, <1>5, <1>6

(* A page repeats no row of its own, and shows rows of the list.           *)
LEMMA PageOnce ==
    ASSUME TypeOK, NEW s, NEW new, NEW l, Received(s, new, l)
    PROVE  /\ new \in Injection(1..Len(new), present)
           /\ ToSet(new) \in SUBSET present
           /\ Cardinality(ToSet(new)) = Len(new) /\ Len(new) \in 0..l
<1>1. /\ Cardinality(present) \in Nat
      /\ s \in Injection(1..Cardinality(present), present)
  BY Listed DEF Received
<1>2. Fetched \in Nat /\ l \in 1..100 /\ Len(new) \in Nat /\ DOMAIN new = 1..Len(new)
      /\ new \in Seq(Row)
  BY DEF Received
<1>3. \A i \in 1..Len(new) :
          new[i] = s[Fetched + i] /\ Fetched + i \in 1..Cardinality(present) /\ i <= l
  BY DEF Received
<1>4. \A i \in 1..Len(new) : new[i] \in present
  BY <1>1, <1>3 DEF Injection
<1>5. \A i, j \in 1..Len(new) : new[i] = new[j] => i = j
  BY <1>1, <1>2, <1>3 DEF Injection, IsInjective
<1>6. new \in Injection(1..Len(new), present)
  BY <1>2, <1>4, <1>5 DEF Injection, IsInjective
<1>7. ToSet(new) = FirstRows(new, Len(new))
  BY <1>2 DEF ToSet, FirstRows
<1>8. Cardinality(ToSet(new)) = Len(new)
  BY <1>2, <1>6, <1>7, FirstRowsSize
<1>9. Len(new) <= l
  BY <1>2, <1>3
<1>10. ToSet(new) \in SUBSET present
  BY <1>2, <1>4 DEF ToSet
<1> QED BY <1>2, <1>6, <1>8, <1>9, <1>10

(* If it shows a row again, that row and all the pages before it were      *)
(* passed by what had been shown.                                          *)
LEMMA AgainPassed ==
    ASSUME TypeOK, NEW s, NEW new, NEW l, Received(s, new, l),
           ToSet(shown) \intersect ToSet(new) # {}
    PROVE  Cardinality(ToSet(shown) \intersect ToSet(new)) + Fetched <= Cardinality(Passed)
<1> DEFINE n == Cardinality(present)
           Again == ToSet(shown) \intersect ToSet(new)
           Prefix == FirstRows(s, Fetched)
<1>1. /\ n \in Nat /\ s \in Injection(1..n, present)
      /\ \A i, j \in 1..n : i < j => ~Before(s[j], s[i])
      /\ \A i \in 1..n : s[i] \in present
  BY Listed DEF Received, Injection
<1>2. /\ Fetched \in Nat /\ Len(new) \in Nat /\ DOMAIN new = 1..Len(new)
      /\ \A i \in 1..Len(new) : new[i] = s[Fetched + i] /\ Fetched + i \in 1..n
  BY DEF Received
<1>3. PICK k \in 1..Len(new) : new[k] \in ToSet(shown)
  BY <1>2 DEF ToSet
<1>4. Fetched + k \in 1..n /\ s[Fetched + k] \in ToSet(shown)
  BY <1>2, <1>3
<1>5. Fetched \in 0..n /\ IsFiniteSet(Prefix) /\ Cardinality(Prefix) = Fetched
  <2>1. Fetched \in 0..n
    BY <1>1, <1>2, <1>4
  <2> QED BY <1>1, <2>1, FirstRowsSize
<1>6. Prefix \subseteq Passed
  <2> SUFFICES ASSUME NEW i \in 1..Fetched PROVE s[i] \in Passed
    BY DEF FirstRows
  <2>1. i \in 1..n /\ i < Fetched + k
    BY <1>1, <1>2, <1>5
  <2> QED BY <1>1, <1>4, <2>1 DEF Passed
<1>7. Again \subseteq Passed
  <2>1. ToSet(new) \subseteq present /\ present \subseteq Row
    BY PageOnce DEF TypeOK
  <2> QED BY <2>1, Ordering DEF Passed
<1>8. Again \intersect Prefix = {}
  <2> SUFFICES ASSUME NEW i \in 1..Fetched, NEW j \in 1..Len(new), s[i] = new[j] PROVE FALSE
    BY <1>2 DEF FirstRows, ToSet
  <2>1. i \in 1..n /\ Fetched + j \in 1..n /\ s[i] = s[Fetched + j] /\ i # Fetched + j
    BY <1>1, <1>2, <1>5
  <2> QED BY <1>1, <2>1 DEF Injection, IsInjective
<1>9. IsFiniteSet(Again) /\ Cardinality(Again) \in Nat /\ IsFiniteSet(Passed)
      /\ Cardinality(Passed) \in Nat
  <2>1. Passed \in SUBSET Row /\ Again \in SUBSET Row
    BY <1>7 DEF Passed, TypeOK
  <2> QED BY <2>1, Rows
<1> HIDE DEF Again, Prefix
<1>10. Cardinality(Again \union Prefix) = Cardinality(Again) + Fetched
  <2>1. Cardinality(Again \union Prefix)
            = Cardinality(Again) + Cardinality(Prefix) - Cardinality(Again \intersect Prefix)
    BY <1>5, <1>9, FS_Union
  <2>2. Cardinality(Again \intersect Prefix) = 0
    BY <1>8, FS_EmptySet
  <2> QED BY <1>2, <1>5, <1>9, <2>1, <2>2
<1>11. Cardinality(Again \union Prefix) <= Cardinality(Passed)
  BY <1>6, <1>7, <1>9, FS_Subset
<1> QED BY <1>10, <1>11 DEF Again

(* A page that goes further than what was shown passes a row for each row  *)
(* fetched, and any other passes none.                                     *)
LEMMA PassedAfterPage ==
    ASSUME TypeOK, [Next]_vars, Distinct, NEW s, NEW new, NEW l, Received(s, new, l),
           present' = present
    PROVE  Passed' = Passed \/ Cardinality(Passed') <= Fetched + l
<1> DEFINE n == Cardinality(present)
           m == Len(new)
<1>1. /\ n \in Nat /\ s \in Injection(1..n, present)
      /\ \A i, j \in 1..n : i < j => ~Before(s[j], s[i])
      /\ \A i \in 1..n : s[i] \in present
      /\ \A x \in present : \E i \in 1..n : s[i] = x
  BY Listed DEF Received, Injection
<1>2. /\ Fetched \in Nat /\ m \in Nat /\ DOMAIN new = 1..m /\ new \in Seq(Row)
      /\ \A i \in 1..m : new[i] = s[Fetched + i] /\ Fetched + i \in 1..n /\ i <= l
      /\ l \in 1..100
  BY DEF Received
<1>3. ToSet(shown') = ToSet(shown) \union ToSet(new) /\ ToSet(shown) \subseteq Row
      /\ ToSet(new) \subseteq present
  BY ToSetOfRows, PageOnce DEF Received, TypeOK
<1>4. Passed' = {x \in present : \E y \in ToSet(shown) \union ToSet(new) : ~Before(y, x)}
  BY <1>3, OrderStays DEF Passed, TypeOK
<1>5. CASE m = 0
  <2>1. ToSet(new) = {}
    BY <1>2, <1>5 DEF ToSet
  <2> QED BY <1>4, <2>1 DEF Passed
<1> DEFINE last == s[Fetched + m]
<1>6. CASE m # 0 /\ \E y \in ToSet(shown) : ~Before(y, last)
  <2>1. Fetched + m \in 1..n /\ last \in present
    BY <1>1, <1>2, <1>6
  <2>2. PICK top \in ToSet(shown) : ~Before(top, last)
    BY <1>6
  <2>3. \A y \in ToSet(new) : ~Before(last, y)
    <3> SUFFICES ASSUME NEW i \in 1..m PROVE ~Before(last, new[i])
      BY <1>2 DEF ToSet
    <3>1. new[i] = s[Fetched + i] /\ Fetched + i \in 1..n
      BY <1>2
    <3>2. CASE i = m
      BY <2>1, <3>1, <3>2, Ordering DEF TypeOK
    <3>3. CASE i # m
      <4>1. Fetched + i < Fetched + m
        <5>1. Fetched \in Nat /\ m \in Nat
          BY <1>2
        <5> HIDE DEF m
        <5> QED BY <3>3, <5>1
      <4> QED BY <1>1, <2>1, <3>1, <4>1
    <3> QED BY <3>2, <3>3
  <2> HIDE DEF last
  <2>4. ASSUME NEW x \in present, NEW y \in ToSet(new), ~Before(y, x) PROVE ~Before(top, x)
    <3>1. x \in Row /\ y \in Row /\ top \in Row /\ last \in Row
      BY <1>3, <2>1 DEF TypeOK
    <3>2. ~Before(last, y)
      BY <2>3
    <3> QED BY <2>2, <2>4, <3>1, <3>2, Ordering
  <2> QED BY <1>4, <2>2, <2>4 DEF Passed
<1>7. CASE m # 0 /\ \A y \in ToSet(shown) : Before(y, last)
  <2> DEFINE Prefix == FirstRows(s, Fetched + m)
  <2>1. Fetched + m \in 1..n /\ Fetched + m \in 0..n /\ last \in present /\ m <= l
    BY <1>1, <1>2, <1>7
  <2>2. IsFiniteSet(Prefix) /\ Cardinality(Prefix) = Fetched + m
    BY <1>1, <2>1, FirstRowsSize
  <2>3. Passed' \subseteq Prefix
    <3> SUFFICES ASSUME NEW k \in 1..n, NEW y \in ToSet(shown) \union ToSet(new),
                        ~Before(y, s[k]), Fetched + m < k
                 PROVE  FALSE
      BY <1>1, <1>2, <1>4 DEF FirstRows
    <3>0. s[k] \in present /\ s[k] \in Row /\ y \in Row /\ last \in Row
      BY <1>1, <1>3, <2>1 DEF TypeOK
    <3>1. ~Before(s[k], last)
      BY <1>1, <2>1
    <3>2. CASE y \in ToSet(shown)
      <4>1. Before(y, last)
        BY <1>7, <3>2
      <4> QED BY <3>0, <3>1, <4>1, Ordering
    <3>3. CASE y \in ToSet(new)
      <4>1. PICK i \in 1..m : y = s[Fetched + i] /\ Fetched + i \in 1..n
        BY <1>2, <3>3 DEF ToSet
      <4>2. Fetched + i < k
        BY <1>1, <1>2, <2>1, <4>1
      <4>3. ~Before(s[k], y)
        BY <1>1, <4>1, <4>2
      <4>4. created_at[y] = created_at[s[k]]
        BY <3>0, <4>3, Ordering
      <4>5. y = s[k]
        BY <3>0, <4>4 DEF Distinct
      <4>6. \A i1, i2 \in 1..n : s[i1] = s[i2] => i1 = i2
        BY <1>1 DEF Injection, IsInjective
      <4>7. Fetched + i = k
        BY <4>1, <4>5, <4>6
      <4> QED BY <1>1, <4>1, <4>2, <4>7
    <3> QED BY <3>2, <3>3
  <2> HIDE DEF Prefix
  <2>4. Cardinality(Passed') <= Fetched + m
    BY <2>2, <2>3, FS_Subset
  <2>5. Cardinality(Passed') \in Nat
    BY <2>2, <2>3, FS_Subset, FS_CardinalityType
  <2>6. Fetched \in Nat /\ m \in Nat /\ l \in 1..100 /\ m <= l
    BY <1>2, <2>1
  <2> HIDE DEF m
  <2> QED BY <2>4, <2>5, <2>6
<1> QED BY <1>5, <1>6, <1>7

LEMMA RepeatsStep ==
    ASSUME IInv, [Next]_vars
    PROVE  RepeatsAccounted'
<1> SUFFICES ASSUME Distinct
             PROVE  /\ Repeats' <= ahead'
                    /\ Repeats' + Cardinality(Passed') <= ahead' + Fetched'
  BY OrderStays DEF RepeatsAccounted
<1>1. TypeOK /\ OffsetFits /\ Repeats <= ahead
      /\ Repeats + Cardinality(Passed) <= ahead + Fetched
  BY DEF IInv, RepeatsAccounted
<1>2. /\ Passed \in SUBSET Row /\ IsFiniteSet(Passed) /\ Cardinality(Passed) \in Nat
      /\ ToSet(shown) \in SUBSET Row /\ IsFiniteSet(ToSet(shown))
      /\ Cardinality(ToSet(shown)) \in Nat /\ Len(shown) \in Nat
  <2>1. ToSet(shown) \in SUBSET Row /\ Passed \in SUBSET Row
    BY <1>1, ToSetOfRows DEF TypeOK, Passed
  <2> QED BY <1>1, <2>1, Rows DEF TypeOK
<1>3. Repeats \in Int /\ Fetched \in Nat /\ ahead \in Nat
  BY <1>1, <1>2, FetchedType DEF Repeats, TypeOK
<1>4. ASSUME UNCHANGED <<shown, page>>
      PROVE  Repeats' = Repeats /\ Fetched' = Fetched /\ ToSet(shown)' = ToSet(shown)
  BY <1>4 DEF Repeats, Fetched
<1>5. ASSUME NEW x \in Row, Enter(x)
      PROVE  Repeats' <= ahead' /\ Repeats' + Cardinality(Passed') <= ahead' + Fetched'
  <2>1. Repeats' = Repeats /\ Fetched' = Fetched /\ ToSet(shown)' = ToSet(shown)
    BY <1>4, <1>5 DEF Enter
  <2>2. Passed' = IF \E y \in ToSet(shown) : ~Before(y, x) THEN Passed \union {x} ELSE Passed
    <3>1. /\ present' = present \union {x}
          /\ \A y \in ToSet(shown), z \in Row : Before(y, z)' = Before(y, z)
      BY <1>2, <1>5, OrderStays DEF Enter
    <3> QED BY <1>1, <2>1, <3>1 DEF Passed, TypeOK
  <2>3. /\ Cardinality(Passed \union {x}) \in Nat
        /\ Cardinality(Passed \union {x}) <= Cardinality(Passed) + 1
    <3>1. Cardinality(Passed \union {x})
              = IF x \in Passed THEN Cardinality(Passed) ELSE Cardinality(Passed) + 1
      BY <1>2, FS_AddElement
    <3> QED BY <1>2, <3>1
  <2>4. CASE \E y \in ToSet(shown) : ~Before(y, x)
    <3>1. ahead' = ahead + 1
      BY <1>5, <2>4 DEF Enter
    <3> QED BY <1>1, <1>2, <1>3, <2>1, <2>2, <2>3, <2>4, <3>1
  <2>5. CASE ~\E y \in ToSet(shown) : ~Before(y, x)
    <3>1. ahead' = ahead
      BY <1>5, <2>5 DEF Enter
    <3> QED BY <1>1, <2>1, <2>2, <2>5, <3>1
  <2> QED BY <2>4, <2>5
<1>6. ASSUME UNCHANGED <<shown, page, ahead>>, present' \subseteq present
      PROVE  Repeats' <= ahead' /\ Repeats' + Cardinality(Passed') <= ahead' + Fetched'
  <2>1. Repeats' = Repeats /\ Fetched' = Fetched /\ ToSet(shown)' = ToSet(shown)
    BY <1>4, <1>6
  <2>2. Passed' \subseteq Passed
    <3>1. \A y \in ToSet(shown), z \in present : Before(y, z)' = Before(y, z)
      BY <1>1, <1>2, OrderStays DEF TypeOK
    <3> QED BY <1>6, <2>1, <3>1 DEF Passed
  <2>3. Cardinality(Passed') <= Cardinality(Passed) /\ Cardinality(Passed') \in Nat
    BY <1>2, <2>2, FS_Subset, FS_CardinalityType
  <2> QED BY <1>1, <1>2, <1>3, <1>6, <2>1, <2>3
<1>7. CASE List
  <2>1. PICK s \in Ordered, new \in Seq(Row), l \in 1..100 : Received(s, new, l)
    BY <1>1, <1>7, PageReceived
  <2> DEFINE Again == ToSet(shown) \intersect ToSet(new)
  <2>2. present' = present /\ ahead' = ahead /\ Fetched' = Fetched + l /\ shown' = shown \o new
    BY <1>7, <2>1 DEF List, Received
  <2>3. /\ Cardinality(ToSet(new)) = Len(new) /\ Len(new) \in 0..l
        /\ ToSet(new) \in SUBSET Row
    BY <1>1, <2>1, PageOnce DEF TypeOK
  <2>4. IsFiniteSet(ToSet(new)) /\ IsFiniteSet(Again) /\ Cardinality(Again) \in Nat
        /\ Cardinality(Again) <= Cardinality(ToSet(new))
    BY <2>3, Rows, FS_Intersection, FS_CardinalityType
  <2>5. Repeats' = Repeats + Cardinality(Again)
    <3>1. Cardinality(ToSet(shown) \union ToSet(new))
              = Cardinality(ToSet(shown)) + Cardinality(ToSet(new)) - Cardinality(Again)
      BY <1>2, <2>4, FS_Union
    <3>2. Len(shown') = Len(shown) + Len(new)
          /\ ToSet(shown') = ToSet(shown) \union ToSet(new)
      BY <1>1, <2>1, <2>2, ToSetOfRows DEF TypeOK
    <3>3. Repeats' = Len(shown') - Cardinality(ToSet(shown'))
      BY DEF Repeats
    <3> HIDE DEF Again
    <3> QED BY <1>2, <2>3, <2>4, <3>1, <3>2, <3>3 DEF Repeats
  <2>6. Repeats + Cardinality(Again) <= ahead
    <3>1. CASE Again = {}
      <4>1. Cardinality(Again) = 0
        BY <3>1, FS_EmptySet
      <4> HIDE DEF Again
      <4> QED BY <1>1, <1>3, <4>1
    <3>2. CASE Again # {}
      <4>1. Cardinality(Again) + Fetched <= Cardinality(Passed)
        BY <1>1, <2>1, <3>2, AgainPassed
      <4> HIDE DEF Again
      <4> QED BY <1>1, <1>2, <1>3, <2>4, <4>1
    <3> QED BY <3>1, <3>2
  <2>7. Passed' = Passed \/ Cardinality(Passed') <= Fetched + l
    BY <1>1, <2>1, <2>2, PassedAfterPage
  <2>8. Cardinality(Passed') \in Nat
    <3>1. Passed' \in SUBSET Row
      BY <1>1, <2>2 DEF Passed, TypeOK
    <3> QED BY <3>1, Rows
  <2> HIDE DEF Again
  <2>9. Repeats' + Cardinality(Passed') <= ahead + (Fetched + l)
    <3> DEFINE c == Cardinality(Again)
               q == Cardinality(Passed')
    <3>1. c \in Nat /\ c <= l /\ q \in Nat
      BY <2>3, <2>4, <2>8
    <3>2. Repeats' = Repeats + c /\ Repeats + c <= ahead
      BY <2>5, <2>6
    <3>3. q = Cardinality(Passed) \/ q <= Fetched + l
      BY <2>7
    <3> HIDE DEF c, q
    <3>4. ASSUME q = Cardinality(Passed) PROVE Repeats' + q <= ahead + (Fetched + l)
      BY <1>1, <1>2, <1>3, <3>1, <3>2, <3>4
    <3>5. ASSUME q <= Fetched + l PROVE Repeats' + q <= ahead + (Fetched + l)
      BY <1>3, <3>1, <3>2, <3>5
    <3> QED BY <3>3, <3>4, <3>5 DEF q
  <2> QED BY <2>2, <2>5, <2>6, <2>9
<1>8. CASE \E x \in Row : Leave(x)
  <2>1. UNCHANGED <<shown, page, ahead>> /\ present' \subseteq present
    BY <1>8 DEF Leave
  <2> QED BY <1>6, <2>1
<1>9. CASE Count \/ UNCHANGED vars
  <2>1. UNCHANGED <<shown, page, ahead>> /\ present' \subseteq present
    BY <1>9 DEF Count, vars
  <2> QED BY <1>6, <2>1
<1> QED BY <1>5, <1>7, <1>8, <1>9 DEF Next, Arrived

-----------------------------------------------------------------------------
(* What is missed.                                                         *)

LEMMA PlaceType ==
    ASSUME TypeOK, NEW x \in Row
    PROVE  /\ IsFiniteSet(Earlier(x)) /\ Cardinality(Earlier(x)) \in Nat
           /\ Place(x) \in Nat \ {0} /\ Place(x) = Cardinality(Earlier(x)) + 1
           /\ x \in present => Place(x) <= Cardinality(present)
<1>1. Earlier(x) \subseteq present /\ Earlier(x) \in SUBSET Row /\ present \in SUBSET Row
  BY DEF Earlier, TypeOK
<1>2. IsFiniteSet(Earlier(x)) /\ Cardinality(Earlier(x)) \in Nat
      /\ IsFiniteSet(present) /\ Cardinality(present) \in Nat
  BY <1>1, Rows
<1>3. Place(x) = Cardinality(Earlier(x)) + 1
  BY DEF Place
<1>4. ASSUME x \in present PROVE Cardinality(Earlier(x)) < Cardinality(present)
  <2>1. x \notin Earlier(x)
    BY Ordering DEF Earlier
  <2>2. Earlier(x) # present
    BY <1>4, <2>1
  <2> QED BY <1>1, <1>2, <2>2, FS_Subset
<1> QED BY <1>2, <1>3, <1>4

(* Rows of the list have places in its order.                              *)
LEMMA PlaceGrows ==
    ASSUME TypeOK, NEW x \in present, NEW y \in present, Before(x, y)
    PROVE  Place(x) < Place(y)
<1>1. x \in Row /\ y \in Row
  BY DEF TypeOK
<1>2. Earlier(x) \subseteq Earlier(y)
  <2> SUFFICES ASSUME NEW z \in present, Before(z, x) PROVE Before(z, y)
    BY DEF Earlier
  <2>1. z \in Row /\ ~Before(y, x)
    BY <1>1, Ordering DEF TypeOK
  <2> QED BY <1>1, <2>1, Ordering
<1>3. x \in Earlier(y) /\ x \notin Earlier(x)
  BY <1>1, Ordering DEF Earlier
<1>4. Cardinality(Earlier(x)) < Cardinality(Earlier(y))
  <2>1. IsFiniteSet(Earlier(y)) /\ Cardinality(Earlier(x)) \in Nat /\ Cardinality(Earlier(y)) \in Nat
    BY <1>1, PlaceType
  <2>2. Earlier(x) # Earlier(y)
    BY <1>3
  <2> QED BY <1>2, <2>1, <2>2, FS_Subset
<1> QED BY <1>1, <1>4, PlaceType

LEMMA PlacesDiffer ==
    ASSUME TypeOK, Distinct, NEW x \in present, NEW y \in present, Place(x) = Place(y)
    PROVE  x = y
<1>1. x \in Row /\ y \in Row /\ Place(x) \in Nat
  BY PlaceType DEF TypeOK
<1>2. ~Before(x, y) /\ ~Before(y, x)
  BY <1>1, PlaceGrows
<1> QED BY <1>1, <1>2, Ordering DEF Distinct

(* While the list is as it is, so are its places.                          *)
LEMMA PlaceStays ==
    ASSUME TypeOK, [Next]_vars, present' = present, NEW x \in Row
    PROVE  Place(x)' = Place(x)
<1>1. Earlier(x)' = Earlier(x)
  BY OrderStays DEF Earlier, TypeOK
<1> QED BY <1>1 DEF Place

(* What a page skips had been skipped already.                             *)
LEMMA NoneSkippedByPage ==
    ASSUME TypeOK, [Next]_vars, Distinct, NEW s, NEW new, NEW l, Received(s, new, l),
           present' = present, stayed' = stayed
    PROVE  Skipped' \subseteq Skipped
<1> DEFINE n == Cardinality(present)
<1> SUFFICES ASSUME NEW x \in stayed, x \notin ToSet(shown'), Place(x)' <= Fetched'
             PROVE  x \notin ToSet(shown) /\ Place(x) <= Fetched
  BY DEF Skipped
<1>1. x \in present /\ x \in Row
  BY DEF TypeOK
<1>2. Place(x)' = Place(x)
  BY <1>1, PlaceStays
<1>3. ToSet(shown') = ToSet(shown) \union ToSet(new)
  BY ToSetOfRows DEF Received, TypeOK
<1>4. PICK k \in 1..n : s[k] = x
  BY <1>1, Listed DEF Received
<1>5. Place(x) = k
  <2>1. Alone(x)
    BY <1>1 DEF Alone, Distinct, TypeOK
  <2> QED BY <1>4, <2>1, PlaceInList DEF Received
<1>6. /\ Fetched \in Nat /\ Fetched' = Fetched + l /\ l \in 1..100
      /\ Fetched <= n => Len(new) = Smaller(Fetched + l, n) - Fetched
      /\ DOMAIN new = 1..Len(new)
  BY DEF Received
<1>7. \A i \in 1..Len(new) : new[i] = s[Fetched + i]
  BY DEF Received
<1>8. n \in Nat
  BY Listed DEF Received
<1> HIDE DEF n
<1>9. ASSUME k > Fetched PROVE FALSE
  <2>1. k <= Fetched + l
    BY <1>2, <1>5, <1>6
  <2>2. k - Fetched \in 1..Len(new) /\ Fetched + (k - Fetched) = k
    BY <1>4, <1>6, <1>8, <1>9, <2>1 DEF Smaller
  <2>3. new[k - Fetched] = x
    BY <1>4, <1>7, <2>2
  <2> QED BY <1>3, <1>6, <2>2, <2>3 DEF ToSet
<1> QED BY <1>3, <1>4, <1>5, <1>6, <1>9

LEMMA MissesStep ==
    ASSUME IInv, [Next]_vars
    PROVE  MissesAccounted'
<1> SUFFICES ASSUME Distinct
             PROVE  /\ Cardinality(Skipped') <= left'
                    /\ total' # NotCounted => Cardinality(present') <= total' + late'
                    /\ ~walking' => Cardinality(present') <= Fetched' + late'
  BY OrderStays DEF MissesAccounted
<1>1. /\ TypeOK /\ OffsetFits
      /\ Cardinality(Skipped) <= left
      /\ total # NotCounted => Cardinality(present) <= total + late
      /\ ~walking => Cardinality(present) <= Fetched + late
  BY DEF IInv, MissesAccounted
<1>2. /\ IsFiniteSet(present) /\ Cardinality(present) \in Nat
      /\ IsFiniteSet(Skipped) /\ Cardinality(Skipped) \in Nat /\ Skipped \in SUBSET Row
      /\ left \in Nat /\ late \in Nat /\ Fetched \in Nat /\ total \in Nat \union {NotCounted}
  <2>1. present \in SUBSET Row /\ Skipped \in SUBSET Row
    BY <1>1 DEF TypeOK, Skipped
  <2> QED BY <1>1, <2>1, Rows, FetchedType DEF TypeOK
<1>3. ASSUME Skipped' \subseteq Skipped PROVE Cardinality(Skipped') <= left
  <2>1. Cardinality(Skipped') <= Cardinality(Skipped) /\ Cardinality(Skipped') \in Nat
    BY <1>2, <1>3, FS_Subset, FS_CardinalityType
  <2> QED BY <1>1, <1>2, <2>1
<1>4. ASSUME NEW x \in Row, Enter(x)
      PROVE  /\ Cardinality(Skipped') <= left'
             /\ total' # NotCounted => Cardinality(present') <= total' + late'
             /\ ~walking' => Cardinality(present') <= Fetched' + late'
  <2>1. /\ present' = present \union {x} /\ UNCHANGED <<total, shown, stayed, left, walking, page>>
        /\ walking
        /\ late' = IF total # NotCounted THEN late + 1 ELSE late
    BY <1>4 DEF Enter
  <2>2. Fetched' = Fetched /\ ToSet(shown)' = ToSet(shown)
    BY <2>1 DEF Fetched
  <2>3. ASSUME NEW z \in Row PROVE Place(z)' >= Place(z)
    <3>1. Earlier(z) \subseteq Earlier(z)'
      BY <1>1, <2>1, OrderStays DEF Earlier, TypeOK
    <3>2. IsFiniteSet(Earlier(z)') /\ Cardinality(Earlier(z)') \in Nat
      <4>1. Earlier(z)' \in SUBSET Row
        BY <1>1, <2>1 DEF Earlier, TypeOK
      <4> QED BY <4>1, Rows
    <3>3. Cardinality(Earlier(z)) <= Cardinality(Earlier(z)') /\ Cardinality(Earlier(z)) \in Nat
      BY <1>1, <3>1, <3>2, FS_Subset, PlaceType
    <3> QED BY <3>2, <3>3 DEF Place
  <2>4. Skipped' \subseteq Skipped
    <3> SUFFICES ASSUME NEW z \in stayed, Place(z)' <= Fetched PROVE Place(z) <= Fetched
      BY <2>1, <2>2 DEF Skipped
    <3>1. z \in Row
      BY <1>1 DEF TypeOK
    <3>2. Place(z) \in Nat /\ Place(z)' \in Int
      <4>1. TypeOK'
        BY <1>1, TypeStep
      <4>2. (Earlier(z))' \in SUBSET Row
        BY <1>1, <2>1 DEF Earlier, TypeOK
      <4>3. Cardinality(Earlier(z)') \in Nat
        BY <4>2, Rows
      <4> QED BY <1>1, <3>1, <4>3, PlaceType DEF Place
    <3> QED BY <1>2, <2>3, <3>1, <3>2
  <2>5. Cardinality(present') = Cardinality(present) + 1
    BY <1>2, <1>4, <2>1, FS_AddElement DEF Enter
  <2> QED BY <1>1, <1>2, <1>3, <2>1, <2>4, <2>5
<1>5. ASSUME NEW x \in Row, Leave(x)
      PROVE  /\ Cardinality(Skipped') <= left'
             /\ total' # NotCounted => Cardinality(present') <= total' + late'
             /\ ~walking' => Cardinality(present') <= Fetched' + late'
  <2>1. /\ present' = present \ {x} /\ stayed' = stayed \ {x} /\ left' = left + 1
        /\ UNCHANGED <<total, shown, late, walking, page>> /\ walking
    BY <1>5 DEF Leave
  <2>2. Fetched' = Fetched /\ ToSet(shown)' = ToSet(shown)
    BY <2>1 DEF Fetched
  <2>3. ASSUME NEW z \in Row PROVE Place(z) <= Place(z)' + 1 /\ Place(z)' \in Nat /\ Place(z) \in Nat
    <3>1. Earlier(z)' = Earlier(z) \ {x}
      BY <1>1, <2>1, OrderStays DEF Earlier, TypeOK
    <3>2. IsFiniteSet(Earlier(z)) /\ Cardinality(Earlier(z)) \in Nat
      BY <1>1, PlaceType
    <3>3. Cardinality(Earlier(z) \ {x})
              = IF x \in Earlier(z) THEN Cardinality(Earlier(z)) - 1 ELSE Cardinality(Earlier(z))
      BY <3>2, FS_RemoveElement
    <3>4. Cardinality(Earlier(z) \ {x}) \in Nat
      BY <3>2, FS_RemoveElement, FS_CardinalityType
    <3> QED BY <3>1, <3>2, <3>3, <3>4 DEF Place
  <2>4. ASSUME NEW z \in Skipped' PROVE z \in Skipped \/ (z \in present /\ Place(z) = Fetched + 1)
    <3>1. z \in stayed /\ z \in present /\ z \in Row /\ z \notin ToSet(shown) /\ Place(z)' <= Fetched
      BY <1>1, <2>1, <2>2, <2>4 DEF Skipped, TypeOK
    <3>2. Place(z) <= Fetched \/ Place(z) = Fetched + 1
      BY <1>2, <2>3, <3>1
    <3>3. Place(z) <= Fetched => z \in Skipped
      BY <3>1, Zenon DEF Skipped
    <3> QED BY <3>1, <3>2, <3>3
  <2>5. Cardinality(Skipped') <= left + 1
    <3>1. CASE \E w \in present : Place(w) = Fetched + 1
      <4>1. PICK w \in present : Place(w) = Fetched + 1
        BY <3>1
      <4>2. Skipped' \subseteq Skipped \union {w}
        <5>1. \A z \in present : Place(z) = Fetched + 1 => z = w
          BY <1>1, <4>1, PlacesDiffer
        <5> QED BY <2>4, <5>1
      <4>3. IsFiniteSet(Skipped \union {w})
        BY <1>2, FS_AddElement
      <4>4. Cardinality(Skipped \union {w})
                = IF w \in Skipped THEN Cardinality(Skipped) ELSE Cardinality(Skipped) + 1
        BY <1>2, FS_AddElement
      <4>5. Cardinality(Skipped') <= Cardinality(Skipped \union {w}) /\ Cardinality(Skipped') \in Nat
        BY <4>2, <4>3, FS_Subset, FS_CardinalityType
      <4> QED BY <1>1, <1>2, <4>4, <4>5
    <3>2. CASE ~\E w \in present : Place(w) = Fetched + 1
      <4>1. Skipped' \subseteq Skipped
        BY <2>4, <3>2
      <4>2. Cardinality(Skipped') <= Cardinality(Skipped) /\ Cardinality(Skipped') \in Nat
        BY <1>2, <4>1, FS_Subset, FS_CardinalityType
      <4> QED BY <1>1, <1>2, <4>2
    <3> QED BY <3>1, <3>2
  <2>6. Cardinality(present') <= Cardinality(present) /\ Cardinality(present') \in Nat
    BY <1>2, <2>1, FS_Subset, FS_CardinalityType
  <2> QED BY <1>1, <1>2, <2>1, <2>5, <2>6
<1>6. CASE List
  <2>1. PICK s \in Ordered, new \in Seq(Row), l \in 1..100 : Received(s, new, l)
    BY <1>1, <1>6, PageReceived
  <2>2. UNCHANGED <<present, stayed, left, late>> /\ total' = NotCounted /\ total # NotCounted
    BY <1>6 DEF List
  <2>3. Skipped' \subseteq Skipped
    BY <1>1, <2>1, <2>2, NoneSkippedByPage
  <2>4. ~walking' => ~(Fetched + l < total)
    BY <2>1, Zenon DEF Received
  <2>5. Fetched' = Fetched + l /\ l \in 1..100
    BY <2>1 DEF Received
  <2>6. total \in Nat /\ Cardinality(present) <= total + late
    BY <1>1, <1>2, <2>2
  <2>7. ~(Fetched + l < total) => Cardinality(present) <= Fetched + l + late
    BY <1>2, <2>5, <2>6
  <2> QED BY <1>3, <2>2, <2>3, <2>4, <2>5, <2>7
<1>7. CASE Count \/ UNCHANGED vars
  <2>1. UNCHANGED <<present, stayed, shown, page, left, late, walking, created_at, order>>
        /\ (total' = total \/ total' = Cardinality(present))
    BY <1>7 DEF Count, vars
  <2>2. Fetched' = Fetched
    BY <2>1 DEF Fetched
  <2>3. \A x \in Row : Place(x)' = Place(x)
    BY <1>1, <2>1, PlaceStays
  <2>4. Skipped' \subseteq Skipped
    BY <1>1, <2>1, <2>2, <2>3 DEF Skipped, TypeOK
  <2> QED BY <1>1, <1>2, <1>3, <2>1, <2>2, <2>4
<1> QED BY <1>4, <1>5, <1>6, <1>7 DEF Next, Arrived

-----------------------------------------------------------------------------
(* What is shown while nothing changes.                                    *)

LEMMA PagesJoinStep ==
    ASSUME IInv, [Next]_vars
    PROVE  PagesJoin'
<1> DEFINE n == Cardinality(present)
           Still == Changes = 0 /\ stayed = present
           InPlace(i, x) == Alone(x) => (shown[i] = x <=> i = Place(x))
<1> SUFFICES ASSUME Still'
             PROVE  /\ total' \in {NotCounted, n'}
                    /\ Len(shown') = Smaller(Fetched', n')
                    /\ ~walking' => n' <= Fetched'
                    /\ \A i \in DOMAIN shown', x \in present' : InPlace(i, x)'
  BY DEF PagesJoin
<1>1. TypeOK /\ OffsetFits /\ PagesJoin /\ n \in Nat /\ Fetched \in Nat
  <2>1. TypeOK /\ OffsetFits /\ PagesJoin
    BY DEF IInv
  <2> QED BY <2>1, FetchedType, Rows DEF TypeOK
<1>2. ASSUME NEW x \in Row, Enter(x) PROVE FALSE
  <2>1. x \in present' /\ x \notin stayed'
    BY <1>1, <1>2 DEF Enter, TypeOK
  <2> QED BY <2>1
<1>3. ASSUME NEW x \in Row, Leave(x) PROVE FALSE
  <2>1. left' = left + 1 /\ ahead' = ahead /\ late' = late
    BY <1>3 DEF Leave
  <2> QED BY <1>1, <2>1 DEF Changes, TypeOK
<1>4. CASE Count \/ List \/ UNCHANGED vars
  <2>1. UNCHANGED <<created_at, order, present, stayed, ahead, late, left>>
    BY <1>4 DEF Count, List, vars
  <2>2. /\ total \in {NotCounted, n}
        /\ Len(shown) = Smaller(Fetched, n)
        /\ ~walking => n <= Fetched
        /\ \A i \in DOMAIN shown, x \in present : InPlace(i, x)
    <3>1. Still
      BY <2>1 DEF Changes
    <3> QED BY <1>1, <3>1 DEF PagesJoin
  <2>3. /\ n' = n
        /\ \A x \in present : x \in Row /\ Alone(x)' = Alone(x) /\ Place(x)' = Place(x)
    <3>1. \A x \in present : x \in Row /\ Alone(x)' = Alone(x)
      BY <1>1, <2>1 DEF Alone, TypeOK
    <3>2. \A x \in present : Place(x)' = Place(x)
      BY <1>1, <2>1, <3>1, PlaceStays
    <3> QED BY <2>1, <3>1, <3>2
  <2>4. CASE Count \/ UNCHANGED vars
    <3>1. UNCHANGED <<shown, page, walking>> /\ (total' = total \/ total' = n)
      BY <2>4 DEF Count, vars
    <3>2. Fetched' = Fetched
      BY <3>1 DEF Fetched
    <3> HIDE DEF n
    <3> QED BY <2>1, <2>2, <2>3, <3>1, <3>2
  <2>5. CASE List
    <3>1. PICK s \in Ordered, new \in Seq(Row), l \in 1..100 : Received(s, new, l)
      BY <1>1, <2>5, PageReceived
    <3>2. total' = NotCounted /\ total = n
      BY <2>2, <2>5 DEF List
    <3>3. /\ l \in 1..100 /\ Fetched' = Fetched + l /\ shown' = shown \o new
          /\ Fetched <= n => Len(new) = Smaller(Fetched + l, n) - Fetched
          /\ n <= Fetched => new = << >>
          /\ DOMAIN new = 1..Len(new) /\ Len(new) \in Nat
      BY <3>1 DEF Received
    <3>4. ~walking' => ~(Fetched + l < total)
      BY <3>1, Zenon DEF Received
    <3>5. shown \in Seq(Row) /\ shown' \in Seq(Row) /\ Len(shown) \in Nat
          /\ Len(shown') = Len(shown) + Len(new)
      BY <1>1, <3>3 DEF TypeOK
    <3>6. Len(shown') = Smaller(Fetched', n)
      <4>1. CASE Fetched <= n
        <5> HIDE DEF n
        <5> QED BY <1>1, <2>2, <3>3, <3>5, <4>1 DEF Smaller
      <4>2. CASE n < Fetched
        <5>1. Len(new) = 0
          BY <1>1, <3>3, <4>2
        <5> HIDE DEF n
        <5> QED BY <1>1, <2>2, <3>3, <3>5, <4>2, <5>1 DEF Smaller
      <4> HIDE DEF n
      <4> QED BY <1>1, <4>1, <4>2
    <3>7. ASSUME NEW i \in DOMAIN shown', NEW x \in present, Alone(x)
          PROVE  shown'[i] = x <=> i = Place(x)
      <4>1. CASE i <= Len(shown)
        <5>1. i \in DOMAIN shown /\ shown'[i] = shown[i]
          BY <3>3, <3>5, <4>1
        <5> QED BY <2>2, <3>7, <5>1
      <4>2. CASE i > Len(shown)
        <5>1. i - Len(shown) \in 1..Len(new) /\ shown'[i] = new[i - Len(shown)]
          BY <3>3, <3>5, <4>2
        <5>2. Len(new) # 0
          BY <3>3, <5>1
        <5>3. Fetched <= n /\ Len(shown) = Fetched
          <6>1. ~(n <= Fetched)
            BY <3>3, <5>2
          <6> HIDE DEF n
          <6> QED BY <1>1, <2>2, <6>1 DEF Smaller
        <5>4. i \in 1..n /\ shown'[i] = s[i]
          <6>1. /\ new[i - Fetched] = s[Fetched + (i - Fetched)]
                /\ Fetched + (i - Fetched) \in 1..n
            BY <3>1, <5>1, <5>3 DEF Received
          <6>2. Fetched + (i - Fetched) = i
            BY <1>1, <3>5
          <6> QED BY <5>1, <5>3, <6>1, <6>2
        <5>5. PICK k \in 1..n : s[k] = x
          BY <1>1, Listed
        <5>6. Place(x) = k
          BY <1>1, <3>7, <5>5, PlaceInList
        <5>7. s[i] = s[k] <=> i = k
          BY <1>1, <5>4, <5>5, Listed DEF Injection, IsInjective
        <5> QED BY <5>4, <5>5, <5>6, <5>7
      <4>3. i \in Int /\ Len(shown) \in Int
        BY <3>5
      <4> QED BY <4>1, <4>2, <4>3
    <3>8. ~walking' => n <= Fetched'
      BY <1>1, <3>2, <3>3, <3>4
    <3> HIDE DEF n
    <3> QED BY <2>1, <2>3, <3>2, <3>6, <3>7, <3>8
  <2> QED BY <1>4, <2>4, <2>5
<1> QED BY <1>2, <1>3, <1>4 DEF Next, Arrived

-----------------------------------------------------------------------------
(* The theorems.                                                           *)

(* What a walk has shown, skipped and still has ahead is accounted for, to *)
(* the row, at each of its steps.                                          *)
THEOREM Invariance == Spec => []IInv
<1>1. IInv /\ [Next]_vars => IInv'
  BY TypeStep, RepeatsStep, MissesStep, PagesJoinStep DEF IInv
<1> QED BY InitInv, <1>1, PTL DEF Spec

(* What a walk shows twice is never more than what came in before a row it *)
(* had shown.                                                              *)
THEOREM RepeatsAreAhead == Spec => []RepeatsBounded
<1>1. IInv => RepeatsBounded
  BY DEF IInv, RepeatsAccounted, RepeatsBounded
<1> QED BY <1>1, Invariance, PTL

(* What a finished walk has missed of the rows that were there all along   *)
(* is never more than what went, or came in behind a COUNT's back.         *)
THEOREM MissesAreLeftOrLate == Spec => []MissesBounded
<1>1. IInv => MissesBounded
  <2> SUFFICES ASSUME IInv, ~walking, Distinct
               PROVE  Cardinality(stayed \ ToSet(shown)) <= left + late
    BY DEF MissesBounded
  <2> DEFINE n == Cardinality(present)
             Cut == {x \in present : Place(x) > Fetched}
             Missed == stayed \ ToSet(shown)
  <2>1. /\ TypeOK /\ Cardinality(Skipped) <= left
        /\ n <= Fetched + late
        /\ n \in Nat /\ Fetched \in Nat /\ left \in Nat /\ late \in Nat
        /\ Skipped \in SUBSET Row /\ Cut \in SUBSET Row /\ Missed \in SUBSET Row
    <3>1. TypeOK /\ Cardinality(Skipped) <= left /\ n <= Fetched + late
      BY DEF IInv, MissesAccounted
    <3> QED BY <3>1, Rows, FetchedType DEF TypeOK, Skipped
  <2>2. Missed \subseteq Skipped \union Cut
    <3>1. \A x \in stayed : x \in present /\ Place(x) \in Nat
      BY <2>1, PlaceType DEF TypeOK
    <3> QED BY <2>1, <3>1 DEF Skipped
  <2>3. IsFiniteSet(Cut) /\ Cardinality(Cut) <= late /\ Cardinality(Cut) \in Nat
    <3>1. \A x \in Cut : Place(x) \in (Fetched + 1)..n
      BY <2>1, PlaceType DEF TypeOK
    <3>2. \A x, y \in Cut : Place(x) = Place(y) => x = y
      BY <2>1, PlacesDiffer
    <3> DEFINE f == [x \in Cut |-> Place(x)]
    <3>3. f \in Injection(Cut, (Fetched + 1)..n)
      BY <3>1, <3>2, Zenon DEF Injection, IsInjective
    <3>4. IsFiniteSet((Fetched + 1)..n) /\ Cardinality((Fetched + 1)..n) <= late
      <4>1. Cardinality((Fetched + 1)..n) = IF Fetched + 1 > n THEN 0 ELSE n - (Fetched + 1) + 1
        <5>1. Fetched + 1 \in Int /\ n \in Int
          BY <2>1
        <5> HIDE DEF n
        <5> QED BY <5>1, FS_Interval
      <4> HIDE DEF n
      <4> QED BY <2>1, <4>1, FS_Interval
    <3>5. Cardinality((Fetched + 1)..n) \in Nat
      BY <3>4, FS_CardinalityType
    <3> HIDE DEF f, Cut, n
    <3>6. IsFiniteSet(Cut) /\ Cardinality(Cut) <= Cardinality((Fetched + 1)..n)
      BY <3>3, <3>4, FS_Injection
    <3>7. Cardinality(Cut) \in Nat
      BY <3>6, FS_CardinalityType
    <3> QED BY <2>1, <3>4, <3>5, <3>6, <3>7
  <2>4. IsFiniteSet(Skipped) /\ Cardinality(Skipped) \in Nat /\ Cardinality(Missed) \in Nat
    BY <2>1, Rows
  <2> HIDE DEF Cut, Missed, n
  <2>5. /\ IsFiniteSet(Skipped \union Cut)
        /\ Cardinality(Skipped \union Cut)
              = Cardinality(Skipped) + Cardinality(Cut) - Cardinality(Skipped \intersect Cut)
    BY <2>3, <2>4, FS_Union
  <2>6. Cardinality(Skipped \intersect Cut) \in Nat
    BY <2>4, FS_Intersection, FS_CardinalityType
  <2>7. Cardinality(Missed) <= Cardinality(Skipped \union Cut)
    BY <2>2, <2>5, FS_Subset
  <2>8. Cardinality(Missed) <= left + late
    BY <2>1, <2>3, <2>4, <2>5, <2>6, <2>7
  <2> QED BY <2>8 DEF Missed
<1> QED BY <1>1, Invariance, PTL

(* If nothing changes, every row with a created_at of its own is shown     *)
(* once, whatever order the others come in on each page.                   *)
THEOREM StillListShownOnce == Spec => []OwnTimeShownOnce
<1>1. IInv => OwnTimeShownOnce
  <2> SUFFICES ASSUME IInv, ~walking, Changes = 0, stayed = present, NEW x \in present, Alone(x)
               PROVE  Cardinality({i \in DOMAIN shown : shown[i] = x}) = 1
    BY DEF OwnTimeShownOnce, Alone
  <2>1. /\ Len(shown) = Smaller(Fetched, Cardinality(present))
        /\ Cardinality(present) <= Fetched
        /\ \A i \in DOMAIN shown : shown[i] = x <=> i = Place(x)
    BY DEF IInv, PagesJoin
  <2>2. TypeOK /\ x \in Row /\ Fetched \in Nat /\ Cardinality(present) \in Nat
    <3>1. TypeOK
      BY DEF IInv
    <3> QED BY <3>1, FetchedType, Rows DEF TypeOK
  <2>3. Len(shown) = Cardinality(present) /\ DOMAIN shown = 1..Len(shown)
    BY <2>1, <2>2 DEF Smaller, TypeOK
  <2>4. Place(x) \in DOMAIN shown
    BY <2>2, <2>3, PlaceType
  <2>5. {i \in DOMAIN shown : shown[i] = x} = {Place(x)}
    BY <2>1, <2>4
  <2> QED BY <2>5, FS_Singleton
<1> QED BY <1>1, Invariance, PTL
=============================================================================
