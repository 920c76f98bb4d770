---------------------------- MODULE ReaderProofs ----------------------------
(***************************************************************************)
(* What ReadTransactions makes of a file, for every file: the reading has  *)
(* its type, it is the one written in the rows, and its transactions have  *)
(* ids of their own.  The provers do not take the induction theorems of    *)
(* the library, whose predicate is a parameter; the induction is set up    *)
(* here on sets of numbers instead, from the least element of a set.       *)
(***************************************************************************)
EXTENDS TransactionReader, FiniteSetTheorems, WellFoundedInduction,
        SequenceTheorems, TLAPS

-----------------------------------------------------------------------------
(* Induction over a set of numbers.                                         *)

\* A set of numbers that is not empty has a least element.
LEMMA LeastNatural ==
  ASSUME NEW T \in SUBSET Nat, T # {}
  PROVE  \E x \in T : \A y \in T : x <= y
<1>. DEFINE R == OpToRel(<, Nat)
<1>1. IsWellFoundedOn(R, Nat)
  BY NatLessThanWellFounded
<1>2. \E x \in T : \A y \in T : <<y, x>> \notin R
  <2>. HIDE DEF R
  <2>. QED  BY <1>1, WFMin, Zenon
<1>3. \A x, y \in T : <<y, x>> \notin R => x <= y
  BY DEF OpToRel
<1>. QED  BY <1>2, <1>3

\* What holds at 0 and goes from each number to the next holds up to n.
LEMMA IntervalInduction ==
  ASSUME NEW n \in Nat, NEW T, 0 \in T,
         \A i \in 0 .. n - 1 : i \in T => i + 1 \in T
  PROVE  \A i \in 0 .. n : i \in T
<1>. SUFFICES ASSUME NEW i \in 0 .. n, i \notin T PROVE FALSE
  OBVIOUS
<1>. DEFINE Out == {j \in 0 .. n : j \notin T}
<1>1. PICK j \in Out : \A k \in Out : j <= k
  <2>1. Out \in SUBSET Nat /\ Out # {}
    OBVIOUS
  <2>. QED  BY <2>1, LeastNatural
<1>2. j - 1 \in 0 .. n - 1 /\ j - 1 \in T
  <2>1. j \in 0 .. n /\ j # 0
    OBVIOUS
  <2>2. j - 1 \notin Out
    BY <1>1
  <2>. QED  BY <2>1, <2>2
<1>. QED  BY <1>1, <1>2

\* Min picks an element that is not greater than any other.
LEMMA MinOfNats ==
  ASSUME NEW T \in SUBSET Nat, T # {}
  PROVE  Min(T) \in T /\ \A y \in T : Min(T) <= y
BY LeastNatural DEF Min

\* Max picks an element that is not less than any other.
LEMMA MaxOfInterval ==
  ASSUME NEW n \in Nat, NEW T \in SUBSET (0 .. n), T # {}
  PROVE  Max(T) \in T /\ \A y \in T : y <= Max(T)
<1>. DEFINE D == {n - y : y \in T}
<1>1. PICK d \in D : \A e \in D : d <= e
  <2>1. D \in SUBSET Nat /\ D # {}
    OBVIOUS
  <2>. QED  BY <2>1, LeastNatural
<1>2. PICK x \in T : d = n - x
  OBVIOUS
<1>3. \A y \in T : y <= x
  <2>. TAKE y \in T
  <2>1. n - x <= n - y
    BY <1>1, <1>2
  <2>2. x \in 0 .. n /\ y \in 0 .. n
    OBVIOUS
  <2>. QED  BY <2>1, <2>2
<1>4. \E z \in T : \A y \in T : z >= y
  BY <1>3
<1>. QED  BY <1>4 DEF Max

\* The greatest element of 1 .. i is i.
LEMMA MaxOfWhole ==
  ASSUME NEW i \in Nat \ {0}, NEW T \in SUBSET (1 .. i), i \in T
  PROVE  Max(T) = i
<1>1. T \in SUBSET (0 .. i) /\ T # {}
  OBVIOUS
<1>2. Max(T) \in 1 .. i /\ i <= Max(T)
  BY <1>1, MaxOfInterval
<1>. QED  BY <1>2

-----------------------------------------------------------------------------
(* Folds over finite sets.                                                  *)

\* pick[T] is an element of T.
Picks(pick, S) == \A T \in SUBSET S : T # {} => pick[T] \in T

\* g[T] is what the steps make of base, taken as pick orders the elements of T.
Folds(g, S, base, pick, step) ==
  \A T \in SUBSET S :
    g[T] = IF T = {} THEN base ELSE step[pick[T]][g[T \ {pick[T]}]]

\* A function that combines the elements of a set one by one, in the order in
\* which they are picked, exists.  It is what a recursive definition chooses.
LEMMA FoldExists ==
  ASSUME NEW S, IsFiniteSet(S), NEW V, NEW base \in V,
         NEW pick, Picks(pick, S), NEW step \in [S -> [V -> V]]
  PROVE  \E g \in [SUBSET S -> V] : Folds(g, S, base, pick, step)
<1>. DEFINE Small(k) == {T \in SUBSET S : Cardinality(T) <= k}
            Part(g, k) == \A T \in Small(k) :
              g[T] = IF T = {} THEN base ELSE step[pick[T]][g[T \ {pick[T]}]]
            N == Cardinality(S)
            Good == {k \in 0 .. N : \E g \in [Small(k) -> V] : Part(g, k)}
<1>1. N \in Nat
  BY FS_CardinalityType
<1>2. \A T \in SUBSET S : IsFiniteSet(T) /\ Cardinality(T) \in 0 .. N
  BY <1>1, FS_Subset, FS_CardinalityType
<1>3. ASSUME NEW T \in SUBSET S, T # {}
      PROVE  Cardinality(T \ {pick[T]}) = Cardinality(T) - 1
  BY <1>2, <1>3, FS_RemoveElement DEF Picks
<1>4. 0 \in Good
  <2>1. \A T \in Small(0) : T = {}
    BY <1>2, FS_EmptySet
  <2>. DEFINE g == [T \in Small(0) |-> base]
  <2>2. g \in [Small(0) -> V]
    OBVIOUS
  <2>3. Part(g, 0)
    BY <2>1
  <2>. HIDE DEF g, Part, Small
  <2>. QED  BY <1>1, <2>2, <2>3
<1>5. ASSUME NEW k \in 0 .. N - 1, k \in Good
      PROVE  k + 1 \in Good
  <2>1. PICK g \in [Small(k) -> V] : Part(g, k)
    BY <1>5
  <2>. DEFINE h == [T \in Small(k + 1) |->
                      IF Cardinality(T) <= k THEN g[T]
                      ELSE step[pick[T]][g[T \ {pick[T]}]]]
  <2>2. ASSUME NEW T \in Small(k + 1), T # {}
        PROVE  pick[T] \in S /\ T \ {pick[T]} \in Small(k)
    <3>1. T \in SUBSET S /\ Cardinality(T) <= k + 1 /\ Cardinality(T) \in Nat
      BY <1>2
    <3>2. Cardinality(T \ {pick[T]}) = Cardinality(T) - 1
      BY <1>3, <2>2, <3>1
    <3>3. Cardinality(T) - 1 <= k
      BY <3>1
    <3>4. pick[T] \in T
      BY <2>2 DEF Picks
    <3>. QED  BY <3>1, <3>2, <3>3, <3>4
  <2>3. \A T \in Small(k + 1) : ~(Cardinality(T) <= k) => T # {}
    <3>1. Cardinality({}) = 0 /\ 0 <= k
      BY FS_EmptySet, <1>1
    <3>. QED  BY <3>1
  <2>4. \A T \in Small(k) : T \in Small(k + 1) /\ h[T] = g[T]
    <3>1. \A T \in Small(k) : T \in Small(k + 1)
      BY <1>2
    <3>. QED  BY <3>1
  <2>5. h \in [Small(k + 1) -> V]
    <3>. SUFFICES ASSUME NEW T \in Small(k + 1)
                  PROVE  h[T] \in V
      OBVIOUS
    <3>1. CASE Cardinality(T) <= k
      <4>1. T \in Small(k)
        BY <3>1
      <4>. QED  BY <2>4, <4>1
    <3>2. CASE ~(Cardinality(T) <= k)
      <4>1. g[T \ {pick[T]}] \in V /\ pick[T] \in S
        BY <2>2, <2>3, <3>2
      <4>2. step[pick[T]] \in [V -> V]
        BY <4>1
      <4>3. h[T] = step[pick[T]][g[T \ {pick[T]}]]
        BY <3>2
      <4>. HIDE DEF h
      <4>. QED  BY <4>1, <4>2, <4>3
    <3>. QED  BY <3>1, <3>2
  <2>6. Part(h, k + 1)
    <3>. SUFFICES ASSUME NEW T \in Small(k + 1)
                  PROVE  h[T] = IF T = {} THEN base
                                ELSE step[pick[T]][h[T \ {pick[T]}]]
      OBVIOUS
    <3>1. T # {} => h[T \ {pick[T]}] = g[T \ {pick[T]}]
      BY <2>2, <2>4
    <3>2. CASE Cardinality(T) <= k
      <4>1. T \in Small(k)
        BY <3>2
      <4>2. g[T] = IF T = {} THEN base ELSE step[pick[T]][g[T \ {pick[T]}]]
        BY <2>1, <4>1
      <4>. QED  BY <2>4, <3>1, <4>1, <4>2
    <3>3. CASE ~(Cardinality(T) <= k)
      <4>1. h[T] = step[pick[T]][g[T \ {pick[T]}]]
        BY <3>3
      <4>. QED  BY <2>3, <3>1, <3>3, <4>1
    <3>. QED  BY <3>2, <3>3
  <2>. HIDE DEF h, Part, Small
  <2>. QED  BY <1>1, <2>5, <2>6
<1>6. N \in Good
  <2>. HIDE DEF Good
  <2>. QED  BY <1>1, <1>4, <1>5, IntervalInduction
<1>7. Small(N) = SUBSET S
  BY <1>2
<1>. QED  BY <1>6, <1>7 DEF Folds

-----------------------------------------------------------------------------
(* The rows.                                                                *)

\* A list of servers for a set is a set of servers.
LEMMA ListedType ==
  ASSUME NEW old \in SUBSET Node, NEW cell \in SUBSET Node
  PROVE  Listed(old, cell) \in SUBSET Node
BY DEF Listed

\* The fields of a reading have their types.
LEMMA ReadingFields ==
  ASSUME NEW r \in Reading
  PROVE  /\ r.ok \in BOOLEAN /\ r.current \in SetNums /\ r.nextId \in Nat
         /\ r.sets \in [SetNums -> Seq(Request)]
         /\ r.live \in [SetNums -> SUBSET Node]
         /\ r.byz \in [SetNums -> SUBSET Node]
         /\ r = [ok |-> r.ok, current |-> r.current, sets |-> r.sets,
                 live |-> r.live, byz |-> r.byz, nextId |-> r.nextId]
BY DEF Reading

\* Before the first row nothing has been read.
LEMMA NothingReadType ==
  ASSUME NEW id \in Nat
  PROVE  NothingRead(id) \in Reading
<1>1. 0 \in SetNums
  BY MaxSetAssumption DEF SetNums
<1>2. [k \in SetNums |-> <<>>] \in [SetNums -> Seq(Request)]
  OBVIOUS
<1>. QED  BY <1>1, <1>2 DEF NothingRead, Reading

\* The header of a row changes the current set and its lists only.
LEMMA WithHeaderType ==
  ASSUME NEW r \in Reading, NEW row \in Row
  PROVE  /\ WithHeader(r, row) \in Reading
         /\ WithHeader(r, row).ok = r.ok
         /\ WithHeader(r, row).sets = r.sets
         /\ WithHeader(r, row).nextId = r.nextId
         /\ WithHeader(r, row).current = IF row.set = NoCell THEN r.current ELSE row.set
         /\ WithHeader(r, row).live =
              IF row.set = NoCell THEN r.live
              ELSE [r.live EXCEPT ![row.set] = Listed(@, row.live)]
         /\ WithHeader(r, row).byz =
              IF row.set = NoCell THEN r.byz
              ELSE [r.byz EXCEPT ![row.set] = Listed(@, row.byz)]
<1>1. CASE row.set = NoCell
  BY <1>1 DEF WithHeader
<1>2. CASE row.set # NoCell
  <2>1. row.set \in SetNums /\ row.live \in SUBSET Node /\ row.byz \in SUBSET Node
    BY <1>2 DEF Row
  <2>2. /\ r.live[row.set] \in SUBSET Node /\ r.byz[row.set] \in SUBSET Node
    BY <2>1, ReadingFields
  <2>. DEFINE live == [r.live EXCEPT ![row.set] = Listed(@, row.live)]
              byz == [r.byz EXCEPT ![row.set] = Listed(@, row.byz)]
  <2>3. live \in [SetNums -> SUBSET Node] /\ byz \in [SetNums -> SUBSET Node]
    BY <2>1, <2>2, ReadingFields, ListedType
  <2>4. WithHeader(r, row) =
          [ok |-> r.ok, current |-> row.set, sets |-> r.sets, live |-> live,
           byz |-> byz, nextId |-> r.nextId]
    BY <1>2, ReadingFields DEF WithHeader, Reading
  <2>. HIDE DEF live, byz
  <2>5. WithHeader(r, row) \in Reading
    BY <2>1, <2>3, <2>4, ReadingFields DEF Reading
  <2>. QED  BY <1>2, <2>4, <2>5 DEF live, byz
<1>. QED  BY <1>1, <1>2

\* The transaction that a row adds to the current set.
Given(r, row) == [id |-> r.nextId, set |-> r.current, tx |-> row.tx]

\* A transaction is appended to the current set and takes the next id.
LEMMA WithTransactionType ==
  ASSUME NEW r \in Reading, NEW row \in Row
  PROVE  /\ WithTransaction(r, row) \in Reading
         /\ row.tx = NoCell => WithTransaction(r, row) = r
         /\ row.tx # NoCell => Given(r, row) \in Request
         /\ WithTransaction(r, row).ok = r.ok
         /\ WithTransaction(r, row).current = r.current
         /\ WithTransaction(r, row).live = r.live
         /\ WithTransaction(r, row).byz = r.byz
         /\ row.tx # NoCell =>
              /\ WithTransaction(r, row).nextId = r.nextId + 1
              /\ WithTransaction(r, row).sets =
                   [r.sets EXCEPT ![r.current] = Append(@, Given(r, row))]
<1>1. CASE row.tx = NoCell
  BY <1>1 DEF WithTransaction
<1>2. CASE row.tx # NoCell
  <2>1. row.tx \in Payload
    BY <1>2 DEF Row
  <2>2. Given(r, row) \in Request
    BY <2>1, ReadingFields DEF Given, Request
  <2>. DEFINE sets == [r.sets EXCEPT ![r.current] = Append(@, Given(r, row))]
  <2>3. r.current \in SetNums /\ r.sets[r.current] \in Seq(Request)
    BY ReadingFields
  <2>4. Append(r.sets[r.current], Given(r, row)) \in Seq(Request)
    BY <2>2, <2>3, AppendProperties
  <2>5. sets \in [SetNums -> Seq(Request)]
    BY <2>3, <2>4, ReadingFields
  <2>6. WithTransaction(r, row) =
          [ok |-> r.ok, current |-> r.current, sets |-> sets, live |-> r.live,
           byz |-> r.byz, nextId |-> r.nextId + 1]
    BY <1>2, ReadingFields DEF WithTransaction, Reading, Given
  <2>. HIDE DEF sets
  <2>7. WithTransaction(r, row) \in Reading
    BY <2>5, <2>6, ReadingFields DEF Reading
  <2>. QED  BY <1>2, <2>2, <2>6, <2>7 DEF sets
<1>. QED  BY <1>1, <1>2

\* A row makes a reading of a reading.
LEMMA ReadRowType ==
  ASSUME NEW r \in Reading, NEW row \in Row
  PROVE  ReadRow(r, row) \in Reading
<1>1. [r EXCEPT !.ok = FALSE] \in Reading
  BY ReadingFields DEF Reading
<1>. QED  BY <1>1, WithHeaderType, WithTransactionType DEF ReadRow

\* Reading a file goes through readings, one after each row.
LEMMA RowByRow ==
  ASSUME NEW file \in Seq(Row), NEW id \in Nat
  PROVE  \E r \in [0 .. Len(file) -> Reading] :
           /\ r[0] = NothingRead(id)
           /\ \A i \in 1 .. Len(file) : r[i] = ReadRow(r[i - 1], file[i])
           /\ r[Len(file)] = FoldLeft(ReadRow, NothingRead(id), file)
<1>. DEFINE n == Len(file)
            S == 1 .. n
            base == NothingRead(id)
            pick == [T \in SUBSET S |-> Max(T)]
            step == [i \in S |-> [r \in Reading |-> ReadRow(r, file[i])]]
            F(g) == [T \in SUBSET S |-> IF T = {} THEN base
                       ELSE ReadRow(g[T \ {Max(T)}], file[Max(T)])]
            iter == CHOOSE g : g = F(g)
<1>1. n \in Nat /\ DOMAIN file = S /\ \A i \in S : file[i] \in Row
  BY LenProperties, ElementOfSeq
<1>2. base \in Reading
  BY NothingReadType
<1>3. Picks(pick, S)
  <2>. USE DEF Picks
  <2>. TAKE T \in SUBSET S
  <2>1. T \in SUBSET (0 .. n)
    OBVIOUS
  <2>. QED  BY <1>1, <2>1, MaxOfInterval
<1>4. step \in [S -> [Reading -> Reading]]
  BY <1>1, ReadRowType
<1>5. \E g : g = F(g)
  <2>1. IsFiniteSet(S)
    BY <1>1, FS_Interval
  <2>2. PICK g \in [SUBSET S -> Reading] : Folds(g, S, base, pick, step)
    <3>. HIDE DEF S, base, pick, step
    <3>. QED  BY <1>2, <1>3, <1>4, <2>1, FoldExists
  <2>3. ASSUME NEW T \in SUBSET S, T # {}
        PROVE  step[pick[T]][g[T \ {pick[T]}]] =
                 ReadRow(g[T \ {Max(T)}], file[Max(T)])
    <3>1. Max(T) \in S /\ pick[T] = Max(T)
      BY <1>3, <2>3 DEF Picks
    <3>2. g[T \ {Max(T)}] \in Reading
      OBVIOUS
    <3>. QED  BY <3>1, <3>2
  <2>4. g = F(g)
    <3>. HIDE DEF step, pick, base
    <3>. QED  BY <2>2, <2>3 DEF Folds
  <2>. QED  BY <2>4
<1>6. iter = F(iter)
  <2>. HIDE DEF F
  <2>. QED  BY <1>5
<1>7. FoldLeft(ReadRow, NothingRead(id), file) = iter[S]
  <2>. USE DEF FoldLeft, MapThenFoldSet
  <2>. QED  BY <1>1
<1>. HIDE DEF iter
<1>. DEFINE r == [i \in 0 .. n |-> iter[1 .. i]]
            Typed == {i \in 0 .. n : r[i] \in Reading}
<1>8. r[0] = base
  <2>1. 1 .. 0 = {} /\ {} \in SUBSET S
    OBVIOUS
  <2>2. iter[{}] = base
    BY <1>6, <2>1
  <2>. QED  BY <1>1, <2>1, <2>2
<1>9. ASSUME NEW i \in 1 .. n
      PROVE  r[i] = ReadRow(r[i - 1], file[i])
  <2>1. 1 .. i \in SUBSET S /\ 1 .. i # {} /\ i \in 1 .. i
    <3>1. i \in Nat /\ 1 <= i /\ i <= n
      BY <1>1
    <3>2. i \in 1 .. i
      BY <3>1
    <3>3. \A j \in 1 .. i : j \in S
      BY <1>1, <3>1
    <3>. QED  BY <3>2, <3>3
  <2>2. Max(1 .. i) = i
    BY <2>1, MaxOfWhole
  <2>3. (1 .. i) \ {i} = 1 .. i - 1
    OBVIOUS
  <2>4. iter[1 .. i] = ReadRow(iter[1 .. i - 1], file[i])
    <3>. HIDE DEF base
    <3>. QED  BY <1>6, <2>1, <2>2, <2>3
  <2>. QED  BY <1>1, <2>4
<1>10. \A i \in 0 .. n : r[i] \in Reading
  <2>1. 0 \in Typed
    BY <1>1, <1>2, <1>8
  <2>2. ASSUME NEW i \in 0 .. n - 1, i \in Typed
        PROVE  i + 1 \in Typed
    <3>1. i + 1 \in 1 .. n /\ (i + 1) - 1 = i
      BY <1>1
    <3>2. r[i + 1] = ReadRow(r[i], file[i + 1])
      BY <1>9, <3>1
    <3>. QED  BY <1>1, <2>2, <3>1, <3>2, ReadRowType
  <2>3. \A i \in 0 .. n : i \in Typed
    <3>. HIDE DEF Typed
    <3>. QED  BY <1>1, <2>1, <2>2, IntervalInduction
  <2>. QED  BY <2>3
<1>11. r \in [0 .. n -> Reading]
  BY <1>10
<1>12. r[n] = iter[S]
  BY <1>1
<1>. HIDE DEF r
<1>. QED  BY <1>7, <1>8, <1>9, <1>11, <1>12

-----------------------------------------------------------------------------
(* The type of a reading.                                                   *)

\* Whatever the file, ReadTransactions gives a reading, and one that is not
\* ok has no sets and no lists.
THEOREM ReadTransactionsType ==
  ASSUME NEW file \in Seq(Row), NEW id \in Nat
  PROVE  ReadTransactions(file, id) \in Reading
<1>1. PICK r \in [0 .. Len(file) -> Reading] :
           r[Len(file)] = FoldLeft(ReadRow, NothingRead(id), file)
  BY RowByRow
<1>. DEFINE last == FoldLeft(ReadRow, NothingRead(id), file)
<1>2. last \in Reading
  BY <1>1, LenProperties
<1>. HIDE DEF last
<1>3. NothingRead(last.nextId) \in Reading
  BY <1>2, ReadingFields, NothingReadType
<1>4. [NothingRead(last.nextId) EXCEPT !.ok = FALSE] \in Reading
  BY <1>3, ReadingFields DEF Reading
<1>. QED  BY <1>2, <1>4 DEF ReadTransactions, last

-----------------------------------------------------------------------------
(* What is written in the rows, one row further.                            *)

\* The set of a row is the one its header gives, or that of the row before.
LEMMA SetOfNext ==
  ASSUME NEW file, NEW i \in Nat
  PROVE  /\ SetOf(file, 0) = 0
         /\ SetOf(file, i + 1) = IF file[i + 1].set = NoCell THEN SetOf(file, i)
                                 ELSE file[i + 1].set
<1>1. Headers(file, 0) = {}
  BY DEF Headers
<1>2. CASE file[i + 1].set = NoCell
  <2>1. Headers(file, i + 1) = Headers(file, i)
    BY <1>2 DEF Headers
  <2>. QED  BY <1>1, <1>2, <2>1 DEF SetOf
<1>3. CASE file[i + 1].set # NoCell
  <2>1. /\ Headers(file, i + 1) \in SUBSET (1 .. i + 1)
        /\ i + 1 \in Headers(file, i + 1)
    BY <1>3 DEF Headers
  <2>2. Max(Headers(file, i + 1)) = i + 1
    BY <2>1, MaxOfWhole
  <2>. QED  BY <1>1, <1>3, <2>1, <2>2 DEF SetOf
<1>. QED  BY <1>2, <1>3

\* A set of rows is finite.
LEMMA FiniteRows ==
  ASSUME NEW i \in Nat, NEW T, T \subseteq 1 .. i
  PROVE  IsFiniteSet(T) /\ Cardinality(T) \in Nat
<1>1. IsFiniteSet(1 .. i)
  BY FS_Interval
<1>2. IsFiniteSet(T)
  BY <1>1, FS_Subset
<1>. QED  BY <1>2, FS_CardinalityType

\* One row more brings one transaction or none.
LEMMA TransactionsNext ==
  ASSUME NEW file, NEW i \in Nat
  PROVE  /\ Cardinality(Transactions(file, 0)) = 0
         /\ IsFiniteSet(Transactions(file, i))
         /\ Cardinality(Transactions(file, i)) \in Nat
         /\ Cardinality(Transactions(file, i + 1)) =
              IF file[i + 1].tx = NoCell THEN Cardinality(Transactions(file, i))
              ELSE Cardinality(Transactions(file, i)) + 1
<1>1. Transactions(file, 0) = {}
  BY DEF Transactions
<1>2. Transactions(file, i) \subseteq 1 .. i /\ i + 1 \notin Transactions(file, i)
  BY DEF Transactions
<1>3. IsFiniteSet(Transactions(file, i)) /\ Cardinality(Transactions(file, i)) \in Nat
  BY <1>2, FiniteRows
<1>4. CASE file[i + 1].tx = NoCell
  <2>1. Transactions(file, i + 1) = Transactions(file, i)
    BY <1>4 DEF Transactions
  <2>. QED  BY <1>1, <1>3, <1>4, <2>1, FS_EmptySet
<1>5. CASE file[i + 1].tx # NoCell
  <2>1. Transactions(file, i + 1) = Transactions(file, i) \cup {i + 1}
    BY <1>5 DEF Transactions
  <2>2. Cardinality(Transactions(file, i) \cup {i + 1}) =
          Cardinality(Transactions(file, i)) + 1
    BY <1>2, <1>3, FS_AddElement
  <2>. QED  BY <1>1, <1>3, <1>5, <2>1, <2>2, FS_EmptySet
<1>. QED  BY <1>4, <1>5

\* The rows of a set are the rows before and perhaps this one.
LEMMA RowsNext ==
  ASSUME NEW file, NEW i \in Nat, NEW k
  PROVE  /\ RowsOf(file, 0, k) = {}
         /\ RowsOf(file, i, k) \subseteq 1 .. i
         /\ i + 1 \notin RowsOf(file, i, k)
         /\ RowsOf(file, i + 1, k) =
              IF file[i + 1].tx # NoCell /\ SetOf(file, i + 1) = k
              THEN RowsOf(file, i, k) \cup {i + 1} ELSE RowsOf(file, i, k)
<1>1. \A j : j \in 1 .. i + 1 <=> (j \in 1 .. i \/ j = i + 1)
  OBVIOUS
<1>. QED  BY <1>1 DEF RowsOf, Transactions

\* The rows of a set can be counted.
LEMMA RowsFinite ==
  ASSUME NEW file, NEW i \in Nat, NEW k
  PROVE  /\ IsFiniteSet(RowsOf(file, i, k))
         /\ Cardinality(RowsOf(file, i, k)) \in Nat
         /\ Cardinality(RowsOf(file, i + 1, k)) =
              IF file[i + 1].tx # NoCell /\ SetOf(file, i + 1) = k
              THEN Cardinality(RowsOf(file, i, k)) + 1
              ELSE Cardinality(RowsOf(file, i, k))
<1>1. IsFiniteSet(RowsOf(file, i, k)) /\ Cardinality(RowsOf(file, i, k)) \in Nat
  BY RowsNext, FiniteRows
<1>2. Cardinality(RowsOf(file, i, k) \cup {i + 1}) = Cardinality(RowsOf(file, i, k)) + 1
  BY <1>1, RowsNext, FS_AddElement
<1>. QED  BY <1>1, <1>2, RowsNext

\* A row of a set has a place among the transactions of the set.
LEMMA PlaceOfRow ==
  ASSUME NEW file, NEW i \in Nat, NEW k, NEW j \in RowsOf(file, i, k)
  PROVE  Cardinality(RowsOf(file, j, k)) \in 1 .. Cardinality(RowsOf(file, i, k))
<1>1. /\ RowsOf(file, j, k) \in SUBSET RowsOf(file, i, k)
      /\ j \in RowsOf(file, j, k)
  BY DEF RowsOf, Transactions
<1>2. Cardinality(RowsOf(file, j, k)) <= Cardinality(RowsOf(file, i, k))
  BY <1>1, RowsFinite, FS_Subset
<1>3. j \in Nat
  BY DEF RowsOf, Transactions
<1>4. Cardinality(RowsOf(file, j, k)) # 0
  BY <1>1, <1>3, RowsFinite, FS_EmptySet
<1>5. /\ Cardinality(RowsOf(file, j, k)) \in Nat
      /\ Cardinality(RowsOf(file, i, k)) \in Nat
  BY <1>3, RowsFinite
<1>. QED  BY <1>2, <1>4, <1>5

\* The servers listed for a set in the first rows.
LiveOf(file, i, k) == WrittenList(file, i, k, LAMBDA row : row.live)
ByzOf(file, i, k) == WrittenList(file, i, k, LAMBDA row : row.byz)

\* One row more replaces the list of its set, if it has one.
LEMMA LiveNext ==
  ASSUME NEW file, NEW i \in Nat, NEW k
  PROVE  /\ LiveOf(file, 0, k) = {}
         /\ LiveOf(file, i + 1, k) =
              IF file[i + 1].set = k
              THEN Listed(LiveOf(file, i, k), file[i + 1].live)
              ELSE LiveOf(file, i, k)
<1>. DEFINE rows(m) == {j \in 1 .. m : file[j].set = k /\ file[j].live # {}}
<1>1. rows(0) = {}
  OBVIOUS
<1>2. CASE file[i + 1].set = k /\ file[i + 1].live # {}
  <2>1. rows(i + 1) \in SUBSET (1 .. i + 1) /\ i + 1 \in rows(i + 1)
    BY <1>2
  <2>2. Max(rows(i + 1)) = i + 1
    <3>. HIDE DEF rows
    <3>. QED  BY <2>1, MaxOfWhole
  <2>. QED  BY <1>1, <1>2, <2>1, <2>2 DEF LiveOf, WrittenList, Listed
<1>3. CASE ~(file[i + 1].set = k /\ file[i + 1].live # {})
  <2>1. rows(i + 1) = rows(i)
    BY <1>3
  <2>. QED  BY <1>1, <1>3, <2>1 DEF LiveOf, WrittenList, Listed
<1>. QED  BY <1>2, <1>3

\* The same of the servers that are to be malicious.
LEMMA ByzNext ==
  ASSUME NEW file, NEW i \in Nat, NEW k
  PROVE  /\ ByzOf(file, 0, k) = {}
         /\ ByzOf(file, i + 1, k) =
              IF file[i + 1].set = k
              THEN Listed(ByzOf(file, i, k), file[i + 1].byz)
              ELSE ByzOf(file, i, k)
<1>. DEFINE rows(m) == {j \in 1 .. m : file[j].set = k /\ file[j].byz # {}}
<1>1. rows(0) = {}
  OBVIOUS
<1>2. CASE file[i + 1].set = k /\ file[i + 1].byz # {}
  <2>1. rows(i + 1) \in SUBSET (1 .. i + 1) /\ i + 1 \in rows(i + 1)
    BY <1>2
  <2>2. Max(rows(i + 1)) = i + 1
    <3>. HIDE DEF rows
    <3>. QED  BY <2>1, MaxOfWhole
  <2>. QED  BY <1>1, <1>2, <2>1, <2>2 DEF ByzOf, WrittenList, Listed
<1>3. CASE ~(file[i + 1].set = k /\ file[i + 1].byz # {})
  <2>1. rows(i + 1) = rows(i)
    BY <1>3
  <2>. QED  BY <1>1, <1>3, <2>1 DEF ByzOf, WrittenList, Listed
<1>. QED  BY <1>2, <1>3

-----------------------------------------------------------------------------
(* The reading is the one that is written.                                  *)

\* A transaction of a set comes after those of the rows before, and any other
\* row leaves the set as it is.
LEMMA SetGrows ==
  ASSUME NEW file, NEW i \in Nat, NEW id \in Nat, NEW k, NEW s \in Seq(Request),
         SetAsWritten(s, file, i, id, k), NEW e \in Request,
         e = [id |-> id + Cardinality(Transactions(file, i)), set |-> k,
              tx |-> file[i + 1].tx]
  PROVE  SetAsWritten(IF file[i + 1].tx # NoCell /\ SetOf(file, i + 1) = k
                      THEN Append(s, e) ELSE s, file, i + 1, id, k)
<1>1. /\ Len(s) = Cardinality(RowsOf(file, i, k))
      /\ \A j \in RowsOf(file, i, k) :
           /\ Cardinality(RowsOf(file, j, k)) \in 1 .. Len(s)
           /\ s[Cardinality(RowsOf(file, j, k))] =
                [id |-> id + Cardinality(Transactions(file, j - 1)), set |-> k,
                 tx |-> file[j].tx]
  BY PlaceOfRow DEF SetAsWritten
<1>2. CASE file[i + 1].tx # NoCell /\ SetOf(file, i + 1) = k
  <2>1. /\ Len(Append(s, e)) = Len(s) + 1 /\ Append(s, e)[Len(s) + 1] = e
        /\ \A m \in 1 .. Len(s) : Append(s, e)[m] = s[m]
    BY AppendProperties
  <2>2. Cardinality(RowsOf(file, i + 1, k)) = Len(s) + 1
    BY <1>1, <1>2, RowsFinite
  <2>3. RowsOf(file, i + 1, k) = RowsOf(file, i, k) \cup {i + 1}
    BY <1>2, RowsNext
  <2>4. (i + 1) - 1 = i
    OBVIOUS
  <2>5. ASSUME NEW j \in RowsOf(file, i + 1, k)
        PROVE  Append(s, e)[Cardinality(RowsOf(file, j, k))] =
                 [id |-> id + Cardinality(Transactions(file, j - 1)), set |-> k,
                  tx |-> file[j].tx]
    <3>1. CASE j = i + 1
      BY <2>1, <2>2, <2>4, <3>1
    <3>2. CASE j \in RowsOf(file, i, k)
      BY <1>1, <2>1, <3>2
    <3>. QED  BY <2>3, <3>1, <3>2
  <2>. QED  BY <1>2, <2>1, <2>2, <2>5 DEF SetAsWritten
<1>3. CASE ~(file[i + 1].tx # NoCell /\ SetOf(file, i + 1) = k)
  <2>1. RowsOf(file, i + 1, k) = RowsOf(file, i, k)
    BY <1>3, RowsNext
  <2>. QED  BY <1>1, <1>3, <2>1 DEF SetAsWritten
<1>. QED  BY <1>2, <1>3

\* r is what the first i rows say.
SoFar(r, file, i, id) ==
  /\ r.ok <=> \A j \in 1 .. i : ~file[j].bad
  /\ r.ok =>
       /\ r.current = SetOf(file, i)
       /\ r.nextId = id + Cardinality(Transactions(file, i))
       /\ \A k \in SetNums :
            /\ SetAsWritten(r.sets[k], file, i, id, k)
            /\ r.live[k] = LiveOf(file, i, k)
            /\ r.byz[k] = ByzOf(file, i, k)

\* Before the first row nothing is written.
LEMMA NothingAsWritten ==
  ASSUME NEW file, NEW id \in Nat
  PROVE  SoFar(NothingRead(id), file, 0, id)
<1>1. \A k \in SetNums : SetAsWritten(<<>>, file, 0, id, k)
  BY RowsNext, FS_EmptySet DEF SetAsWritten
<1>2. SetOf(file, 0) = 0 /\ Cardinality(Transactions(file, 0)) = 0
  BY SetOfNext, TransactionsNext
<1>3. \A k \in SetNums : LiveOf(file, 0, k) = {} /\ ByzOf(file, 0, k) = {}
  BY LiveNext, ByzNext
<1>. QED  BY <1>1, <1>2, <1>3 DEF SoFar, NothingRead

\* Reading one row more keeps up with what is written.
LEMMA RowAsWritten ==
  ASSUME NEW file \in Seq(Row), NEW id \in Nat, NEW i \in 0 .. Len(file) - 1,
         NEW r \in Reading, SoFar(r, file, i, id)
  PROVE  SoFar(ReadRow(r, file[i + 1]), file, i + 1, id)
<1>. DEFINE row == file[i + 1]
            h == WithHeader(r, row)
            t == WithTransaction(h, row)
<1>1. i \in Nat /\ row \in Row
  BY LenProperties, ElementOfSeq
<1>2. CASE ~r.ok \/ row.bad
  <2>1. ReadRow(r, row).ok = FALSE
    BY <1>2, ReadingFields DEF ReadRow
  <2>2. ~ \A j \in 1 .. i + 1 : ~file[j].bad
    BY <1>1, <1>2 DEF SoFar
  <2>. QED  BY <2>1, <2>2 DEF SoFar
<1>3. CASE r.ok /\ ~row.bad
  <2>1. h \in Reading /\ t \in Reading /\ ReadRow(r, row) = t /\ t.ok = r.ok
    BY <1>1, <1>3, WithHeaderType, WithTransactionType DEF ReadRow
  <2>2. \A j \in 1 .. i + 1 : ~file[j].bad
    <3>1. \A j \in 1 .. i + 1 : j \in 1 .. i \/ j = i + 1
      BY <1>1
    <3>. QED  BY <1>3, <3>1 DEF SoFar
  <2>3. h.current = SetOf(file, i + 1) /\ h.nextId = r.nextId /\ h.sets = r.sets
    <3>1. r.current = SetOf(file, i)
      BY <1>3 DEF SoFar
    <3>2. SetOf(file, i + 1) = IF row.set = NoCell THEN SetOf(file, i) ELSE row.set
      BY <1>1, SetOfNext
    <3>3. /\ h.sets = r.sets /\ h.nextId = r.nextId
          /\ h.current = IF row.set = NoCell THEN r.current ELSE row.set
      BY <1>1, WithHeaderType
    <3>. HIDE DEF row, h
    <3>. QED  BY <3>1, <3>2, <3>3
  <2>4. t.current = SetOf(file, i + 1)
    BY <1>1, <2>1, <2>3, WithTransactionType
  <2>5. t.nextId = id + Cardinality(Transactions(file, i + 1))
    <3>1. Cardinality(Transactions(file, i + 1)) =
            IF row.tx = NoCell THEN Cardinality(Transactions(file, i))
            ELSE Cardinality(Transactions(file, i)) + 1
      BY <1>1, TransactionsNext
    <3>2. /\ h.nextId = id + Cardinality(Transactions(file, i))
          /\ Cardinality(Transactions(file, i)) \in Nat
      BY <1>1, <1>3, <2>3, TransactionsNext DEF SoFar
    <3>3. t.nextId = IF row.tx = NoCell THEN h.nextId ELSE h.nextId + 1
      BY <1>1, <2>1, WithTransactionType
    <3>. QED  BY <3>1, <3>2, <3>3
  <2>6. ASSUME NEW k \in SetNums
        PROVE  SetAsWritten(t.sets[k], file, i + 1, id, k)
    <3>. DEFINE e == [id |-> id + Cardinality(Transactions(file, i)), set |-> k,
                      tx |-> row.tx]
    <3>1. r.sets[k] \in Seq(Request) /\ SetAsWritten(r.sets[k], file, i, id, k)
      BY <1>3, ReadingFields DEF SoFar
    <3>2. CASE row.tx # NoCell /\ SetOf(file, i + 1) = k
      <4>1. e \in Request /\ e = Given(h, row)
        <5>1. Given(h, row) \in Request
          BY <1>1, <2>1, <3>2, WithTransactionType
        <5>. QED  BY <1>3, <2>3, <3>2, <5>1 DEF SoFar, Given
      <4>2. t.sets[k] = Append(r.sets[k], e)
        <5>1. t.sets = [r.sets EXCEPT ![k] = Append(@, Given(h, row))]
          <6>. HIDE DEF h
          <6>1. t.sets = [h.sets EXCEPT ![h.current] = Append(@, Given(h, row))]
            BY <1>1, <2>1, <3>2, WithTransactionType
          <6>. HIDE DEF t
          <6>. QED  BY <2>3, <3>2, <6>1
        <5>2. k \in DOMAIN r.sets
          BY ReadingFields
        <5>. QED  BY <4>1, <5>1, <5>2
      <4>. HIDE DEF e, t
      <4>3. SetAsWritten(Append(r.sets[k], e), file, i + 1, id, k)
        <5>1. e = [id |-> id + Cardinality(Transactions(file, i)), set |-> k,
                   tx |-> file[i + 1].tx]
          BY DEF e
        <5>2. SetAsWritten(IF file[i + 1].tx # NoCell /\ SetOf(file, i + 1) = k
                           THEN Append(r.sets[k], e) ELSE r.sets[k],
                           file, i + 1, id, k)
          BY <1>1, <3>1, <4>1, <5>1, SetGrows
        <5>. QED  BY <3>2, <5>2
      <4>. QED  BY <4>2, <4>3
    <3>3. CASE ~(row.tx # NoCell /\ SetOf(file, i + 1) = k)
      <4>1. t.sets[k] = r.sets[k]
        <5>1. CASE row.tx = NoCell
          BY <1>1, <2>1, <2>3, <5>1, WithTransactionType
        <5>2. CASE row.tx # NoCell
          <6>1. t.sets = [r.sets EXCEPT ![h.current] = Append(@, Given(h, row))]
            <7>. HIDE DEF h
            <7>1. t.sets = [h.sets EXCEPT ![h.current] = Append(@, Given(h, row))]
              BY <1>1, <2>1, <5>2, WithTransactionType
            <7>. HIDE DEF t
            <7>. QED  BY <2>3, <7>1
          <6>2. h.current # k
            BY <2>3, <3>3, <5>2
          <6>. HIDE DEF t, h
          <6>. QED  BY <6>1, <6>2, ReadingFields
        <5>. QED  BY <5>1, <5>2
      <4>2. RowsOf(file, i + 1, k) = RowsOf(file, i, k)
        BY <1>1, <3>3, RowsNext
      <4>. QED  BY <3>1, <4>1, <4>2 DEF SetAsWritten
    <3>. QED  BY <3>2, <3>3
  <2>7. ASSUME NEW k \in SetNums
        PROVE  t.live[k] = LiveOf(file, i + 1, k) /\ t.byz[k] = ByzOf(file, i + 1, k)
    <3>1. t.live = h.live /\ t.byz = h.byz
      BY <1>1, <2>1, WithTransactionType
    <3>2. /\ r.live[k] = LiveOf(file, i, k) /\ r.byz[k] = ByzOf(file, i, k)
          /\ k \in DOMAIN r.live /\ k \in DOMAIN r.byz /\ k # NoCell
      BY <1>3, ReadingFields, NoCellAssumption DEF SoFar
    <3>3. /\ h.live = IF row.set = NoCell THEN r.live
                      ELSE [r.live EXCEPT ![row.set] = Listed(@, row.live)]
          /\ h.byz = IF row.set = NoCell THEN r.byz
                     ELSE [r.byz EXCEPT ![row.set] = Listed(@, row.byz)]
      BY <1>1, WithHeaderType
    <3>4. h.live[k] = IF row.set = k THEN Listed(r.live[k], row.live) ELSE r.live[k]
      <4>. HIDE DEF h
      <4>. QED  BY <3>2, <3>3
    <3>5. h.byz[k] = IF row.set = k THEN Listed(r.byz[k], row.byz) ELSE r.byz[k]
      <4>. HIDE DEF h
      <4>. QED  BY <3>2, <3>3
    <3>. HIDE DEF h, t
    <3>. QED  BY <1>1, <3>1, <3>2, <3>4, <3>5, LiveNext, ByzNext
  <2>. HIDE DEF t
  <2>. QED  BY <1>3, <2>1, <2>2, <2>4, <2>5, <2>6, <2>7 DEF SoFar
<1>. QED  BY <1>2, <1>3 DEF SoFar

\* Whatever the file, the sets and lists that ReadTransactions gives are those
\* written in it, and none if a cell of it cannot be read.
THEOREM FileAsWritten ==
  ASSUME NEW file \in Seq(Row), NEW id \in Nat
  PROVE  AsWritten(ReadTransactions(file, id), file, id)
<1>. DEFINE n == Len(file)
            last == FoldLeft(ReadRow, NothingRead(id), file)
<1>1. PICK r \in [0 .. n -> Reading] :
           /\ r[0] = NothingRead(id)
           /\ \A i \in 1 .. n : r[i] = ReadRow(r[i - 1], file[i])
           /\ r[n] = last
  BY RowByRow
<1>2. n \in Nat /\ DOMAIN file = 1 .. n
  BY LenProperties
<1>. DEFINE T == {i \in 0 .. n : SoFar(r[i], file, i, id)}
<1>3. 0 \in T
  BY <1>1, <1>2, NothingAsWritten
<1>4. ASSUME NEW i \in 0 .. n - 1, i \in T
      PROVE  i + 1 \in T
  <2>1. /\ i + 1 \in 1 .. n /\ i + 1 \in 0 .. n /\ i \in 0 .. n
        /\ (i + 1) - 1 = i
    BY <1>2
  <2>2. r[i + 1] = ReadRow(r[i], file[i + 1])
    BY <1>1, <2>1
  <2>3. r[i] \in Reading /\ SoFar(r[i], file, i, id)
    BY <1>4, <2>1
  <2>. QED  BY <2>1, <2>2, <2>3, RowAsWritten
<1>5. n \in T
  <2>1. \A i \in 0 .. n : i \in T
    <3>. HIDE DEF T, n
    <3>. QED  BY <1>2, <1>3, <1>4, IntervalInduction
  <2>. HIDE DEF T
  <2>. QED  BY <1>2, <2>1
<1>6. SoFar(last, file, n, id)
  BY <1>1, <1>5
<1>. HIDE DEF last
<1>7. CASE Readable(file)
  <2>1. last.ok
    BY <1>2, <1>6, <1>7 DEF SoFar, Readable
  <2>2. ReadTransactions(file, id) = last
    BY <2>1 DEF ReadTransactions, last
  <2>. QED  BY <1>6, <1>7, <2>1, <2>2 DEF AsWritten, SoFar, LiveOf, ByzOf
<1>8. CASE ~Readable(file)
  <2>1. ~last.ok
    BY <1>2, <1>6, <1>8 DEF SoFar, Readable
  <2>2. ReadTransactions(file, id) = [NothingRead(last.nextId) EXCEPT !.ok = FALSE]
    BY <2>1 DEF ReadTransactions, last
  <2>3. \A k \in SetNums : ReadTransactions(file, id).sets[k] = <<>>
    BY <2>2 DEF NothingRead
  <2>. QED  BY <1>8, <2>3 DEF AsWritten
<1>. QED  BY <1>7, <1>8

-----------------------------------------------------------------------------
(* Ids.                                                                     *)

\* The transactions of r have ids of their own, from id on and below nextId.
IdsApart(r, id) ==
  /\ id <= r.nextId
  /\ \A k \in SetNums : \A m \in DOMAIN r.sets[k] :
       id <= r.sets[k][m].id /\ r.sets[k][m].id < r.nextId
  /\ \A k, l \in SetNums : \A m \in DOMAIN r.sets[k], p \in DOMAIN r.sets[l] :
       r.sets[k][m].id = r.sets[l][p].id => k = l /\ m = p

\* A row gives the id after those given before, or none.
LEMMA RowIdsApart ==
  ASSUME NEW r \in Reading, NEW row \in Row, NEW id \in Nat, IdsApart(r, id)
  PROVE  IdsApart(ReadRow(r, row), id)
<1>. DEFINE h == WithHeader(r, row)
            t == WithTransaction(h, row)
<1>1. CASE ~r.ok \/ row.bad
  <2>1. /\ ReadRow(r, row).sets = r.sets
        /\ ReadRow(r, row).nextId = r.nextId
    BY <1>1, ReadingFields DEF ReadRow
  <2>. QED  BY <2>1 DEF IdsApart
<1>2. CASE r.ok /\ ~row.bad
  <2>1. /\ h \in Reading /\ ReadRow(r, row) = t
        /\ h.sets = r.sets /\ h.nextId = r.nextId
    BY <1>2, WithHeaderType DEF ReadRow
  <2>2. CASE row.tx = NoCell
    <3>1. t = h
      <4>. HIDE DEF h
      <4>. QED  BY <2>1, <2>2, WithTransactionType
    <3>. HIDE DEF h, t
    <3>. QED  BY <2>1, <3>1 DEF IdsApart
  <2>3. CASE row.tx # NoCell
    <3>. DEFINE c == h.current
                e == Given(h, row)
    <3>1. /\ t.nextId = h.nextId + 1
          /\ t.sets = [h.sets EXCEPT ![c] = Append(@, e)]
          /\ e \in Request
      <4>. HIDE DEF h
      <4>. QED  BY <2>1, <2>3, WithTransactionType
    <3>2. e.id = r.nextId /\ r.nextId \in Nat
      BY <2>1, ReadingFields DEF Given
    <3>3. c \in SetNums /\ r.sets \in [SetNums -> Seq(Request)]
      <4>. HIDE DEF h
      <4>. QED  BY <2>1, ReadingFields
    <3>. HIDE DEF h, t, c, e
    <3>4. \A k \in SetNums : t.sets[k] = IF k = c THEN Append(r.sets[c], e)
                                         ELSE r.sets[k]
      BY <2>1, <3>1, <3>3
    <3>5. /\ \A k \in SetNums : DOMAIN r.sets[k] = 1 .. Len(r.sets[k])
          /\ Len(r.sets[c]) \in Nat
          /\ DOMAIN Append(r.sets[c], e) = 1 .. Len(r.sets[c]) + 1
          /\ \A m \in 1 .. Len(r.sets[c]) : Append(r.sets[c], e)[m] = r.sets[c][m]
          /\ Append(r.sets[c], e)[Len(r.sets[c]) + 1] = e
      <4>1. \A k \in SetNums : r.sets[k] \in Seq(Request)
        BY <3>3
      <4>. QED  BY <3>1, <3>3, <4>1, AppendProperties, LenProperties
    <3>. DEFINE new == Len(r.sets[c]) + 1
    <3>6. ASSUME NEW k \in SetNums, NEW m \in DOMAIN t.sets[k]
          PROVE  \/ /\ m \in DOMAIN r.sets[k] /\ t.sets[k][m] = r.sets[k][m]
                    /\ id <= r.sets[k][m].id /\ r.sets[k][m].id < r.nextId
                 \/ k = c /\ m = new /\ t.sets[k][m] = e
      <4>1. CASE k = c /\ m = new
        BY <3>4, <3>5, <4>1
      <4>2. CASE ~(k = c /\ m = new)
        <5>1. m \in DOMAIN r.sets[k] /\ t.sets[k][m] = r.sets[k][m]
          <6>1. CASE k = c
            <7>1. m \in 1 .. Len(r.sets[c]) + 1 /\ m # new
              BY <3>4, <3>5, <4>2, <6>1
            <7>2. m \in 1 .. Len(r.sets[c])
              BY <3>5, <7>1
            <7>. QED  BY <3>4, <3>5, <6>1, <7>2
          <6>2. CASE k # c
            BY <3>4, <6>2
          <6>. QED  BY <6>1, <6>2
        <5>. QED  BY <5>1 DEF IdsApart
      <4>. QED  BY <4>1, <4>2
    <3>7. id <= r.nextId /\ t.nextId = r.nextId + 1
      BY <2>1, <3>1 DEF IdsApart
    <3>8. \A k \in SetNums : \A m \in DOMAIN r.sets[k] : r.sets[k][m].id \in Nat
      <4>1. \A k \in SetNums : \A m \in DOMAIN r.sets[k] : r.sets[k][m] \in Request
        BY <3>3, <3>5, ElementOfSeq
      <4>. QED  BY <4>1 DEF Request
    <3>9. ASSUME NEW k \in SetNums, NEW m \in DOMAIN t.sets[k]
          PROVE  id <= t.sets[k][m].id /\ t.sets[k][m].id < t.nextId
      BY <3>2, <3>6, <3>7, <3>8
    <3>10. ASSUME NEW k \in SetNums, NEW l \in SetNums,
                  NEW m \in DOMAIN t.sets[k], NEW p \in DOMAIN t.sets[l],
                  t.sets[k][m].id = t.sets[l][p].id
           PROVE  k = l /\ m = p
      <4>1. CASE k = c /\ m = new /\ t.sets[k][m] = e
        <5>1. ~(t.sets[l][p] = r.sets[l][p] /\ r.sets[l][p].id < r.nextId)
          BY <3>2, <3>10, <4>1
        <5>. QED  BY <3>6, <4>1, <5>1
      <4>2. CASE l = c /\ p = new /\ t.sets[l][p] = e
        <5>1. ~(t.sets[k][m] = r.sets[k][m] /\ r.sets[k][m].id < r.nextId)
          BY <3>2, <3>10, <4>2
        <5>. QED  BY <3>6, <4>2, <5>1
      <4>3. CASE /\ m \in DOMAIN r.sets[k] /\ t.sets[k][m] = r.sets[k][m]
                 /\ p \in DOMAIN r.sets[l] /\ t.sets[l][p] = r.sets[l][p]
        BY <3>10, <4>3 DEF IdsApart
      <4>. QED  BY <3>6, <4>1, <4>2, <4>3
    <3>. HIDE DEF new
    <3>11. IdsApart(t, id)
      BY <3>2, <3>7, <3>9, <3>10 DEF IdsApart
    <3>. QED  BY <2>1, <3>11
  <2>. QED  BY <2>2, <2>3
<1>. QED  BY <1>1, <1>2

\* Whatever the file, the transactions that ReadTransactions gives have ids of
\* their own, none below the first and all below the next.
THEOREM ReadingIdsApart ==
  ASSUME NEW file \in Seq(Row), NEW id \in Nat
  PROVE  IdsApart(ReadTransactions(file, id), id)
<1>. DEFINE n == Len(file)
            last == FoldLeft(ReadRow, NothingRead(id), file)
<1>1. PICK r \in [0 .. n -> Reading] :
           /\ r[0] = NothingRead(id)
           /\ \A i \in 1 .. n : r[i] = ReadRow(r[i - 1], file[i])
           /\ r[n] = last
  BY RowByRow
<1>2. n \in Nat
  BY LenProperties
<1>3. \A m \in Nat : id <= m => IdsApart(NothingRead(m), id)
  BY DEF IdsApart, NothingRead
<1>. DEFINE T == {i \in 0 .. n : IdsApart(r[i], id)}
<1>4. 0 \in T
  BY <1>1, <1>2, <1>3
<1>5. ASSUME NEW i \in 0 .. n - 1, i \in T
      PROVE  i + 1 \in T
  <2>1. /\ i + 1 \in 1 .. n /\ i + 1 \in 0 .. n /\ i \in 0 .. n
        /\ (i + 1) - 1 = i
    BY <1>2
  <2>2. r[i + 1] = ReadRow(r[i], file[i + 1]) /\ file[i + 1] \in Row
    BY <1>1, <2>1, ElementOfSeq
  <2>3. r[i] \in Reading /\ IdsApart(r[i], id)
    BY <1>5, <2>1
  <2>. QED  BY <2>1, <2>2, <2>3, RowIdsApart
<1>6. n \in T
  <2>1. \A i \in 0 .. n : i \in T
    <3>. HIDE DEF T, n
    <3>. QED  BY <1>2, <1>4, <1>5, IntervalInduction
  <2>. HIDE DEF T
  <2>. QED  BY <1>2, <2>1
<1>7. IdsApart(last, id) /\ last \in Reading
  BY <1>1, <1>2, <1>6
<1>. HIDE DEF last
<1>8. last.nextId \in Nat /\ id <= last.nextId
  BY <1>7, ReadingFields DEF IdsApart
<1>9. IdsApart([NothingRead(last.nextId) EXCEPT !.ok = FALSE], id)
  BY <1>8 DEF IdsApart, NothingRead
<1>. QED  BY <1>7, <1>9 DEF ReadTransactions, last
=============================================================================
