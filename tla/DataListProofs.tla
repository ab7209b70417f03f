--------------------------- MODULE DataListProofs ---------------------------
(***************************************************************************)
(* CDataList for any number of records a short cursor can walk, any set of *)
(* IDs and any allocation step.                                            *)
(***************************************************************************)
EXTENDS DataList, WellFoundedInduction, TLAPS

(***************************************************************************)
(* The sorted arrays of CDataList, for arrays of any length over any set   *)
(* of IDs: the shifting loops of Insert and Remove keep the order and      *)
(* change the set of IDs by exactly the one inserted or removed, and the   *)
(* position Locate has to find exists and is unique.                       *)
(***************************************************************************)
\* The cells of a list are IDs (in the set K), hence comparable numbers.
LEMMA Cells ==
  ASSUME NEW K, K \subseteq Int, NEW n \in Nat, NEW a \in [Indices(n) -> K]
  PROVE  \A i \in Indices(n) : /\ i \in Int /\ 0 <= i /\ i < n
                               /\ a[i] \in K /\ a[i] \in Int
<1>1. ASSUME NEW i \in Indices(n) PROVE i \in Int /\ 0 <= i /\ i < n
  BY DEF Indices
<1>2. ASSUME NEW i \in Indices(n) PROVE a[i] \in K
  OBVIOUS
<1>3. QED
  BY <1>1, <1>2

\* The loop of CDataList::Insert, run at the position Locate returned for an
\* ID that is not in the list, leaves the list in strict alphabetical order.
LEMMA ShiftUpSorted ==
  ASSUME NEW K, K \subseteq Int, NEW n \in Nat, NEW a \in [Indices(n) -> K],
         NEW id \in K, NEW pos \in 0 .. n,
         Sorted(a, n), IsPosition(a, n, id, pos), id \notin Ids(a, n)
  PROVE  /\ ShiftUp(a, n, pos, id) \in [Indices(n + 1) -> K]
         /\ Sorted(ShiftUp(a, n, pos, id), n + 1)
<1> DEFINE b == ShiftUp(a, n, pos, id)
<1>1. \A i \in Indices(n) : a[i] \in K /\ a[i] \in Int /\ a[i] # id
  BY Cells DEF Ids
<1>2. b \in [Indices(n + 1) -> K]
  BY <1>1 DEF ShiftUp, Indices
<1>3. ASSUME NEW i \in Indices(n + 1), NEW j \in Indices(n + 1), i < j
      PROVE  b[i] < b[j]
  <2>1. CASE j < pos
    BY <2>1, <1>3, <1>1 DEF ShiftUp, Indices, Sorted
  <2>2. CASE j = pos
    BY <2>2, <1>3, <1>1 DEF ShiftUp, Indices, IsPosition
  <2>3. CASE j > pos
    <3>1. b[j] = a[j - 1] /\ j - 1 \in Indices(n) /\ pos <= j - 1
      BY <2>3 DEF ShiftUp, Indices
    <3>2. CASE i < pos
      BY <3>1, <3>2, <1>1 DEF ShiftUp, Indices, Sorted
    <3>3. CASE i = pos
      BY <3>1, <3>3, <1>1 DEF ShiftUp, Indices, IsPosition
    <3>4. CASE i > pos
      BY <3>1, <3>4, <1>3, <1>1 DEF ShiftUp, Indices, Sorted
    <3>5. QED
      BY <3>2, <3>3, <3>4 DEF Indices
  <2>4. QED
    BY <2>1, <2>2, <2>3 DEF Indices
<1>4. QED
  BY <1>2, <1>3 DEF Sorted

\* The same loop adds the inserted ID and loses none.
LEMMA ShiftUpIds ==
  ASSUME NEW K, K \subseteq Int, NEW n \in Nat, NEW a \in [Indices(n) -> K],
         NEW id \in K, NEW pos \in 0 .. n
  PROVE  Ids(ShiftUp(a, n, pos, id), n + 1) = Ids(a, n) \cup {id}
<1> DEFINE b == ShiftUp(a, n, pos, id)
<1>1. ASSUME NEW i \in Indices(n + 1)
      PROVE  b[i] \in Ids(a, n) \cup {id}
  BY <1>1 DEF ShiftUp, Indices, Ids
<1>2. ASSUME NEW i \in Indices(n)
      PROVE  a[i] \in Ids(b, n + 1)
  <2>1. CASE i < pos
    BY <2>1 DEF ShiftUp, Indices, Ids
  <2>2. CASE i >= pos
    <3>1. i + 1 \in Indices(n + 1) /\ b[i + 1] = a[i]
      BY <2>2 DEF ShiftUp, Indices
    <3>2. QED
      BY <3>1 DEF Ids
  <2>3. QED
    BY <2>1, <2>2 DEF Indices
<1>3. id \in Ids(b, n + 1)
  <2>1. pos \in Indices(n + 1) /\ b[pos] = id
    BY DEF ShiftUp, Indices
  <2>2. QED
    BY <2>1 DEF Ids
<1>4. QED
  BY <1>1, <1>2, <1>3 DEF Ids

\* The loop of CDataList::Remove keeps the list in alphabetical order.
LEMMA ShiftDownSorted ==
  ASSUME NEW K, K \subseteq Int, NEW n \in Nat, NEW a \in [Indices(n) -> K],
         NEW pos \in Indices(n), Sorted(a, n)
  PROVE  /\ ShiftDown(a, n, pos) \in [Indices(n - 1) -> K]
         /\ Sorted(ShiftDown(a, n, pos), n - 1)
<1> DEFINE b == ShiftDown(a, n, pos)
<1>1. \A i \in Indices(n) : a[i] \in K /\ a[i] \in Int
  BY Cells
<1>2. b \in [Indices(n - 1) -> K]
  BY <1>1 DEF ShiftDown, Indices
<1>3. ASSUME NEW i \in Indices(n - 1), NEW j \in Indices(n - 1), i < j
      PROVE  b[i] < b[j]
  BY <1>1, <1>3 DEF ShiftDown, Indices, Sorted
<1>4. QED
  BY <1>2, <1>3 DEF Sorted

\* It removes the ID at the given index and no other one.
LEMMA ShiftDownIds ==
  ASSUME NEW K, K \subseteq Int, NEW n \in Nat, NEW a \in [Indices(n) -> K],
         NEW pos \in Indices(n), Sorted(a, n)
  PROVE  Ids(ShiftDown(a, n, pos), n - 1) = Ids(a, n) \ {a[pos]}
<1> DEFINE b == ShiftDown(a, n, pos)
<1>1. ASSUME NEW i \in Indices(n)
      PROVE  a[i] \in Int /\ (i # pos => a[i] # a[pos])
  <2>1. a[i] \in Int /\ a[pos] \in Int /\ i \in Int /\ pos \in Int
    BY Cells
  <2>2. (i < pos => a[i] < a[pos]) /\ (pos < i => a[pos] < a[i])
    BY DEF Sorted
  <2>3. QED
    BY <2>1, <2>2
<1>2. ASSUME NEW i \in Indices(n - 1)
      PROVE  b[i] \in Ids(a, n) \ {a[pos]}
  <2>1. CASE i < pos
    BY <2>1, <1>1 DEF ShiftDown, Indices, Ids
  <2>2. CASE i >= pos
    <3>1. i + 1 \in Indices(n) /\ b[i] = a[i + 1] /\ i + 1 # pos
      BY <2>2 DEF ShiftDown, Indices
    <3>2. QED
      BY <3>1, <1>1 DEF Ids
  <2>3. QED
    BY <2>1, <2>2 DEF Indices
<1>3. ASSUME NEW i \in Indices(n), i # pos
      PROVE  a[i] \in Ids(b, n - 1)
  <2>1. CASE i < pos
    <3>1. i \in Indices(n - 1) /\ b[i] = a[i]
      BY <2>1 DEF ShiftDown, Indices
    <3>2. QED
      BY <3>1 DEF Ids
  <2>2. CASE i > pos
    <3>1. i - 1 \in Indices(n - 1) /\ b[i - 1] = a[i]
      BY <2>2 DEF ShiftDown, Indices
    <3>2. QED
      BY <3>1 DEF Ids
  <2>3. QED
    BY <1>3, <2>1, <2>2 DEF Indices
<1>4. QED
  BY <1>2, <1>3 DEF Ids

\* In a list in alphabetical order every ID has a position, so the search of
\* CDataList::Locate has an answer to find.
LEMMA PositionExists ==
  ASSUME NEW K, K \subseteq Int, NEW n \in Nat, NEW a \in [Indices(n) -> K],
         NEW id \in K, Sorted(a, n)
  PROVE  \E pos \in 0 .. n : IsPosition(a, n, id, pos)
<1> DEFINE Bounds == {p \in 0 .. n : \A i \in Indices(n) : p <= i => id <= a[i]}
<1>1. n \in Bounds /\ Bounds \subseteq Nat
  BY DEF Indices
<1>2. PICK p \in Bounds : \A q \in Bounds : ~(<<q, p>> \in OpToRel(<, Nat))
  BY <1>1, WFMin, NatLessThanWellFounded, Zenon
<1>3. p \in 0 .. n /\ \A q \in Bounds : ~(q < p)
  BY <1>1, <1>2 DEF OpToRel
<1>4. ASSUME NEW i \in Indices(n), i < p
      PROVE  a[i] < id
  <2>1. i \in 0 .. n /\ i \notin Bounds
    BY <1>3, <1>4 DEF Indices
  <2>2. PICK j \in Indices(n) : i <= j /\ ~(id <= a[j])
    BY <2>1
  <2>3. a[i] \in Int /\ a[j] \in Int /\ id \in Int /\ i \in Int /\ j \in Int
    BY <2>2, Cells
  <2>4. a[i] <= a[j]
    BY <2>2, <2>3 DEF Sorted
  <2>5. QED
    BY <2>2, <2>3, <2>4
<1>5. QED
  BY <1>3, <1>4 DEF IsPosition

\* ... and only one.
LEMMA PositionUnique ==
  ASSUME NEW K, K \subseteq Int, NEW n \in Nat, NEW a \in [Indices(n) -> K],
         NEW id \in K, NEW p, NEW q,
         IsPosition(a, n, id, p), IsPosition(a, n, id, q)
  PROVE  p = q
<1>1. p \in 0 .. n /\ q \in 0 .. n /\ \A i \in Indices(n) : a[i] \in Int
  BY Cells DEF IsPosition
<1>2. ~(p < q) /\ ~(q < p)
  BY <1>1 DEF IsPosition, Indices
<1>3. QED
  BY <1>1, <1>2

\* An ID of the list stands at its position.
LEMMA PositionOfMember ==
  ASSUME NEW K, K \subseteq Int, NEW n \in Nat, NEW a \in [Indices(n) -> K],
         NEW id \in K, NEW p, Sorted(a, n), IsPosition(a, n, id, p),
         id \in Ids(a, n)
  PROVE  p \in Indices(n) /\ a[p] = id
<1>1. PICK i \in Indices(n) : a[i] = id
  BY DEF Ids
<1>2. p \in 0 .. n /\ ~(i < p)
  BY <1>1 DEF IsPosition, Indices
<1>3. p \in Indices(n) /\ p <= i
  BY <1>1, <1>2, Cells DEF Indices
<1>4. a[p] \in Int /\ a[i] \in Int /\ p \in Int /\ i \in Int
  BY <1>3, Cells
<1>5. p <= p /\ id <= a[p]
  BY <1>3, <1>4 DEF IsPosition
<1>6. ~(p < i)
  BY <1>1, <1>3, <1>4, <1>5 DEF Sorted
<1>7. QED
  BY <1>1, <1>3, <1>4, <1>6
-----------------------------------------------------------------------------

\* Conversions that change nothing: the number fits.
LEMMA UShortFits ==
  ASSUME NEW x \in Nat, x <= 2 * ShortMax + 1
  PROVE  UShort(x) = x
<1>1. ShortMax \in Nat
  BY DataListAssumption
<1> DEFINE m == 2 * (ShortMax + 1)
<1>2. m \in Nat /\ 0 < m /\ x < m
  BY <1>1
<1> HIDE DEF m
<1>3. x % m = x
  BY <1>2
<1>4. QED
  BY <1>3 DEF UShort, m

LEMMA ShortFits ==
  ASSUME NEW x \in -(ShortMax + 1) .. ShortMax
  PROVE  Short(x) = x
<1>1. ShortMax \in Nat
  BY DataListAssumption
<1>2. x + ShortMax + 1 \in Nat /\ x + ShortMax + 1 <= 2 * ShortMax + 1
  BY <1>1
<1>3. UShort(x + ShortMax + 1) = x + ShortMax + 1
  BY <1>2, UShortFits
<1>4. QED
  BY <1>1, <1>3 DEF Short, UShort

\* A conversion to short always yields a short.
LEMMA ShortRange ==
  ASSUME NEW x \in Int
  PROVE  Short(x) \in -(ShortMax + 1) .. ShortMax
<1>1. ShortMax \in Nat
  BY DataListAssumption
<1> DEFINE m == 2 * (ShortMax + 1)
           y == x + ShortMax + 1
<1>2. m \in Nat /\ 0 < m /\ y \in Int
  BY <1>1
<1> HIDE DEF m, y
<1>3. y % m \in 0 .. m - 1
  BY <1>2
<1>4. QED
  BY <1>1, <1>3 DEF Short, m, y
-----------------------------------------------------------------------------
StorageInv ==
    /\ amount \in 0 .. MaxAmount
    /\ array \in [Indices(amount) -> ID]
    /\ arraySize \in 0 .. 2 * ShortMax + 1
    /\ slots \in Nat
    /\ InOrder /\ Capacity /\ Slack

LoopInv ==
    /\ cursor \in -(ShortMax + 1) .. ShortMax
    /\ current \in ID \cup {NoID}
    /\ pending \subseteq Elements
    /\ CursorTracks /\ NothingSkipped

\* The inductive invariant: the storage, and where the loop stands in it.
IInv == StorageInv /\ LoopInv /\ tracked \in BOOLEAN

\* What the storage invariant says of the sizes and the cells.
LEMMA StorageFacts ==
  ASSUME StorageInv
  PROVE  /\ ShortMax \in Nat /\ MaxAmount \in Nat /\ ArrayStep \in Nat
         /\ 1 <= ArrayStep /\ ArrayStep <= ShortMax
         /\ ID \subseteq Int /\ NoID \notin ID
         /\ amount \in Nat /\ amount <= MaxAmount
         /\ arraySize \in Nat /\ arraySize <= 2 * ShortMax + 1
         /\ slots \in Nat
         /\ amount <= arraySize /\ arraySize <= slots /\ slots <= arraySize + 1
         /\ arraySize - amount <= ArrayStep + 1
         /\ \A i \in Indices(amount) : /\ i \in Int /\ 0 <= i /\ i < amount
                                       /\ array[i] \in ID /\ array[i] \in Int
<1>1. ID \subseteq Int /\ amount \in Nat /\ array \in [Indices(amount) -> ID]
  BY DataListAssumption DEF StorageInv
<1>2. \A i \in Indices(amount) : /\ i \in Int /\ 0 <= i /\ i < amount
                                 /\ array[i] \in ID /\ array[i] \in Int
  BY <1>1, Cells
<1>3. QED
  BY <1>2, DataListAssumption DEF StorageInv, Capacity, Slack

\* Enlarge makes room for one record more, and never for much more than that.
LEMMA EnlargeFits ==
  ASSUME MaxAmount <= ShortMax, StorageInv, Enlarge
  PROVE  /\ arraySize' \in 0 .. 2 * ShortMax + 1
         /\ slots' \in Nat
         /\ amount + 1 <= arraySize'
         /\ slots' \in arraySize' .. arraySize' + 1
         /\ arraySize' - amount <= ArrayStep + 1
<1>1. CASE amount >= arraySize
  <2>1. arraySize' = UShort(arraySize + ArrayStep) /\ slots' = arraySize' + 1
    BY <1>1 DEF Enlarge
  <2>2. arraySize = amount /\ arraySize + ArrayStep \in Nat
        /\ arraySize + ArrayStep <= 2 * ShortMax + 1
    BY <1>1, StorageFacts
  <2>3. arraySize' = arraySize + ArrayStep
    BY <2>1, <2>2, UShortFits
  <2>4. QED
    BY <2>1, <2>2, <2>3, StorageFacts
<1>2. CASE ~(amount >= arraySize)
  BY <1>2, StorageFacts DEF Enlarge
<1>3. QED
  BY <1>1, <1>2

\* Reduce keeps every record and leaves at most one step unused.
LEMMA ReduceFits ==
  ASSUME StorageInv, Reduce
  PROVE  /\ arraySize' \in 0 .. 2 * ShortMax + 1
         /\ slots' \in Nat
         /\ amount <= arraySize'
         /\ slots' \in arraySize' .. arraySize' + 1
         /\ arraySize' - amount <= ArrayStep
BY StorageFacts DEF Reduce

\* Both ways out of ListRemove keep the storage sound, and remove the ID.
LEMMA ListRemoveStep ==
  ASSUME StorageInv, NEW id \in ID, ListRemove(id)
  PROVE  StorageInv' /\ Elements' = Elements \ {id}
<1>1. CASE id \in Elements
  <2>1. PICK pos \in 0 .. amount :
          /\ IsPosition(array, amount, id, pos)
          /\ array' = ShiftDown(array, amount, pos)
          /\ amount' = amount - 1
    BY <1>1 DEF ListRemove
  <2>2. array \in [Indices(amount) -> ID] /\ Sorted(array, amount)
    BY DEF StorageInv, InOrder
  <2>3. pos \in Indices(amount) /\ array[pos] = id
    BY <1>1, <2>1, <2>2, StorageFacts, PositionOfMember DEF Elements
  <2>4. amount' \in Nat /\ amount' <= amount
    BY <2>1, <2>3, StorageFacts
  <2>5. array' \in [Indices(amount') -> ID] /\ Sorted(array', amount')
    BY <2>1, <2>2, <2>3, StorageFacts, ShiftDownSorted
  <2>6. Elements' = Elements \ {id}
    <3>1. Ids(ShiftDown(array, amount, pos), amount - 1)
            = Ids(array, amount) \ {array[pos]}
      BY <2>2, <2>3, StorageFacts, ShiftDownIds
    <3>2. QED
      BY <2>1, <2>3, <3>1 DEF Elements
  <2>7. Capacity' /\ Slack'
    BY <2>1, <2>4, ReduceFits, StorageFacts DEF ListRemove, Capacity, Slack
  <2>8. QED
    BY <2>4, <2>5, <2>6, <2>7, ReduceFits, StorageFacts
      DEF StorageInv, InOrder, ListRemove
<1>2. CASE id \notin Elements
  <2>1. UNCHANGED <<array, amount>>
    BY <1>2 DEF ListRemove
  <2>2. Capacity' /\ Slack'
    BY <2>1, ReduceFits, StorageFacts DEF ListRemove, Capacity, Slack
  <2>3. QED
    BY <1>2, <2>1, <2>2, ReduceFits DEF StorageInv, InOrder, ListRemove, Elements
<1>3. QED
  BY <1>1, <1>2

\* A loop at position c that hands out the record after it: the step shared by
\* GetNext and GetNext( CData * ).
LEMMA Advance ==
  ASSUME MaxAmount <= ShortMax, IInv, InLoop, NEW c \in -1 .. amount - 1,
         \A i \in Indices(amount) : i <= c <=> array[i] <= current,
         HandOut(Short(c + 1)), pending' = pending \ {current'}
  PROVE  LoopInv' /\ StorageInv' /\ tracked' \in BOOLEAN
<1>1. /\ c \in Int /\ c + 1 \in 0 .. amount /\ amount <= ShortMax
      /\ current \in ID /\ current \in Int
  BY StorageFacts DEF IInv, LoopInv, InLoop
<1>2. Short(c + 1) = c + 1
  BY <1>1, StorageFacts, ShortFits DEF IInv
<1>3. cursor' = c + 1 /\ UNCHANGED storage
  BY <1>2 DEF HandOut
<1>4. StorageInv'
  BY <1>3 DEF storage, IInv, StorageInv, InOrder, Capacity, Slack
<1>5. Elements' = Elements
  BY <1>3 DEF storage, Elements
<1>6. cursor' \in -(ShortMax + 1) .. ShortMax
  BY <1>1, <1>3, StorageFacts DEF IInv
<1>7. \A x \in pending : x \in Elements /\ current < x
  BY DEF IInv, LoopInv, NothingSkipped
<1>8. CASE c + 1 >= amount
  <2>1. current' = NoID /\ tracked' = FALSE
    BY <1>1, <1>2, <1>8, StorageFacts DEF HandOut, IInv, Indices
  <2>2. \A i \in Indices(amount) : ~(current < array[i])
    BY <1>1, <1>8, StorageFacts DEF IInv
  <2>3. pending = {}
    BY <1>7, <2>2 DEF Elements, Ids
  <2>4. NothingSkipped' /\ CursorTracks'
    BY <2>1, <2>3 DEF NothingSkipped, CursorTracks, InLoop
  <2>5. QED
    BY <1>4, <1>5, <1>6, <2>1, <2>3, <2>4 DEF LoopInv
<1>9. CASE c + 1 < amount
  <2>1. c + 1 \in Indices(amount)
    BY <1>1, <1>9, StorageFacts DEF Indices, IInv
  <2>2. current' = array[c + 1] /\ tracked' = TRUE
    BY <1>1, <1>2, <1>9, <2>1, StorageFacts DEF HandOut, IInv
  <2>3. current' \in ID /\ InLoop'
    BY <2>1, <2>2, StorageFacts DEF IInv, InLoop
  <2>4. \A i \in Indices(amount) : i <= c + 1 <=> array[i] <= array[c + 1]
    BY <1>1, <2>1, StorageFacts DEF IInv, StorageInv, InOrder, Sorted
  <2>5. CursorTracks'
    BY <1>1, <1>3, <1>9, <2>2, <2>3, <2>4, StorageFacts
      DEF CursorTracks, storage, IInv
  <2>6. ASSUME NEW x \in pending' PROVE current' < x
    <3>1. PICK i \in Indices(amount) : x = array[i]
      BY <1>7, <2>6 DEF Elements, Ids
    <3>2. current < array[i] /\ array[i] # array[c + 1]
      BY <1>7, <2>2, <2>6, <3>1
    <3>3. ~(i <= c)
      BY <1>1, <3>1, <3>2, StorageFacts DEF IInv
    <3>4. c + 1 < i
      BY <1>1, <3>1, <3>2, <3>3, StorageFacts DEF IInv
    <3>5. QED
      BY <2>1, <2>2, <3>1, <3>4 DEF IInv, StorageInv, InOrder, Sorted
  <2>7. NothingSkipped'
    BY <2>3, <2>6 DEF NothingSkipped
  <2>8. QED
    BY <1>4, <1>5, <1>6, <1>7, <2>2, <2>3, <2>5, <2>7 DEF LoopInv
<1>10. QED
  BY <1>1, <1>8, <1>9, StorageFacts DEF IInv
-----------------------------------------------------------------------------
LEMMA InitIInv == Init => IInv
<1> SUFFICES ASSUME Init PROVE IInv
  OBVIOUS
<1>1. ShortMax \in Nat /\ MaxAmount \in Nat /\ ArrayStep \in Nat
  BY DataListAssumption
<1>2. Indices(0) = {}
  BY DEF Indices
<1>3. array \in [Indices(0) -> ID] /\ Elements = {}
  BY <1>2 DEF Init, Elements, Ids
<1>4. StorageInv
  BY <1>1, <1>2, <1>3 DEF Init, StorageInv, InOrder, Sorted, Capacity, Slack
<1>5. CursorTracks /\ NothingSkipped /\ tracked \in BOOLEAN
  BY Zenon DEF Init, CursorTracks, NothingSkipped, InLoop
<1>6. LoopInv
  BY <1>1, <1>5 DEF Init, LoopInv
<1>7. QED
  BY <1>4, <1>5, <1>6 DEF IInv

LEMMA InsertStep ==
  ASSUME MaxAmount <= ShortMax, IInv, NEW id \in ID, Insert(id)
  PROVE  IInv' /\ Elements' = Elements \cup {id}
<1>1. StorageInv
  BY DEF IInv
<1>2. PICK pos \in 0 .. amount :
        /\ IsPosition(array, amount, id, pos)
        /\ array' = ShiftUp(array, amount, pos, id)
  BY DEF Insert
<1>3. /\ array \in [Indices(amount) -> ID] /\ Sorted(array, amount)
      /\ amount' = amount + 1 /\ id \notin Ids(array, amount)
  BY <1>1 DEF StorageInv, InOrder, Insert, Elements
<1>4. array' \in [Indices(amount') -> ID] /\ Sorted(array', amount')
  BY <1>1, <1>2, <1>3, StorageFacts, ShiftUpSorted
<1>5. Elements' = Elements \cup {id}
  <2>1. Ids(ShiftUp(array, amount, pos, id), amount + 1)
          = Ids(array, amount) \cup {id}
    BY <1>1, <1>2, <1>3, StorageFacts, ShiftUpIds
  <2>2. QED
    BY <1>2, <1>3, <2>1 DEF Elements
<1>6. amount' \in 0 .. MaxAmount
  BY <1>1, <1>3, StorageFacts DEF Insert
<1>7. Capacity' /\ Slack'
  BY <1>1, <1>3, EnlargeFits, StorageFacts DEF Insert, Capacity, Slack
<1>8. StorageInv'
  BY <1>1, <1>4, <1>6, <1>7, EnlargeFits DEF StorageInv, InOrder, Insert
<1>9. LoopInv' /\ tracked' \in BOOLEAN
  <2>1. tracked' = FALSE /\ UNCHANGED <<cursor, current, pending>>
    BY DEF Insert, Disturb
  <2>2. CursorTracks'
    BY <2>1, Zenon DEF CursorTracks
  <2>3. QED
    BY <1>5, <2>1, <2>2 DEF IInv, LoopInv, NothingSkipped, InLoop
<1>10. QED
  BY <1>5, <1>8, <1>9 DEF IInv

LEMMA InsertExistingStep ==
  ASSUME MaxAmount <= ShortMax, IInv, NEW id \in ID, InsertExisting(id)
  PROVE  IInv' /\ Elements' = Elements
<1>1. StorageInv /\ UNCHANGED <<array, amount, cursor, current, tracked, pending>>
  BY DEF IInv, InsertExisting, loop
<1>2. Capacity' /\ Slack'
  BY <1>1, EnlargeFits, StorageFacts DEF InsertExisting, Capacity, Slack
<1>3. StorageInv' /\ Elements' = Elements
  BY <1>1, <1>2, EnlargeFits DEF StorageInv, InOrder, InsertExisting, Elements
<1>4. QED
  BY <1>1, <1>3 DEF IInv, LoopInv, CursorTracks, NothingSkipped, InLoop

\* A removal that is not expected by the loop: the loop owes one record less.
LEMMA DisturbedRemoval ==
  ASSUME IInv, NEW id \in ID, ListRemove(id), Disturb,
         cursor' \in -(ShortMax + 1) .. ShortMax
  PROVE  LoopInv' /\ tracked' \in BOOLEAN
<1>1. StorageInv' /\ Elements' = Elements \ {id}
  BY ListRemoveStep DEF IInv
<1>2. tracked' = FALSE /\ current' = current /\ pending' = pending \ {id}
  BY DEF Disturb, ListRemove
<1>3. CursorTracks'
  BY <1>2, Zenon DEF CursorTracks
<1>4. NothingSkipped'
  BY <1>2 DEF IInv, LoopInv, NothingSkipped, InLoop
<1>5. QED
  BY <1>1, <1>2, <1>3, <1>4 DEF IInv, LoopInv

LEMMA SetPosRange ==
  ASSUME IInv, NEW pos \in Int, SetPos(pos)
  PROVE  cursor' \in -(ShortMax + 1) .. ShortMax
BY ShortRange DEF SetPos, IInv, LoopInv

LEMMA RemoveStep ==
  ASSUME IInv, NEW id \in ID, Remove(id)
  PROVE  IInv'
<1>1. ListRemove(id) /\ Disturb /\ cursor' = cursor
  BY DEF Remove
<1>2. StorageInv'
  BY <1>1, ListRemoveStep DEF IInv
<1>3. LoopInv' /\ tracked' \in BOOLEAN
  BY <1>1, DisturbedRemoval DEF IInv, LoopInv
<1>4. QED
  BY <1>2, <1>3 DEF IInv

\* A loop may remove the record it is at: the cursor goes back one step with
\* the records behind it.
LEMMA TableRemoveStep ==
  ASSUME MaxAmount <= ShortMax, IInv, NEW id \in ID, TableRemove(id)
  PROVE  IInv'
<1>1. StorageInv /\ StorageInv' /\ Elements' = Elements \ {id}
  BY ListRemoveStep DEF IInv, TableRemove
<1>2. cursor \in Int /\ cursor' \in -(ShortMax + 1) .. ShortMax
  BY <1>1, StorageFacts, SetPosRange DEF IInv, LoopInv, TableRemove
<1>3. CASE id # current /\ Disturb
  <2>1. LoopInv' /\ tracked' \in BOOLEAN
    BY <1>2, <1>3, DisturbedRemoval DEF TableRemove
  <2>2. QED
    BY <1>1, <2>1 DEF IInv
<1>4. CASE id = current /\ id \in Elements /\ tracked /\ UNCHANGED <<current, tracked>>
  <2>1. PICK pos \in 0 .. amount :
          /\ IsPosition(array, amount, id, pos)
          /\ array' = ShiftDown(array, amount, pos)
          /\ amount' = amount - 1
    BY <1>4 DEF TableRemove, ListRemove
  <2>2. array \in [Indices(amount) -> ID] /\ Sorted(array, amount)
    BY <1>1 DEF StorageInv, InOrder
  <2>3. pos \in Indices(amount) /\ array[pos] = id
    BY <1>1, <1>4, <2>1, <2>2, StorageFacts, PositionOfMember DEF Elements
  <2>4. /\ InLoop /\ cursor \in -1 .. amount - 1
        /\ \A i \in Indices(amount) : i <= cursor <=> array[i] <= current
    BY <1>4 DEF IInv, LoopInv, CursorTracks
  <2>5. pos <= cursor
    BY <1>1, <1>4, <2>3, <2>4, StorageFacts
  <2>6. cursor \in Indices(amount) /\ array[cursor] <= array[pos]
    BY <1>1, <1>4, <2>3, <2>4, <2>5, StorageFacts DEF Indices
  <2>7. pos = cursor
    BY <1>1, <2>2, <2>3, <2>5, <2>6, StorageFacts DEF Sorted
  <2>8. cursor' = cursor - 1
    <3>1. cursor - 1 < amount' /\ cursor - 1 \in -(ShortMax + 1) .. ShortMax
      BY <1>1, <2>1, <2>4, <2>6, StorageFacts DEF Indices, IInv, LoopInv
    <3>2. QED
      BY <3>1, ShortFits DEF TableRemove, SetPos
  <2>9. ASSUME NEW i \in Indices(amount')
        PROVE  i <= cursor - 1 <=> array'[i] <= current
    <3>1. i \in Int /\ 0 <= i /\ i < amount - 1 /\ array'[i] \in Int
      BY <1>1, <2>1, StorageFacts, <2>9 DEF Indices, StorageInv
    <3>2. CASE i < cursor
      <4>1. i \in Indices(amount) /\ array'[i] = array[i]
        BY <1>1, <2>1, <2>7, <2>9, <3>1, <3>2, StorageFacts DEF ShiftDown, Indices
      <4>2. QED
        BY <2>4, <3>1, <3>2, <4>1
    <3>3. CASE ~(i < cursor)
      <4>1. i + 1 \in Indices(amount) /\ array'[i] = array[i + 1]
        BY <1>1, <2>1, <2>7, <2>9, <3>1, <3>3, StorageFacts DEF ShiftDown, Indices
      <4>2. ~(i + 1 <= cursor)
        BY <2>4, <3>1, <3>3
      <4>3. QED
        BY <2>4, <3>1, <3>3, <4>1, <4>2
    <3>4. QED
      BY <3>2, <3>3
  <2>10. CursorTracks'
    BY <1>1, <1>4, <2>1, <2>4, <2>6, <2>8, <2>9, StorageFacts
      DEF CursorTracks, InLoop, Indices
  <2>11. NothingSkipped' /\ pending' \subseteq Elements'
    BY <1>1, <1>4, <2>4 DEF IInv, LoopInv, NothingSkipped, InLoop, TableRemove, ListRemove
  <2>12. tracked' \in BOOLEAN
    BY <1>4, Zenon DEF IInv
  <2>13. QED
    BY <1>1, <1>2, <1>4, <2>10, <2>11, <2>12 DEF IInv, LoopInv
<1>5. QED
  BY <1>3, <1>4 DEF TableRemove

\* What HandOut( 0 ) starts in GetFirst: everything but the first record is owed.
LEMMA GetFirstStep ==
  ASSUME IInv, GetFirst
  PROVE  IInv'
<1>1. StorageInv
  BY DEF IInv
<1>2. UNCHANGED storage
  BY DEF GetFirst, HandOut
<1>3. StorageInv' /\ Elements' = Elements
  BY <1>1, <1>2 DEF storage, StorageInv, InOrder, Capacity, Slack, Elements
<1>4. CASE amount > 0 /\ HandOut(0)
  <2>1. 0 \in Indices(amount)
    BY <1>1, <1>4, StorageFacts DEF Indices
  <2>2. cursor' = 0 /\ current' = array[0] /\ tracked' = TRUE
    BY <1>1, <1>4, <2>1, StorageFacts DEF HandOut
  <2>3. current' \in ID /\ InLoop'
    BY <1>1, <2>1, <2>2, StorageFacts DEF InLoop
  <2>4. pending' = Elements \ {array[0]}
    BY <2>2 DEF GetFirst
  <2>5. ASSUME NEW i \in Indices(amount)
        PROVE  i <= 0 <=> array[i] <= array[0]
    <3>1. i = 0 \/ (0 < i /\ array[0] < array[i])
      BY <1>1, <2>1, StorageFacts DEF StorageInv, InOrder, Sorted
    <3>2. i \in Int /\ array[i] \in Int /\ array[0] \in Int
      BY <1>1, <2>1, StorageFacts
    <3>3. QED
      BY <3>1, <3>2
  <2>6. CursorTracks'
    BY <1>1, <1>2, <1>4, <2>2, <2>3, <2>5, StorageFacts DEF CursorTracks, storage
  <2>7. ASSUME NEW x \in pending' PROVE current' < x
    <3>1. PICK i \in Indices(amount) : x = array[i]
      BY <2>4, <2>7 DEF Elements, Ids
    <3>2. 0 < i
      BY <1>1, <2>4, <2>7, <3>1, StorageFacts
    <3>3. QED
      BY <2>1, <2>2, <3>1, <3>2 DEF IInv, StorageInv, InOrder, Sorted
  <2>8. NothingSkipped'
    BY <2>3, <2>7 DEF NothingSkipped
  <2>9. cursor' \in -(ShortMax + 1) .. ShortMax
    BY <1>1, <2>2, StorageFacts
  <2>10. QED
    BY <1>3, <2>2, <2>3, <2>4, <2>6, <2>8, <2>9 DEF IInv, LoopInv
<1>5. CASE amount = 0 /\ current' = NoID /\ tracked' = FALSE /\ UNCHANGED cursor
  <2>1. Elements = {}
    BY <1>5 DEF Elements, Ids, Indices
  <2>2. pending' = {}
    BY <2>1 DEF GetFirst
  <2>3. CursorTracks' /\ NothingSkipped'
    BY <1>5, <2>2, Zenon DEF CursorTracks, NothingSkipped, InLoop
  <2>4. QED
    BY <1>3, <1>5, <2>2, <2>3 DEF IInv, LoopInv
<1>6. QED
  BY <1>4, <1>5 DEF GetFirst

LEMMA GetNextStep ==
  ASSUME MaxAmount <= ShortMax, IInv, GetNext
  PROVE  IInv'
<1>1. /\ cursor \in -1 .. amount - 1
      /\ \A i \in Indices(amount) : i <= cursor <=> array[i] <= current
  BY DEF GetNext, IInv, LoopInv, CursorTracks
<1>2. InLoop /\ HandOut(Short(cursor + 1)) /\ pending' = pending \ {current'}
  BY DEF GetNext
<1>3. QED
  BY <1>1, <1>2, Advance DEF IInv

\* GetNext( CData * ) first goes back to the record, so that any use of the
\* cursor in between does not matter.
LEMMA GetNextOfStep ==
  ASSUME MaxAmount <= ShortMax, IInv, GetNextOf
  PROVE  IInv'
<1>1. StorageInv /\ InLoop /\ pending' = pending \ {current'}
  BY DEF GetNextOf, IInv
<1>2. ASSUME current \in Elements, NEW pos \in 0 .. amount,
             IsPosition(array, amount, current, pos),
             HandOut(Short(Short(pos) + 1))
      PROVE  IInv'
  <2>1. array \in [Indices(amount) -> ID] /\ Sorted(array, amount) /\ current \in ID
    BY <1>1 DEF IInv, LoopInv, StorageInv, InOrder, InLoop
  <2>2. pos \in Indices(amount) /\ array[pos] = current
    BY <1>1, <1>2, <2>1, StorageFacts, PositionOfMember DEF Elements
  <2>3. pos \in -1 .. amount - 1 /\ pos \in -(ShortMax + 1) .. ShortMax
    BY <1>1, <2>2, StorageFacts
  <2>4. \A i \in Indices(amount) : i <= pos <=> array[i] <= current
    BY <1>1, <2>1, <2>2, StorageFacts DEF Sorted
  <2>5. HandOut(Short(pos + 1))
    BY <1>2, <2>3, ShortFits
  <2>6. QED
    BY <1>1, <2>3, <2>4, <2>5, Advance DEF IInv
<1>3. ASSUME tracked, HandOut(Short(cursor + 1))
      PROVE  IInv'
  <2>1. /\ cursor \in -1 .. amount - 1
        /\ \A i \in Indices(amount) : i <= cursor <=> array[i] <= current
    BY <1>3 DEF IInv, LoopInv, CursorTracks
  <2>2. QED
    BY <1>1, <1>3, <2>1, Advance DEF IInv
<1>4. QED
  BY <1>2, <1>3 DEF GetNextOf

LEMMA InnerLoopStep ==
  ASSUME MaxAmount <= ShortMax, IInv, InnerLoop
  PROVE  IInv'
<1>1. /\ UNCHANGED <<array, amount, arraySize, slots, pending, current>>
      /\ tracked' = FALSE /\ cursor' \in 0 .. amount
  BY DEF InnerLoop, Disturb, storage
<1>2. StorageInv' /\ Elements' = Elements
  BY <1>1 DEF IInv, StorageInv, InOrder, Capacity, Slack, Elements
<1>3. cursor' \in -(ShortMax + 1) .. ShortMax
  BY <1>1, StorageFacts DEF IInv
<1>4. CursorTracks'
  BY <1>1, Zenon DEF CursorTracks
<1>5. QED
  BY <1>1, <1>2, <1>3, <1>4 DEF IInv, LoopInv, NothingSkipped, InLoop

LEMMA LeaveStep ==
  ASSUME IInv, Leave
  PROVE  IInv'
<1>1. /\ UNCHANGED <<array, amount, arraySize, slots, cursor>>
      /\ current' = NoID /\ tracked' = FALSE /\ pending' = {}
  BY DEF Leave, storage
<1>2. StorageInv'
  BY <1>1 DEF IInv, StorageInv, InOrder, Capacity, Slack
<1>3. CursorTracks' /\ NothingSkipped'
  BY <1>1, Zenon DEF CursorTracks, NothingSkipped, InLoop
<1>4. QED
  BY <1>1, <1>2, <1>3 DEF IInv, LoopInv

LEMMA MakeEmptyStep ==
  ASSUME IInv, MakeEmpty
  PROVE  IInv'
<1>1. /\ amount' = 0 /\ arraySize' = 0 /\ slots' = 0 /\ cursor' = cursor
      /\ array' = [i \in Indices(0) |-> NoID]
      /\ current' = NoID /\ tracked' = FALSE /\ pending' = {}
  BY DEF MakeEmpty
<1>2. Indices(0) = {}
  BY DEF Indices
<1>3. array' \in [Indices(amount') -> ID]
  BY <1>1, <1>2
<1>4. StorageInv'
  BY <1>1, <1>2, <1>3, StorageFacts
    DEF IInv, StorageInv, InOrder, Sorted, Capacity, Slack
<1>5. CursorTracks' /\ NothingSkipped'
  BY <1>1, Zenon DEF CursorTracks, NothingSkipped, InLoop
<1>6. QED
  BY <1>1, <1>4, <1>5 DEF IInv, LoopInv

LEMMA NextIInv == MaxAmount <= ShortMax /\ IInv /\ [Next]_vars => IInv'
<1> SUFFICES ASSUME MaxAmount <= ShortMax, IInv, [Next]_vars PROVE IInv'
  OBVIOUS
<1>1. ASSUME NEW id \in ID,
             Insert(id) \/ InsertExisting(id) \/ Remove(id) \/ TableRemove(id)
      PROVE  IInv'
  BY <1>1, InsertStep, InsertExistingStep, RemoveStep, TableRemoveStep
<1>2. CASE GetFirst
  BY <1>2, GetFirstStep
<1>3. CASE GetNext
  BY <1>3, GetNextStep
<1>4. CASE GetNextOf
  BY <1>4, GetNextOfStep
<1>5. CASE InnerLoop
  BY <1>5, InnerLoopStep
<1>6. CASE Leave
  BY <1>6, LeaveStep
<1>7. CASE MakeEmpty
  BY <1>7, MakeEmptyStep
<1>8. CASE UNCHANGED vars
  BY <1>8 DEF vars, storage, loop, IInv, StorageInv, LoopInv, InOrder, Capacity,
              Slack, Elements, CursorTracks, NothingSkipped, InLoop
<1>9. QED
  BY <1>1, <1>2, <1>3, <1>4, <1>5, <1>6, <1>7, <1>8 DEF Next

\* The inductive invariant holds as long as the list has no more records than
\* a short cursor can index.
LEMMA Inductive == MaxAmount <= ShortMax => (Spec => []IInv)
<1> SUFFICES ASSUME MaxAmount <= ShortMax PROVE Spec => []IInv
  OBVIOUS
<1>1. IInv /\ [Next]_vars => IInv'
  BY NextIInv
<1>2. QED
  BY <1>1, InitIInv, PTL DEF Spec

\* The fields of a CDataList, and what its user knows of it, keep their types.
THEOREM DataListTypeCorrect == MaxAmount <= ShortMax => (Spec => []TypeOK)
<1>1. IInv => TypeOK
  BY DEF IInv, StorageInv, LoopInv, TypeOK, Elements, Ids
<1>2. QED
  BY <1>1, Inductive, PTL

\* Insert and Remove keep the records in strict alphabetical order.
THEOREM DataListInOrder == MaxAmount <= ShortMax => (Spec => []InOrder)
<1>1. IInv => InOrder
  BY DEF IInv, StorageInv
<1>2. QED
  BY <1>1, Inductive, PTL

\* Nothing is written outside the array; only the one cell that Remove reads
\* past the records may be missing.
THEOREM DataListCapacity == MaxAmount <= ShortMax => (Spec => []Capacity)
<1>1. IInv => Capacity
  BY DEF IInv, StorageInv
<1>2. QED
  BY <1>1, Inductive, PTL

\* At most one allocation step and one record are left unused.
THEOREM DataListSlack == MaxAmount <= ShortMax => (Spec => []Slack)
<1>1. IInv => Slack
  BY DEF IInv, StorageInv
<1>2. QED
  BY <1>1, Inductive, PTL

\* The cursor of a loop that only removes the record it is at stays right.
THEOREM DataListCursorTracks == MaxAmount <= ShortMax => (Spec => []CursorTracks)
<1>1. IInv => CursorTracks
  BY DEF IInv, LoopInv
<1>2. QED
  BY <1>1, Inductive, PTL

\* A finished loop has handed out every record that stayed in the list.
THEOREM DataListNothingSkipped == MaxAmount <= ShortMax => (Spec => []NothingSkipped)
<1>1. IInv => NothingSkipped
  BY DEF IInv, LoopInv
<1>2. QED
  BY <1>1, Inductive, PTL
-----------------------------------------------------------------------------
(* The list implements the abstract data set, step by step.                *)

\* Handing out the record at a position of the loop is the abstract GetNext.
LEMMA AdvanceRefines ==
  ASSUME MaxAmount <= ShortMax, IInv, InLoop, NEW c \in -1 .. amount - 1,
         \A i \in Indices(amount) : i <= c <=> array[i] <= current,
         HandOut(Short(c + 1)), pending' = pending \ {current'}
  PROVE  Abstract!GetNext
<1>1. /\ c \in Int /\ c + 1 \in 0 .. amount /\ amount <= ShortMax
      /\ current \in ID /\ current \in Int
  BY StorageFacts DEF IInv, LoopInv, InLoop
<1>2. Short(c + 1) = c + 1
  BY <1>1, StorageFacts, ShortFits DEF IInv
<1>3. UNCHANGED storage /\ Elements' = Elements
  BY DEF HandOut, storage, Elements
<1>4. CASE c + 1 >= amount
  <2>1. current' = NoID
    BY <1>1, <1>2, <1>4, StorageFacts DEF HandOut, IInv, Indices
  <2>2. \A i \in Indices(amount) : ~(current < array[i])
    BY <1>1, <1>4, StorageFacts DEF IInv
  <2>3. {id \in Elements : current < id} = {}
    BY <2>2 DEF Elements, Ids
  <2>4. QED
    BY <1>3, <2>1, <2>3 DEF Abstract!GetNext, InLoop
<1>5. CASE c + 1 < amount
  <2>1. c + 1 \in Indices(amount)
    BY <1>1, <1>5, StorageFacts DEF Indices, IInv
  <2>2. current' = array[c + 1]
    BY <1>1, <1>2, <1>5, <2>1, StorageFacts DEF HandOut, IInv
  <2>3. current' \in Elements /\ current < current'
    <3>1. ~(array[c + 1] <= current) /\ array[c + 1] \in Int
      BY <1>1, <2>1, StorageFacts DEF IInv
    <3>2. QED
      BY <1>1, <2>1, <2>2, <3>1 DEF Elements, Ids
  <2>4. ASSUME NEW x \in Elements, current < x PROVE current' <= x
    <3>1. PICK i \in Indices(amount) : x = array[i]
      BY <2>4 DEF Elements, Ids
    <3>2. ~(i <= c)
      BY <1>1, <2>4, <3>1, StorageFacts DEF IInv
    <3>3. i = c + 1 \/ c + 1 < i
      BY <1>1, <3>1, <3>2, StorageFacts DEF IInv
    <3>4. array[c + 1] \in Int /\ array[i] \in Int
      BY <2>1, <3>1, StorageFacts DEF IInv
    <3>5. QED
      BY <2>1, <2>2, <3>1, <3>3, <3>4 DEF IInv, StorageInv, InOrder, Sorted
  <2>5. QED
    BY <1>3, <2>3, <2>4 DEF Abstract!GetNext, Abstract!Least, InLoop
<1>6. QED
  BY <1>1, <1>4, <1>5, StorageFacts DEF IInv

LEMMA RemovalRefines ==
  ASSUME IInv, NEW id \in ID, ListRemove(id), current' = current
  PROVE  Abstract!Remove(id) \/ UNCHANGED <<Elements, current, pending>>
<1>1. Elements' = Elements \ {id} /\ pending' = pending \ {id}
  BY ListRemoveStep DEF IInv, ListRemove
<1>2. CASE id \in Elements
  BY <1>1, <1>2 DEF Abstract!Remove
<1>3. CASE id \notin Elements
  BY <1>1, <1>3 DEF IInv, LoopInv
<1>4. QED
  BY <1>2, <1>3

LEMMA GetFirstRefines ==
  ASSUME IInv, GetFirst
  PROVE  Abstract!GetFirst
<1>1. StorageInv /\ Elements' = Elements /\ pending' = Elements \ {current'}
  BY DEF IInv, GetFirst, HandOut, storage, Elements
<1>2. CASE amount > 0 /\ HandOut(0)
  <2>1. 0 \in Indices(amount)
    BY <1>1, <1>2, StorageFacts DEF Indices
  <2>2. current' = array[0] /\ current' \in Elements
    BY <1>1, <1>2, <2>1, StorageFacts DEF HandOut, Elements, Ids
  <2>3. ASSUME NEW x \in Elements PROVE current' <= x
    <3>1. PICK i \in Indices(amount) : x = array[i]
      BY DEF Elements, Ids
    <3>2. i = 0 \/ 0 < i
      BY <1>1, <3>1, StorageFacts
    <3>3. array[0] \in Int /\ array[i] \in Int
      BY <1>1, <2>1, <3>1, StorageFacts
    <3>4. QED
      BY <1>1, <2>1, <2>2, <3>1, <3>2, <3>3 DEF StorageInv, InOrder, Sorted
  <2>4. QED
    BY <1>1, <2>2, <2>3 DEF Abstract!GetFirst, Abstract!Least
<1>3. CASE amount = 0 /\ current' = NoID
  <2>1. Elements = {}
    BY <1>3 DEF Elements, Ids, Indices
  <2>2. QED
    BY <1>1, <1>3, <2>1 DEF Abstract!GetFirst
<1>4. QED
  BY <1>2, <1>3 DEF GetFirst

LEMMA GetNextOfRefines ==
  ASSUME MaxAmount <= ShortMax, IInv, GetNextOf
  PROVE  Abstract!GetNext
<1>1. StorageInv /\ InLoop /\ pending' = pending \ {current'}
  BY DEF GetNextOf, IInv
<1>2. ASSUME current \in Elements, NEW pos \in 0 .. amount,
             IsPosition(array, amount, current, pos),
             HandOut(Short(Short(pos) + 1))
      PROVE  Abstract!GetNext
  <2>1. array \in [Indices(amount) -> ID] /\ Sorted(array, amount) /\ current \in ID
    BY <1>1 DEF IInv, LoopInv, StorageInv, InOrder, InLoop
  <2>2. pos \in Indices(amount) /\ array[pos] = current
    BY <1>1, <1>2, <2>1, StorageFacts, PositionOfMember DEF Elements
  <2>3. pos \in -1 .. amount - 1 /\ pos \in -(ShortMax + 1) .. ShortMax
    BY <1>1, <2>2, StorageFacts
  <2>4. \A i \in Indices(amount) : i <= pos <=> array[i] <= current
    BY <1>1, <2>1, <2>2, StorageFacts DEF Sorted
  <2>5. HandOut(Short(pos + 1))
    BY <1>2, <2>3, ShortFits
  <2>6. QED
    BY <1>1, <2>3, <2>4, <2>5, AdvanceRefines
<1>3. ASSUME tracked, HandOut(Short(cursor + 1))
      PROVE  Abstract!GetNext
  <2>1. /\ cursor \in -1 .. amount - 1
        /\ \A i \in Indices(amount) : i <= cursor <=> array[i] <= current
    BY <1>3 DEF IInv, LoopInv, CursorTracks
  <2>2. QED
    BY <1>1, <1>3, <2>1, AdvanceRefines
<1>4. QED
  BY <1>2, <1>3 DEF GetNextOf

LEMMA StepRefines ==
  MaxAmount <= ShortMax /\ IInv /\ [Next]_vars => [Abstract!Next]_(Abstract!vars)
<1> SUFFICES ASSUME MaxAmount <= ShortMax, IInv, [Next]_vars
             PROVE  Abstract!Next \/ UNCHANGED <<Elements, current, pending>>
  BY DEF Abstract!vars
<1>1. ASSUME NEW id \in ID, Insert(id) PROVE Abstract!Insert(id)
  <2>1. Elements' = Elements \cup {id}
    BY <1>1, InsertStep
  <2>2. QED
    BY <1>1, <2>1 DEF Insert, Disturb, Abstract!Insert
<1>2. ASSUME NEW id \in ID, InsertExisting(id)
      PROVE  UNCHANGED <<Elements, current, pending>>
  BY <1>2 DEF InsertExisting, loop, Elements
<1>3. ASSUME NEW id \in ID, Remove(id) \/ TableRemove(id)
      PROVE  Abstract!Remove(id) \/ UNCHANGED <<Elements, current, pending>>
  <2>1. ListRemove(id) /\ current' = current
    BY <1>3 DEF Remove, TableRemove, Disturb
  <2>2. QED
    BY <2>1, RemovalRefines
<1>4. CASE GetFirst
  BY <1>4, GetFirstRefines DEF Abstract!Next
<1>5. CASE GetNext
  <2>1. /\ cursor \in -1 .. amount - 1
        /\ \A i \in Indices(amount) : i <= cursor <=> array[i] <= current
    BY <1>5 DEF GetNext, IInv, LoopInv, CursorTracks
  <2>2. Abstract!GetNext
    BY <1>5, <2>1, AdvanceRefines DEF GetNext
  <2>3. QED
    BY <2>2 DEF Abstract!Next
<1>6. CASE GetNextOf
  BY <1>6, GetNextOfRefines DEF Abstract!Next
<1>7. CASE InnerLoop
  BY <1>7 DEF InnerLoop, Disturb, storage, Elements
<1>8. CASE Leave
  BY <1>8 DEF Leave, storage, Elements, Abstract!Next, Abstract!Leave
<1>9. CASE MakeEmpty
  <2>1. Elements' = {}
    BY <1>9 DEF MakeEmpty, Elements, Ids, Indices
  <2>2. QED
    BY <1>9, <2>1 DEF MakeEmpty, Abstract!Next, Abstract!MakeEmpty
<1>10. CASE UNCHANGED vars
  BY <1>10 DEF vars, storage, loop, Elements
<1>11. QED
  BY <1>1, <1>2, <1>3, <1>4, <1>5, <1>6, <1>7, <1>8, <1>9, <1>10
    DEF Next, Abstract!Next

\* Every behaviour of the array, its cursor included, is one of the data set:
\* a loop hands out the IDs in alphabetical order, none twice and none skipped.
THEOREM DataListImplementsDataSet ==
  MaxAmount <= ShortMax => (Spec => ImplementsDataSet)
<1> SUFFICES ASSUME MaxAmount <= ShortMax PROVE Spec => Abstract!Spec
  BY DEF ImplementsDataSet
<1>1. Init => Abstract!Init
  BY DEF Init, Abstract!Init, Elements, Ids, Indices
<1>2. IInv /\ [Next]_vars => [Abstract!Next]_(Abstract!vars)
  BY StepRefines
<1>3. Spec => []IInv
  BY Inductive
<1>4. QED
  BY <1>1, <1>2, <1>3, PTL DEF Spec, Abstract!Spec
=============================================================================
