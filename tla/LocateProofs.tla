---------------------------- MODULE LocateProofs ----------------------------
(***************************************************************************)
(* The dichotomy of CDataList::Locate is correct for every list of records *)
(* in alphabetical order, whatever its length, and each of its turns       *)
(* leaves at most half of what is to be searched.                          *)
(***************************************************************************)
EXTENDS Locate, TLAPS

\* The cells of a list are IDs (in the set K), hence comparable numbers.
LEMMA Cells ==
  ASSUME NEW K, K \subseteq Int, NEW n \in Nat, NEW a \in [Indices(n) -> K]
  PROVE  \A i \in Indices(n) : /\ i \in Int /\ 0 <= i /\ i < n
                               /\ a[i] \in K /\ a[i] \in Int
<1>1. ASSUME NEW i \in Indices(n) PROVE i \in Int /\ 0 <= i /\ i < n
  BY DEF Indices
<1>2. ASSUME NEW i \in Indices(n) PROVE a[i] \in K
  OBVIOUS
<1>3. QED
  BY <1>1, <1>2

IInv ==
    /\ TypeOK
    /\ Sorted(array, amount)
    /\ SearchWindow
    /\ Contract

LEMMA InitIInv == Init => IInv
<1> SUFFICES ASSUME Init PROVE IInv
  OBVIOUS
<1>1. TypeOK
  <2>1. found \in BOOLEAN /\ pc \in {"call", "search", "return"}
    BY Zenon DEF Init
  <2>2. minPos \in Int /\ maxPos \in Int /\ pos \in Int
    BY DEF Init
  <2>3. QED
    BY <2>1, <2>2, Zenon DEF Init, TypeOK
<1>2. QED
  BY <1>1 DEF Init, IInv, SearchWindow, Contract

\* One turn of the loop narrows the window and never loses the ID.
LEMMA HalveStep == IInv /\ Halve => IInv'
<1> SUFFICES ASSUME IInv, Halve PROVE IInv'
  OBVIOUS
<1> DEFINE mid == (minPos + maxPos) \div 2
<1>1. /\ 0 <= minPos /\ maxPos < amount /\ pc = "search"
      /\ minPos \in Int /\ maxPos \in Int /\ amount \in Nat
  BY LocateAssumption DEF IInv, TypeOK, SearchWindow, Halve, StillWide
<1>2. mid \in Int /\ minPos < mid /\ mid < maxPos
  BY <1>1 DEF Halve, StillWide
<1>3. /\ mid \in Indices(amount) /\ ID \subseteq Int /\ id \in Int
      /\ \A i \in Indices(amount) : i \in Int /\ array[i] \in Int
  <2>1. mid \in Indices(amount)
    BY <1>1, <1>2 DEF Indices
  <2>2. ID \subseteq Int /\ id \in ID /\ array \in [Indices(amount) -> ID]
    BY LocateAssumption DEF IInv, TypeOK
  <2>3. QED
    BY <1>1, <2>1, <2>2, Cells
<1>4. UNCHANGED <<array, amount, id, pc, found, pos>>
  BY DEF Halve, StillWide, arguments
<1>5. SearchWindow'
  <2>1. CASE id < array[mid] /\ maxPos' = mid /\ minPos' = minPos
    <3>1. \A i \in Indices(amount) : i > mid => array[i] > id
      BY <1>2, <1>3, <2>1 DEF IInv, Sorted
    <3>2. QED
      BY <1>1, <1>2, <1>4, <2>1, <3>1 DEF IInv, SearchWindow
  <2>2. CASE id >= array[mid] /\ minPos' = mid /\ maxPos' = maxPos
    <3>1. \A i \in Indices(amount) : i < mid => array[i] < id
      BY <1>2, <1>3, <2>2 DEF IInv, Sorted
    <3>2. QED
      BY <1>1, <1>2, <1>4, <2>2, <3>1 DEF IInv, SearchWindow
  <2>3. QED
    BY <2>1, <2>2 DEF Halve, StillWide
<1>6. TypeOK'
  BY <1>1, <1>2, <1>4 DEF IInv, TypeOK, Halve, StillWide
<1>7. QED
  BY <1>1, <1>4, <1>5, <1>6 DEF IInv, Contract

\* The final comparisons of at most two records give the right answer.
LEMMA DecideStep == IInv /\ Decide => IInv'
<1> SUFFICES ASSUME IInv, Decide PROVE IInv'
  OBVIOUS
<1>1. /\ 0 <= minPos /\ minPos <= maxPos /\ maxPos < amount
      /\ maxPos - minPos <= 1
      /\ minPos \in Int /\ maxPos \in Int /\ amount \in Nat
  BY LocateAssumption DEF IInv, TypeOK, SearchWindow, Decide, StillWide
<1>2. /\ minPos \in Indices(amount) /\ maxPos \in Indices(amount)
      /\ ID \subseteq Int /\ id \in ID /\ id \in Int
      /\ array \in [Indices(amount) -> ID]
  BY <1>1, LocateAssumption DEF Indices, IInv, TypeOK
<1>3. \A i \in Indices(amount) : i \in Int /\ 0 <= i /\ i < amount /\ array[i] \in Int
  BY <1>1, <1>2, Cells
<1>4. /\ \A i \in Indices(amount) : i < minPos => array[i] < id
      /\ \A i \in Indices(amount) : i > maxPos => array[i] > id
  BY DEF IInv, SearchWindow, Decide, StillWide
<1>5. UNCHANGED <<array, amount, id, minPos, maxPos>> /\ pc' = "return"
  BY DEF Decide, StillWide, Return, arguments
<1>6. \A i \in Indices(amount) : i < maxPos => i <= minPos
  BY <1>1, <1>3
<1>7. \A i \in Indices(amount) : i < maxPos => array[i] <= array[minPos]
  BY <1>1, <1>2, <1>3, <1>6 DEF IInv, Sorted
<1>8. TypeOK' /\ SearchWindow' /\ Sorted(array, amount)'
  <2>1. found' \in BOOLEAN
    BY Zenon DEF Decide, StillWide, Return
  <2>2. pos' \in Nat
    BY <1>1 DEF Decide, StillWide, Return
  <2>3. QED
    BY <1>5, <2>1, <2>2, Zenon DEF IInv, TypeOK, SearchWindow
<1>9. Contract'
  <2>1. CASE id > array[maxPos] /\ Return(FALSE, maxPos + 1)
    <3>1. \A i \in Indices(amount) : i < maxPos + 1 => array[i] < id
      BY <1>1, <1>2, <1>3, <2>1 DEF IInv, Sorted
    <3>2. IsPosition(array, amount, id, maxPos + 1)
      BY <1>1, <1>3, <1>4, <1>2, <3>1 DEF IsPosition
    <3>3. id \notin Ids(array, amount)
      BY <1>1, <1>2, <1>3, <1>4, <3>1 DEF Ids
    <3>4. QED
      BY <1>5, <2>1, <3>2, <3>3 DEF Contract, Return
  <2>2. CASE id = array[maxPos] /\ Return(TRUE, maxPos)
    <3>1. IsPosition(array, amount, id, maxPos)
      BY <1>1, <1>2, <1>3, <1>4, <2>2 DEF IsPosition, IInv, Sorted
    <3>2. id \in Ids(array, amount)
      BY <1>2, <2>2 DEF Ids
    <3>3. QED
      BY <1>1, <1>5, <2>2, <3>1, <3>2 DEF Contract, Return
  <2>3. CASE id < array[maxPos] /\ id > array[minPos] /\ Return(FALSE, maxPos)
    <3>1. \A i \in Indices(amount) : i < maxPos => array[i] < id
      BY <1>2, <1>3, <1>7, <2>3
    <3>2. \A i \in Indices(amount) : maxPos <= i => id < array[i]
      BY <1>1, <1>2, <1>3, <1>4, <2>3
    <3>3. IsPosition(array, amount, id, maxPos)
      BY <1>1, <1>2, <1>3, <3>1, <3>2 DEF IsPosition
    <3>4. id \notin Ids(array, amount)
      BY <1>1, <1>2, <1>3, <3>1, <3>2 DEF Ids
    <3>5. QED
      BY <1>5, <2>3, <3>3, <3>4 DEF Contract, Return
  <2>4. CASE id < array[maxPos] /\ id = array[minPos] /\ Return(TRUE, minPos)
    <3>1. IsPosition(array, amount, id, minPos)
      BY <1>1, <1>2, <1>3, <1>4, <2>4 DEF IsPosition, IInv, Sorted
    <3>2. id \in Ids(array, amount)
      BY <1>2, <2>4 DEF Ids
    <3>3. QED
      BY <1>1, <1>5, <2>4, <3>1, <3>2 DEF Contract, Return
  <2>5. CASE id < array[maxPos] /\ id < array[minPos] /\ Return(FALSE, minPos)
    <3>1. \A i \in Indices(amount) : minPos <= i => id < array[i]
      BY <1>1, <1>2, <1>3, <2>5 DEF IInv, Sorted
    <3>2. IsPosition(array, amount, id, minPos)
      BY <1>1, <1>2, <1>3, <1>4, <3>1 DEF IsPosition
    <3>3. id \notin Ids(array, amount)
      BY <1>1, <1>2, <1>3, <1>4, <3>1 DEF Ids
    <3>4. QED
      BY <1>5, <2>5, <3>2, <3>3 DEF Contract, Return
  <2>6. QED
    BY <2>1, <2>2, <2>3, <2>4, <2>5 DEF Decide, StillWide
<1>10. QED
  BY <1>8, <1>9 DEF IInv

\* Every step of the search preserves the invariant.
LEMMA NextIInv == IInv /\ [Next]_vars => IInv'
<1> SUFFICES ASSUME IInv, [Next]_vars PROVE IInv'
  OBVIOUS
<1>1. CASE LocateInEmptyList
  <2>1. /\ UNCHANGED <<array, amount, id, minPos, maxPos>>
        /\ amount = 0 /\ pc' = "return" /\ found' = FALSE /\ pos' = 0
    BY <1>1 DEF LocateInEmptyList, Return, arguments
  <2>2. IsPosition(array, amount, id, 0) /\ id \notin Ids(array, amount)
    BY <2>1 DEF IsPosition, Ids, Indices
  <2>3. TypeOK'
    <3>1. pos' \in Int
      BY <2>1
    <3>2. found' \in BOOLEAN
      BY <2>1, Zenon
    <3>3. QED
      BY <2>1, <3>1, <3>2, Zenon DEF IInv, TypeOK
  <2>4. QED
    BY <2>1, <2>2, <2>3 DEF IInv, SearchWindow, Contract
<1>2. CASE StartSearch
  <2>1. /\ UNCHANGED <<array, amount, id, found, pos>>
        /\ amount \in Nat /\ amount # 0
        /\ minPos' = 0 /\ maxPos' = amount - 1 /\ pc' = "search"
    BY <1>2, LocateAssumption DEF StartSearch, arguments, IInv, TypeOK
  <2>2. QED
    BY <2>1 DEF IInv, TypeOK, SearchWindow, Contract, Indices
<1>3. CASE Halve
  BY <1>3, HalveStep
<1>4. CASE Decide
  BY <1>4, DecideStep
<1>5. CASE UNCHANGED vars
  BY <1>5 DEF vars, arguments, IInv, TypeOK, SearchWindow, Contract
<1>6. QED
  BY <1>1, <1>2, <1>3, <1>4, <1>5 DEF Next, Finished

\* Locate keeps its contract for every list in alphabetical order: it finds
\* an ID exactly when it is there, and otherwise returns the one position
\* where inserting it keeps the order (CDataList::Insert relies on it).
THEOREM LocateContract == Spec => []Contract
<1>1. IInv => Contract
  BY DEF IInv
<1>2. QED
  BY <1>1, InitIInv, NextIInv, PTL DEF Spec

\* The dichotomy never compares with a cell outside the list.
THEOREM LocateWindow == Spec => []SearchWindow
<1>1. IInv => SearchWindow
  BY DEF IInv
<1>2. QED
  BY <1>1, InitIInv, NextIInv, PTL DEF Spec

\* The variables of the search keep their types.
THEOREM LocateTypeCorrect == Spec => []TypeOK
<1>1. IInv => TypeOK
  BY DEF IInv
<1>2. QED
  BY <1>1, InitIInv, NextIInv, PTL DEF Spec
-----------------------------------------------------------------------------
(***************************************************************************)
(* Why every call returns.  Terminates itself rests on the fairness of     *)
(* FairSpec and stays with TLC; the argument under it holds for every      *)
(* list: a step is always possible, and each one brings the end nearer.    *)
(***************************************************************************)

\* An upper bound of the steps a call still makes.
ToGo == CASE pc = "call" -> amount + 1
          [] pc = "search" -> maxPos - minPos + 1
          [] pc = "return" -> 0

\* A step of the call, and one turn of its loop.
Nearer == ToGo \in Nat /\ ToGo' \in Nat /\ ToGo' < ToGo
Halved == 2 * (maxPos' - minPos') <= maxPos - minPos + 1

LEMMA ToGoIsNat == IInv => ToGo \in Nat
  BY LocateAssumption DEF IInv, TypeOK, SearchWindow, ToGo

LEMMA HalveHalves == IInv /\ Halve => Halved /\ Nearer
<1> SUFFICES ASSUME IInv, Halve PROVE Halved /\ Nearer
  OBVIOUS
<1> DEFINE mid == (minPos + maxPos) \div 2
<1>1. /\ pc = "search" /\ pc' = "search" /\ minPos \in Int /\ maxPos \in Int
      /\ maxPos - minPos > 1
  BY DEF IInv, TypeOK, Halve, StillWide
<1>2. /\ mid \in Int /\ minPos < mid /\ mid < maxPos
      /\ 2 * (mid - minPos) <= maxPos - minPos + 1
      /\ 2 * (maxPos - mid) <= maxPos - minPos + 1
  BY <1>1
<1>3. \/ maxPos' = mid /\ minPos' = minPos
      \/ minPos' = mid /\ maxPos' = maxPos
  BY DEF Halve, StillWide
<1>4. QED
  BY <1>1, <1>2, <1>3 DEF Halved, Nearer, ToGo

LEMMA StepNearer == IInv /\ [Next]_vars => [Nearer]_vars
<1> SUFFICES ASSUME IInv, Next, vars' # vars PROVE Nearer
  OBVIOUS
<1>1. CASE LocateInEmptyList
  BY <1>1 DEF LocateInEmptyList, Return, arguments, Nearer, ToGo
<1>2. CASE StartSearch
  BY <1>2, LocateAssumption DEF StartSearch, arguments, IInv, TypeOK, Nearer, ToGo
<1>3. CASE Halve
  BY <1>3, HalveHalves
<1>4. CASE Decide
  BY <1>4, ToGoIsNat DEF IInv, SearchWindow, TypeOK, Decide, StillWide, Return, Nearer, ToGo
<1>5. QED
  BY <1>1, <1>2, <1>3, <1>4 DEF Next, Finished

\* The core of Terminates: whatever CDataList::Locate does before it returns
\* lowers a natural number, so that no list keeps it in the loop.
THEOREM LocateComesNearer == Spec => [][Nearer]_vars
<1>1. QED
  BY InitIInv, NextIInv, StepNearer, PTL DEF Spec

\* A turn of the loop leaves half of the window: the number of comparisons is
\* logarithmic in the length of the list.
THEOREM LocateHalvesWindow ==
  Spec => [][pc = "search" /\ pc' = "search" => Halved]_vars
<1> DEFINE Turn == pc = "search" /\ pc' = "search" => Halved
<1>1. IInv /\ [Next]_vars => [Turn]_vars
  <2> SUFFICES ASSUME IInv, Next, vars' # vars, pc = "search", pc' = "search"
               PROVE  Halved
    OBVIOUS
  <2>1. Halve
    BY DEF Next, LocateInEmptyList, StartSearch, Decide, StillWide, Return, Finished
  <2>2. QED
    BY <2>1, HalveHalves
<1>2. QED
  BY <1>1, InitIInv, NextIInv, PTL DEF Spec

\* The guard of some action of the call, written out.
CanGoOn ==
    \/ pc = "call"
    \/ pc = "search" /\ StillWide
    \/ pc = "search" /\ \/ id > array[maxPos]
                        \/ id = array[maxPos]
                        \/ id < array[maxPos] /\ id > array[minPos]
                        \/ id < array[maxPos] /\ id = array[minPos]
                        \/ id < array[maxPos] /\ id < array[minPos]

\* The other half of that core: the comparisons leave no case out, so that a
\* call that has not returned can go on.
THEOREM LocateCanGoOn == Spec => [](pc # "return" => CanGoOn)
<1>1. IInv => (pc # "return" => CanGoOn)
  <2> SUFFICES ASSUME IInv, pc = "search" PROVE CanGoOn
    BY DEF IInv, TypeOK, CanGoOn
  <2>1. /\ minPos \in Indices(amount) /\ maxPos \in Indices(amount)
        /\ ID \subseteq Int /\ id \in ID /\ array \in [Indices(amount) -> ID]
    BY LocateAssumption DEF IInv, TypeOK, SearchWindow, Indices
  <2>2. id \in Int /\ array[minPos] \in Int /\ array[maxPos] \in Int
    BY <2>1
  <2>3. QED
    BY <2>2 DEF CanGoOn
<1>2. QED
  BY <1>1, InitIInv, NextIInv, PTL DEF Spec
=============================================================================
