------------------------------- MODULE Locate -------------------------------
(***************************************************************************)
(* CDataList::Locate (src/TASelect/DataBase.cpp), the dichotomy every      *)
(* access to an object by its ID goes through.  One behaviour is one call: *)
(* Init picks the list and the ID asked for, one action is one turn of the *)
(* loop or the final comparison.                                           *)
(*                                                                         *)
(* A definition placed just before another one that it resembles is that   *)
(* one with a mistake in it (WideAnyway before StillWide): no action uses  *)
(* it, it is there to show that a property would notice the mistake.       *)
(***************************************************************************)
EXTENDS SortedList

CONSTANTS ID,           \* the IDs, as ranks in alphabetical order
          MaxAmount     \* bound on the number of records

ASSUME LocateAssumption == /\ ID \subseteq Int
                           /\ MaxAmount \in Nat

VARIABLES array,        \* m_ppDataArray
          amount,       \* m_usDataAmount
          id,           \* ptcID
          minPos,       \* usMinPos
          maxPos,       \* usMaxPos
          pc,           \* "call", "search" or "return"
          found,        \* the value returned
          pos           \* *pusPos

arguments == <<array, amount, id>>
vars == <<arguments, minPos, maxPos, pc, found, pos>>

TypeOK ==
    /\ amount \in 0 .. MaxAmount
    /\ array \in [Indices(amount) -> ID]
    /\ id \in ID
    /\ minPos \in Nat /\ maxPos \in Nat /\ pos \in Nat
    /\ pc \in {"call", "search", "return"}
    /\ found \in BOOLEAN

Init ==
    /\ amount \in 0 .. MaxAmount
    /\ array \in [Indices(amount) -> ID]
    /\ Sorted(array, amount)
    /\ id \in ID
    /\ minPos = 0 /\ maxPos = 0
    /\ pc = "call" /\ found = FALSE /\ pos = 0

Return(isFound, p) ==
    /\ pc' = "return" /\ found' = isFound /\ pos' = p
    /\ UNCHANGED <<arguments, minPos, maxPos>>

LocateInEmptyList == pc = "call" /\ amount = 0 /\ Return(FALSE, 0)

StartSearch ==
    /\ pc = "call" /\ amount # 0
    /\ minPos' = 0 /\ maxPos' = amount - 1
    /\ pc' = "search"
    /\ UNCHANGED <<arguments, found, pos>>

WideAnyway == maxPos > minPos
StillWide == maxPos - minPos > 1

HalvePastMiddle ==
    /\ pc = "search" /\ StillWide
    /\ LET mid == (minPos + maxPos) \div 2 IN
         \/ id < array[mid] /\ maxPos' = mid /\ minPos' = minPos
         \/ id >= array[mid] /\ minPos' = mid + 1 /\ maxPos' = maxPos
    /\ UNCHANGED <<arguments, pc, found, pos>>

Halve ==
    /\ pc = "search" /\ StillWide
    /\ LET mid == (minPos + maxPos) \div 2 IN
         \/ id < array[mid] /\ maxPos' = mid /\ minPos' = minPos
         \/ id >= array[mid] /\ minPos' = mid /\ maxPos' = maxPos
    /\ UNCHANGED <<arguments, pc, found, pos>>

DecideOnLast ==
    /\ pc = "search" /\ ~StillWide
    /\ \/ id > array[maxPos] /\ Return(FALSE, maxPos + 1)
       \/ id = array[maxPos] /\ Return(TRUE, maxPos)
       \/ id < array[maxPos] /\ Return(FALSE, maxPos)

\* At most two records are left; which comparison decides is the code's order.
Decide ==
    /\ pc = "search" /\ ~StillWide
    /\ \/ id > array[maxPos] /\ Return(FALSE, maxPos + 1)
       \/ id = array[maxPos] /\ Return(TRUE, maxPos)
       \/ id < array[maxPos] /\ id > array[minPos] /\ Return(FALSE, maxPos)
       \/ id < array[maxPos] /\ id = array[minPos] /\ Return(TRUE, minPos)
       \/ id < array[maxPos] /\ id < array[minPos] /\ Return(FALSE, minPos)

Finished == pc = "return" /\ UNCHANGED vars

Next == LocateInEmptyList \/ StartSearch \/ Halve \/ Decide \/ Finished

Spec == Init /\ [][Next]_vars

\* The loop is straight-line code: once called it runs.
FairSpec == Spec /\ WF_vars(StartSearch \/ LocateInEmptyList \/ Halve \/ Decide)
-----------------------------------------------------------------------------
(***************************************************************************)
(* What the callers rely on: the ID is found exactly when a record has it, *)
(* at that record's index; otherwise the position returned is the one      *)
(* where inserting the record keeps the alphabetical order.                *)
(***************************************************************************)
Contract ==
    pc = "return" =>
        /\ IsPosition(array, amount, id, pos)
        /\ found <=> id \in Ids(array, amount)
        /\ found => pos < amount /\ array[pos] = id

(***************************************************************************)
(* The loop invariant of the dichotomy: both bounds are indices of the     *)
(* list, everything before minPos is smaller than the ID and everything    *)
(* after maxPos is larger, so no comparison reads outside the list.        *)
(***************************************************************************)
SearchWindow ==
    pc = "search" =>
        /\ 0 <= minPos /\ minPos <= maxPos /\ maxPos < amount
        /\ \A i \in Indices(amount) : i < minPos => array[i] < id
        /\ \A i \in Indices(amount) : i > maxPos => array[i] > id

\* Every call returns: the window shrinks on every turn of the loop.
Terminates == <>(pc = "return")
=============================================================================
