------------------------------ MODULE DataList ------------------------------
(***************************************************************************)
(* CDataList (src/TASelect/DataBase.cpp and DataBase.h): the array of      *)
(* records, sorted by ID, behind the database and behind every table, with *)
(* its allocation and its single loop cursor, and the list part of         *)
(* CTable::Remove and CTable::GetNext, which move that cursor.             *)
(*                                                                         *)
(* current, tracked and pending are not in the code.  They record what the *)
(* user of the list is doing: the record its loop is at; whether nothing   *)
(* but the removal of that record happened to the list and to the cursor   *)
(* since; and the records the loop still owes it.                          *)
(*                                                                         *)
(* A definition placed just before another one that it resembles is that   *)
(* one with a mistake in it (EnlargeLate before Enlarge): no action uses   *)
(* it, it is there to show that a property would notice the mistake.       *)
(***************************************************************************)
EXTENDS SortedList

CONSTANTS ID,           \* the IDs, as ranks in alphabetical order
          NoID,         \* the empty ID of _NULL_IDPTR
          ArrayStep,    \* m_ArrayStep: 16 in the code
          ShortMax,     \* largest short: 32767 in the code
          MaxAmount     \* bound on the number of records

ASSUME DataListAssumption ==
    /\ ID \subseteq Int /\ NoID \notin ID
    /\ ShortMax \in Nat /\ MaxAmount \in Nat
    /\ ArrayStep \in 1 .. ShortMax

VARIABLES array,        \* m_ppDataArray, the live cells
          amount,       \* m_usDataAmount
          arraySize,    \* m_usArraySize
          slots,        \* cells really allocated for m_ppDataArray
          cursor,       \* m_sCursor
          current, tracked, pending

storage == <<array, amount, arraySize, slots>>
loop == <<current, tracked, pending>>
vars == <<storage, cursor, loop>>

Elements == Ids(array, amount)
InLoop == current # NoID

\* Conversions to unsigned short and to short.
UShort(x) == x % (2 * (ShortMax + 1))
Short(x) == ((x + ShortMax + 1) % (2 * (ShortMax + 1))) - (ShortMax + 1)

TypeOK ==
    /\ amount \in 0 .. MaxAmount
    /\ array \in [Indices(amount) -> ID]
    /\ arraySize \in 0 .. 2 * ShortMax + 1
    /\ slots \in Nat
    /\ cursor \in -(ShortMax + 1) .. ShortMax
    /\ current \in ID \cup {NoID}
    /\ tracked \in BOOLEAN
    /\ pending \in SUBSET ID

Init ==
    /\ amount = 0 /\ array = [i \in Indices(0) |-> NoID]
    /\ arraySize = 0 /\ slots = 0
    /\ cursor = 0
    /\ current = NoID /\ tracked = FALSE /\ pending = {}
-----------------------------------------------------------------------------
(* What a user may do inside a loop.                                       *)

\* A change of the list, or of the cursor, that the loop does not expect: the
\* loop goes on with GetNext( CData * ), which needs the record it is at.
Disturb ==
    /\ InLoop => current \in Elements
    /\ tracked' = FALSE
    /\ UNCHANGED current
-----------------------------------------------------------------------------
(* Insert and Remove.                                                      *)

EnlargeLate ==
    IF amount > arraySize
    THEN /\ arraySize' = UShort(arraySize + ArrayStep)
         /\ slots' = arraySize' + 1
    ELSE UNCHANGED <<arraySize, slots>>

\* One element more than the size is allocated.
Enlarge ==
    IF amount >= arraySize
    THEN /\ arraySize' = UShort(arraySize + ArrayStep)
         /\ slots' = arraySize' + 1
    ELSE UNCHANGED <<arraySize, slots>>

\* Here the size is allocated without the element more, although the loop of
\* Remove counts on it: "Size of DataArray should be m_ArraySize+1".  Filled up
\* again, the list has no spare cell, and Remove reads one past the allocation.
Reduce ==
    IF arraySize - amount > ArrayStep
    THEN /\ arraySize' = arraySize - ArrayStep
         /\ slots' = arraySize'
    ELSE UNCHANGED <<arraySize, slots>>

Insert(id) ==
    /\ amount < MaxAmount
    /\ id \notin Elements
    /\ Enlarge
    /\ \E pos \in 0 .. amount :
         /\ IsPosition(array, amount, id, pos)
         /\ array' = ShiftUp(array, amount, pos, id)
    /\ amount' = amount + 1
    /\ Disturb
    /\ UNCHANGED <<cursor, pending>>

\* The ID is already in the list: Insert throws, after it has enlarged.
InsertExisting(id) ==
    /\ id \in Elements
    /\ Enlarge
    /\ UNCHANGED <<array, amount, cursor, loop>>

ListRemove(id) ==
    /\ Reduce
    /\ \/ /\ id \in Elements
          /\ \E pos \in 0 .. amount :
               /\ IsPosition(array, amount, id, pos)
               /\ array' = ShiftDown(array, amount, pos)
          /\ amount' = amount - 1
       \/ id \notin Elements /\ UNCHANGED <<array, amount>>
    /\ pending' = pending \ {id}

\* CDataBase::DeleteObject: the cursor stays where it is.
Remove(id) ==
    /\ id # current
    /\ ListRemove(id)
    /\ Disturb
    /\ UNCHANGED cursor

SetPosInside(pos) == cursor' = IF pos \in Indices(amount') THEN pos ELSE cursor
SetPos(pos) == cursor' = IF pos < amount' THEN Short(pos) ELSE cursor

\* CTable::Remove: "In case of GetFirst() GetNext() loop decrease position".
TableRemove(id) ==
    /\ ListRemove(id)
    /\ SetPos(cursor - 1)
    /\ \/ id = current /\ id \in Elements /\ tracked /\ UNCHANGED <<current, tracked>>
       \/ id # current /\ Disturb
-----------------------------------------------------------------------------
(* The loop.                                                               *)

\* Records handed out: outside the array it is whatever the memory holds.
HandOut(pos) ==
    /\ cursor' = pos
    /\ \/ pos >= amount /\ current' = NoID /\ tracked' = FALSE
       \/ pos \in Indices(amount) /\ current' = array[pos] /\ tracked' = TRUE
       \/ pos < 0 /\ current' \in ID /\ tracked' = TRUE
    /\ UNCHANGED storage

GetFirst ==
    /\ \/ amount > 0 /\ HandOut(0)
       \/ amount = 0 /\ current' = NoID /\ tracked' = FALSE
          /\ UNCHANGED <<storage, cursor>>
    /\ pending' = Elements \ {current'}

GetNext ==
    /\ InLoop /\ tracked
    /\ HandOut(Short(cursor + 1))
    /\ pending' = pending \ {current'}

GetNextAfterCursor ==
    /\ InLoop
    /\ HandOut(Short(cursor + 1))
    /\ pending' = pending \ {current'}

\* CTable::GetNext( CData * ): position on the record, then GetNext.  A record
\* that has been removed is not found and leaves the cursor where it is.
GetNextOf ==
    /\ InLoop
    /\ \/ /\ current \in Elements
          /\ \E pos \in 0 .. amount :
               /\ IsPosition(array, amount, current, pos)
               /\ HandOut(Short(Short(pos) + 1))
       \/ /\ current \notin Elements /\ tracked
          /\ HandOut(Short(cursor + 1))
    /\ pending' = pending \ {current'}

\* Another loop on the same list, run by the body of this one.
InnerLoop ==
    /\ InLoop
    /\ cursor' \in 0 .. amount
    /\ Disturb
    /\ UNCHANGED <<storage, pending>>

Leave ==
    /\ InLoop
    /\ current' = NoID /\ tracked' = FALSE /\ pending' = {}
    /\ UNCHANGED <<storage, cursor>>

MakeEmpty ==
    /\ amount' = 0 /\ array' = [i \in Indices(0) |-> NoID]
    /\ arraySize' = 0 /\ slots' = 0
    /\ current' = NoID /\ tracked' = FALSE /\ pending' = {}
    /\ UNCHANGED cursor

Next ==
    \/ \E id \in ID : \/ Insert(id) \/ InsertExisting(id)
                      \/ Remove(id) \/ TableRemove(id)
    \/ GetFirst \/ GetNext \/ GetNextOf \/ InnerLoop \/ Leave \/ MakeEmpty

Spec == Init /\ [][Next]_vars
-----------------------------------------------------------------------------
\* The dichotomy of Locate needs the records in strict alphabetical order:
\* every Insert and every Remove must leave them so.
InOrder == Sorted(array, amount)

\* Insert and Remove write inside the array they have allocated.
Capacity ==
    /\ amount <= arraySize
    /\ slots \in arraySize .. arraySize + 1

\* Remove gives memory back: the list never holds much more than it uses,
\* also when insertions and removals alternate at the edge of a step.
Slack == arraySize - amount <= ArrayStep + 1

\* A loop that only removed the record it is at can go on with GetNext: the
\* cursor is at the last record handed out, or just before where it was.
CursorTracks ==
    tracked => /\ InLoop
               /\ cursor \in -1 .. amount - 1
               /\ \A i \in Indices(amount) : i <= cursor <=> array[i] <= current

\* A loop that ran to its end has handed out every record that was in the
\* list since GetFirst, whatever was removed, inserted or looped over since.
NothingSkipped == IF InLoop THEN \A id \in pending : current < id
                  ELSE pending = {}

\* The list is the abstract data set: the same IDs, and loops that go through
\* them in alphabetical order without skipping or repeating one.
Abstract == INSTANCE DataSet WITH ids <- Elements, last <- current
ImplementsDataSet == Abstract!Spec
=============================================================================
