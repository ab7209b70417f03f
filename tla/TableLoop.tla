------------------------------ MODULE TableLoop ------------------------------
(***************************************************************************)
(* Walks through the records of one class of a CTable (GetFirst, GetNext,  *)
(* IsExist, GetItemCount of src/TASelect/DataBase.cpp).  A table has one   *)
(* cursor, in its list, and one class name, m_CNAccess, for all of them.   *)
(*                                                                         *)
(* DataList has the array behind the list and what loops owe; here the     *)
(* list is a set of IDs, integers in the place of their alphabetical order,*)
(* and the question is what the class name does to GetNext.                *)
(***************************************************************************)
EXTENDS Integers, FiniteSets

CONSTANTS ID, NoID,     \* the records, and the empty ID of _NULL_IDPTR
          Class,        \* classes of records
          AnyClass,     \* no class was given
          ClassOf,      \* the class of each record
          LeastCursor   \* bound on the removals outside of loops

VARIABLES list,     \* m_IDPtrList
          cursor,   \* its cursor, an index
          filter,   \* m_CNAccess
          at,       \* the record that a walk has handed out last
          fault     \* a NULL pointer has been followed

vars == <<list, cursor, filter, at, fault>>

Init == list = {} /\ cursor = 0 /\ filter = AnyClass /\ at = NoID /\ fault = FALSE

Members(class) == {id \in list : class \in {AnyClass, ClassOf[id]}}
Pos(id) == Cardinality({x \in list : x < id})
From(pos) == {id \in list : Pos(id) >= pos}
First(S) == IF S = {} THEN NoID ELSE CHOOSE id \in S : \A x \in S : id <= x

\* The cursor goes to id, or past the last record.
CursorTo(id) == cursor' = IF id = NoID THEN Cardinality(list) ELSE Pos(id)
-----------------------------------------------------------------------------
\* The class name is cleared, and set again unless the table is empty.
Find(class) ==
    /\ filter' = IF list = {} THEN AnyClass ELSE class
    /\ IF list = {} THEN UNCHANGED cursor ELSE CursorTo(First(Members(class)))
    /\ UNCHANGED <<list, fault>>

GetFirst(class) == Find(class) /\ at' = First(Members(class))

\* "Doesn't use GetFirst GetNext function": it does.
IsExist(class) == Find(class) /\ UNCHANGED at

\* Without a class the number is known, with one the records are counted.
GetItemCount(class) ==
    /\ class # AnyClass
    /\ filter' = IF list = {} THEN AnyClass ELSE class
    /\ IF list = {} THEN UNCHANGED cursor ELSE CursorTo(NoID)
    /\ UNCHANGED <<list, at, fault>>

\* A walk begins with GetFirst, and one that has ended is not asked for more: the
\* cursor is not far before the first record nor past the last one.
GetNext ==
    /\ cursor \in -1 .. Cardinality(list) - 1
    /\ LET id == First(From(cursor + 1) \cap Members(filter))
       IN at' = id /\ CursorTo(id)
    /\ UNCHANGED <<list, filter, fault>>

\* GetNext( CData * ) looks for the record it is given, then for the next one of
\* the class.  The loop over the others does not look for the end of the list.
GetNextOf ==
    /\ at \in list
    /\ LET from == From(Pos(at) + 1)
           id == First(from \cap Members(filter))
       IN IF from # {} /\ id = NoID
          THEN fault' = TRUE /\ UNCHANGED <<cursor, at>>
          ELSE CursorTo(id) /\ at' = id /\ UNCHANGED fault
    /\ UNCHANGED <<list, filter>>

Insert(id) ==
    /\ id \notin list /\ list' = list \cup {id}
    /\ UNCHANGED <<cursor, filter, at, fault>>

\* "In case of GetFirst() GetNext() loop decrease position index."
Remove(id) ==
    /\ id \in list /\ cursor > LeastCursor
    /\ list' = list \ {id}
    /\ cursor' = IF cursor - 1 < Cardinality(list') THEN cursor - 1 ELSE cursor
    /\ UNCHANGED <<filter, at, fault>>

Operation ==
    \/ \E class \in Class \cup {AnyClass} :
          GetFirst(class) \/ IsExist(class) \/ GetItemCount(class)
    \/ GetNext \/ GetNextOf
    \/ \E id \in ID : Insert(id) \/ Remove(id)

\* Nothing goes on after a NULL pointer was followed.
Next == ~fault /\ Operation

Spec == Init /\ [][Next]_vars
-----------------------------------------------------------------------------
\* "Return first Item following pDataObj": past the last one of the class it is
\* no item, and the pointer of no item is not followed.
NoNullFollowed == ~fault
=============================================================================
