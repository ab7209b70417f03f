------------------------------- MODULE DataSet ------------------------------
(***************************************************************************)
(* What a CDataList promises its users (src/TASelect/DataBase.h, CDataList *)
(* and the GetFirst/GetNext access functions of CTable and CDataBase): a   *)
(* set of IDs, and a loop that hands out each ID of the set, in            *)
(* alphabetical order, while the set changes under it.                     *)
(***************************************************************************)
EXTENDS Integers

CONSTANTS ID,       \* the IDs, as ranks in alphabetical order
          NoID      \* "no object": the loop is over, or none was started

VARIABLES ids,      \* the IDs in the set
          last,     \* the ID the current loop handed out last, or NoID
          pending   \* IDs in the set since the loop began, not handed out yet

vars == <<ids, last, pending>>

Init == ids = {} /\ last = NoID /\ pending = {}

Insert(id) == /\ id \in ID \ ids
              /\ ids' = ids \cup {id}
              /\ UNCHANGED <<last, pending>>

Remove(id) == /\ id \in ids
              /\ ids' = ids \ {id}
              /\ pending' = pending \ {id}
              /\ UNCHANGED last

\* The first ID of S in alphabetical order.
Least(S, id) == id \in S /\ \A other \in S : id <= other

GetFirst == /\ \/ ids = {} /\ last' = NoID
               \/ last' \in ids /\ Least(ids, last')
            /\ pending' = ids \ {last'}
            /\ UNCHANGED ids

GetNext == /\ last # NoID
           /\ LET later == {id \in ids : last < id} IN
                \/ later = {} /\ last' = NoID
                \/ last' \in later /\ Least(later, last')
           /\ pending' = pending \ {last'}
           /\ UNCHANGED ids

\* The user leaves the loop before its end.
Leave == last' = NoID /\ pending' = {} /\ UNCHANGED ids

MakeEmpty == ids' = {} /\ last' = NoID /\ pending' = {}

Next == \/ \E id \in ID : Insert(id) \/ Remove(id)
        \/ GetFirst \/ GetNext \/ Leave \/ MakeEmpty

Spec == Init /\ [][Next]_vars
=============================================================================
