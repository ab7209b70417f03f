----------------------------- MODULE SortedList -----------------------------
(***************************************************************************)
(* The pure part of CDataList (src/TASelect/DataBase.cpp): an array of     *)
(* records kept in alphabetical order of their IDs.  An ID is represented  *)
(* by its rank in alphabetical order, an array by a function on its        *)
(* indices 0 .. n - 1; cells past the records hold nothing that is read.   *)
(*                                                                         *)
(* ShiftUpForwards is ShiftUp with a mistake in it: it is used nowhere and *)
(* is there to show that a property of DataList would notice.              *)
(***************************************************************************)
EXTENDS Integers

Indices(n) == 0 .. n - 1

\* The order Locate relies on, and Insert and Remove must preserve.
Sorted(a, n) == \A i, j \in Indices(n) : i < j => a[i] < a[j]

Ids(a, n) == {a[i] : i \in Indices(n)}

\* pos is where id stands, or where it has to be inserted.
IsPosition(a, n, id, pos) ==
    /\ pos \in 0 .. n
    /\ \A i \in Indices(n) : i < pos => a[i] < id
    /\ \A i \in Indices(n) : pos <= i => id <= a[i]

\* The loop that makes room for a record at pos, run from pos upwards.
ShiftUpForwards(a, n, pos, id) ==
    [i \in Indices(n + 1) |-> IF i < pos THEN a[i]
                              ELSE IF i = pos THEN id ELSE a[pos]]

\* The loops that make room for a record at pos, and that close the gap.
ShiftUp(a, n, pos, id) ==
    [i \in Indices(n + 1) |-> IF i < pos THEN a[i]
                              ELSE IF i = pos THEN id ELSE a[i - 1]]

ShiftDown(a, n, pos) ==
    [i \in Indices(n - 1) |-> IF i < pos THEN a[i] ELSE a[i + 1]]
=============================================================================
