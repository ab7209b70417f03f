------------------------------ MODULE DataBase ------------------------------
(***************************************************************************)
(* The object database of HySelect (src/TASelect/DataBase.cpp): CDataBase, *)
(* which creates and destroys objects, CTable, which lists them, and the   *)
(* pointers between them: PP, the parent table an object keeps a pointer   *)
(* to, and the owner list, the IDs of the objects that lock it.            *)
(*                                                                         *)
(* The lists themselves (order, cursor, allocation) are module DataList;   *)
(* here a table is the set of IDs DataList implements.  The operations are *)
(* those of the classes, each one complete.  What their callers are        *)
(* assumed to respect stands in a guard of its own, named Caller...        *)
(*                                                                         *)
(* A definition placed just before another one that it resembles is that   *)
(* one with a mistake in it (SetParentTableOnce before SetParentTable): no *)
(* action uses it, it is there to show that a property would notice.       *)
(***************************************************************************)
CONSTANTS Obj,          \* object IDs
          Root,         \* _ROOT_TABLE
          Table,        \* the objects that are CTables, Root among them
          TrueTable,    \* the tables whose m_bTrueParent is set
          Locker,       \* products: they lock the characteristic they use
          NameOf,       \* m_Name of a table
          NULL

ASSUME DataBaseAssumption ==
    /\ TrueTable \subseteq Table /\ Table \subseteq Obj
    /\ Root \in TrueTable
    /\ Locker \subseteq Obj \ Table
    /\ NULL \notin Obj

VARIABLES alive,        \* the objects in m_DataSet
          pp,           \* m_Identificator.PP of an object
          stale,        \* objects whose PP points to a table that was freed
          owners,       \* m_pOwners of an object, as a set of IDs
          members,      \* m_IDPtrList of a table, as a set of IDs
          phase,        \* how far the destruction of the database is
          remaining     \* objects the loop of MakeEmpty has still to visit

objects == <<alive, pp, stale, owners, members>>
vars == <<objects, phase, remaining>>

\* "open" is normal use; MakeEmpty is "warn", then "free", and leaves "closed".
\* The last two end the program: memory that was freed has been used.
Phase == {"open", "warn", "free", "closed", "freedTableUsed", "freedItemRead"}

TypeOK ==
    /\ alive \subseteq Obj /\ stale \subseteq Obj /\ remaining \subseteq Obj
    /\ pp \in [Obj -> TrueTable \cup {NULL}]
    /\ owners \in [Obj -> SUBSET Obj]
    /\ members \in [Table -> SUBSET Obj]
    /\ phase \in Phase
-----------------------------------------------------------------------------
(* Notions used by the operations.                                         *)

Listed(o) == \E t \in Table : o \in members[t]
RuledTable == Table \ TrueTable

\* The objects below those of S: what a recursion on the members reaches.
Closed(S) == \A t \in Table \cap S : members[t] \subseteq S
OneLevel(S) == S \cup UNION {members[t] : t \in Table \cap S}
Branch(S) == {o \in Obj : \A T \in SUBSET Obj : S \subseteq T /\ Closed(T) => o \in T}

Orphans == {o \in alive : owners[o] = {}}

\* Removed from the table its PP points to, and not inserted elsewhere yet.
Floating == {o \in alive : pp[o] \in Table /\ o \notin members[pp[o]]}

\* GetTrueOwner, and what Extend makes of a missing PP: the true owner; none
\* is needed by an object nobody owns, otherwise Extend throws.
TrueOwners(o) == owners[o] \cap TrueTable \cap alive
Extends(o, local, parent) ==
    IF local # NULL THEN parent = local
    ELSE IF owners[o] = {} THEN parent = NULL ELSE parent \in TrueOwners(o)

\* The check of CTable::Insert on the name of a table: it goes through the
\* children of the table being inserted, not of the one it is inserted in.
NameIsFree(o) ==
    o \in Table => \A c \in members[o] \cap Table : NameOf[c] # NameOf[o]

\* Callers insert in a table that hangs on the root: Insert does not look.
CallerAnywhere(t) == TRUE
CallerInTree(t) == t \in Branch({Root})

\* Callers finish what they removed (insert or delete it) before they remove
\* something else.
CallerOneInFlight(o) == Floating \subseteq {o}

\* Objects listed in a ruled table are products of the database, never deleted.
CallerSparesRuled(S) ==
    \A t \in RuledTable : members[t] \cap S = {} /\ (t \in S => members[t] = {})
-----------------------------------------------------------------------------
(* Creation and tables.                                                    *)

NewRoot ==
    /\ alive' = {Root}
    /\ pp' = [o \in Obj |-> NULL] /\ stale' = {}
    /\ owners' = [o \in Obj |-> IF o = Root THEN {Root} ELSE {}]
    /\ members' = [t \in Table |-> {}]
    /\ phase' = "open" /\ remaining' = {}

Init ==
    /\ alive = {Root}
    /\ pp = [o \in Obj |-> NULL] /\ stale = {}
    /\ owners = [o \in Obj |-> IF o = Root THEN {Root} ELSE {}]
    /\ members = [t \in Table |-> {}]
    /\ phase = "open" /\ remaining = {}

CreateObject(o) ==
    /\ phase = "open" /\ o \notin alive
    /\ alive' = alive \cup {o}
    /\ UNCHANGED <<pp, stale, owners, members, phase, remaining>>

SetParentTableOnce(o, t) ==
    IF pp[o] = NULL THEN pp' = [pp EXCEPT ![o] = t] /\ stale' = stale \ {o}
                    ELSE UNCHANGED <<pp, stale>>
SetParentTable(o, t) == pp' = [pp EXCEPT ![o] = t] /\ stale' = stale \ {o}

\* CTable::Insert( IDPtr, true ) in a table that is the true parent.  PP is set
\* before the list is asked: on a duplicate the list throws and PP has changed.
Insert(t, o) ==
    /\ phase = "open" /\ t \in TrueTable \cap alive /\ o \in alive \ {Root, t}
    /\ CallerInTree(t)
    /\ \A other \in TrueTable \ {t} : o \notin members[other]   \* Caller: removed before
    /\ \E parent \in Obj \cup {NULL} : Extends(o, pp[o], parent)
    /\ NameIsFree(o)
    /\ SetParentTable(o, t)
    /\ \/ /\ o \notin members[t]
          /\ members' = [members EXCEPT ![t] = @ \cup {o}]
          /\ owners' = [owners EXCEPT ![o] = @ \cup {t}]
       \/ o \in members[t] /\ UNCHANGED <<members, owners>>
    /\ UNCHANGED <<alive, phase, remaining>>

\* CDB_RuledTableBase::AddItem: Insert( IDPtr, false ) of a product that keeps
\* its parent and does not get locked.
AddItem(t, o) ==
    /\ phase = "open" /\ t \in RuledTable \cap alive /\ o \in alive \ Table
    /\ \E parent \in Obj \cup {NULL} : Extends(o, NULL, parent)
    /\ o \notin members[t]
    /\ members' = [members EXCEPT ![t] = @ \cup {o}]
    /\ UNCHANGED <<alive, pp, stale, owners, phase, remaining>>

RemoveLocked(t, o) ==
    /\ phase = "open" /\ t \in Table \cap alive /\ o \in alive \ {Root}
    /\ CallerOneInFlight(o) /\ Extends(o, pp[o], t)
    /\ members' = [members EXCEPT ![t] = @ \ {o}]
    /\ UNCHANGED <<alive, pp, stale, owners, phase, remaining>>

\* CTable::Remove: the PP of the object is not reset.
Remove(t, o) ==
    /\ phase = "open" /\ t \in Table \cap alive /\ o \in alive \ {Root}
    /\ CallerOneInFlight(o)
    /\ Extends(o, pp[o], t)
    /\ owners' = [owners EXCEPT ![o] = @ \ {t}]
    /\ members' = [members EXCEPT ![t] = @ \ {o}]
    /\ UNCHANGED <<alive, pp, stale, phase, remaining>>
-----------------------------------------------------------------------------
(* Deletion.                                                               *)

\* What the destructors of the objects of S leave: ~CTable unlocks what the
\* table still lists; the PP of what survives is not touched.
Free(S) ==
    /\ alive' = alive \ S
    /\ pp' = [o \in Obj |-> IF o \in S THEN NULL ELSE pp[o]]
    /\ stale' = (stale \cup {o \in alive : pp[o] \in S}) \ S
    /\ owners' = [o \in Obj |-> IF o \in S THEN {}
                                ELSE owners[o] \ {t \in S \cap Table : o \in members[t]}]

\* DeleteObject without force: refused as long as the object has an owner.
DeleteObject(o) ==
    /\ phase = "open" /\ o \in alive
    /\ owners[o] = {}
    /\ CallerOneInFlight(o)
    /\ o \in TrueTable => members[o] = {}                   \* Caller: emptied before
    /\ \A t \in RuledTable : o \notin members[t]            \* Caller: not a listed product
    /\ Free({o})
    /\ members' = [t \in Table |-> IF t = o THEN {} ELSE members[t]]
    /\ UNCHANGED <<phase, remaining>>

FreeBranchInPlace(S) ==
    /\ Free(S)
    /\ members' = [t \in Table |-> IF t \in S THEN {} ELSE members[t]]
    /\ UNCHANGED <<phase, remaining>>

\* The recursion: each object is removed from the table its PP points to, then
\* freed.  Its loop hands the object just freed to GetNext( CData * ), which
\* reads its ID; the memory may or may not be readable.
FreeBranch(S) ==
    \/ /\ Free(S)
       /\ members' = [t \in Table |-> IF t \in S THEN {}
                                      ELSE members[t] \ {o \in S : pp[o] = t}]
       /\ UNCHANGED <<phase, remaining>>
    \/ /\ \E t \in S \cap Table : members[t] # {}
       /\ phase' = "freedItemRead"
       /\ UNCHANGED <<objects, remaining>>

UseFreedTable == /\ phase' = "freedTableUsed"
                 /\ UNCHANGED <<objects, remaining>>

\* DeleteObjectRecursive with force, as all its callers do.
DeleteObjectRecursive(o) ==
    /\ phase = "open" /\ o \in alive \ {Root}
    /\ CallerOneInFlight(o) /\ CallerSparesRuled(Branch({o}))
    /\ IF Branch({o}) \cap stale # {} THEN UseFreedTable ELSE FreeBranch(Branch({o}))

\* Two orphans one of which is freed with the branch of the other, or has its
\* PP in it: the loops of VerifyDataSetIntegrity meet freed memory.
Entangled == \E x, y \in Orphans : x # y /\ {x, pp[x]} \cap Branch({y}) # {}

VerifyDataSetIntegrity ==
    /\ phase = "open" /\ Orphans # {}
    /\ CallerSparesRuled(Branch(Orphans))
    /\ IF Branch(Orphans) \cap stale # {} \/ Entangled
       THEN UseFreedTable ELSE FreeBranch(Branch(Orphans))
-----------------------------------------------------------------------------
(* Locks.                                                                  *)

Lock(o, locker) ==
    /\ phase = "open" /\ o \in alive \ (Table \cup Locker) /\ locker \in Locker \cap alive
    /\ owners' = [owners EXCEPT ![o] = @ \cup {locker}]
    /\ UNCHANGED <<alive, pp, stale, members, phase, remaining>>

Unlock(o, locker) ==
    /\ phase = "open" /\ o \in alive /\ locker \in Locker \cap alive
    /\ owners' = [owners EXCEPT ![o] = @ \ {locker}]
    /\ UNCHANGED <<alive, pp, stale, members, phase, remaining>>

-----------------------------------------------------------------------------
(* Destruction of the database: a first loop warns every object, a second  *)
(* one frees them, both in the order of the IDs, which can be any.         *)

MakeEmpty ==
    /\ phase = "open"
    /\ phase' = "warn" /\ remaining' = alive
    /\ UNCHANGED objects

OnDatabaseDestroyOfData(o) ==
    /\ phase = "warn" /\ o \in remaining
    /\ remaining' = remaining \ {o}
    /\ UNCHANGED <<objects, phase>>

\* A table unlocks and forgets what it lists; a product unlocks what it uses.
OnDatabaseDestroy(o) ==
    /\ phase = "warn" /\ o \in remaining
    /\ remaining' = remaining \ {o}
    /\ owners' = [x \in Obj |->
                    IF (o \in Table /\ x \in members[o]) \/ o \in Locker
                    THEN owners[x] \ {o} ELSE owners[x]]
    /\ members' = [t \in Table |-> IF t = o THEN {} ELSE members[t]]
    /\ UNCHANGED <<alive, pp, stale, phase>>

RootStaysLocked ==
    /\ phase = "warn" /\ remaining = {}
    /\ phase' = "free" /\ remaining' = alive
    /\ UNCHANGED objects

UnlockRoot ==
    /\ phase = "warn" /\ remaining = {}
    /\ owners' = [owners EXCEPT ![Root] = @ \ {Root}]
    /\ phase' = "free" /\ remaining' = alive
    /\ UNCHANGED <<alive, pp, stale, members>>

\* delete ExtID.MP: the destructor of a table unlocks what it still lists.
DeleteInMakeEmpty(o) ==
    /\ phase = "free" /\ o \in remaining
    /\ IF o \in Table => members[o] \subseteq alive
       THEN /\ Free({o})
            /\ members' = [t \in Table |-> IF t = o THEN {} ELSE members[t]]
            /\ remaining' = remaining \ {o}
            /\ UNCHANGED phase
       ELSE UseFreedTable

ListEmptied ==
    /\ phase = "free" /\ remaining = {}
    /\ phase' = "closed"
    /\ UNCHANGED <<objects, remaining>>

\* The rest of CDataBase::Init, for the next document.
Reopen == phase = "closed" /\ NewRoot
-----------------------------------------------------------------------------
Next ==
    \/ \E o \in Obj : \/ CreateObject(o) \/ DeleteObject(o) \/ DeleteObjectRecursive(o)
                      \/ OnDatabaseDestroy(o) \/ DeleteInMakeEmpty(o)
                      \/ \E t \in Table : Insert(t, o) \/ AddItem(t, o) \/ Remove(t, o)
                      \/ \E l \in Locker : Lock(o, l) \/ Unlock(o, l)
    \/ VerifyDataSetIntegrity
    \/ MakeEmpty \/ UnlockRoot \/ ListEmptied \/ Reopen

Spec == Init /\ [][Next]_vars
-----------------------------------------------------------------------------
\* CDataBase::VerifyTable, "Scan all DataSet CTable Object to cross-verify
\* links", never throws: a true parent is the PP of what it lists, another
\* table is not.
VerifyTable ==
    \A t \in Table : \A o \in members[t] : (pp[o] = t) <=> t \in TrueTable

\* A true table locks exactly what it lists, so that nothing it lists can be
\* deleted without force, and nothing stays locked by a table it has left.
ListedIsLocked ==
    \A t \in TrueTable, o \in Obj \ {Root} : o \in members[t] <=> t \in owners[o]

\* No table ever lists an object that has been freed, ruled tables included.
ListedIsAlive == \A t \in Table : members[t] # {} => t \in alive /\ members[t] \subseteq alive

\* The PP of a listed object is a table that still exists.
ParentIsAlive == \A o \in alive : Listed(o) => o \notin stale

\* No link between an object and a table leads to freed memory, either way.
NoDanglingLink == ListedIsAlive /\ ParentIsAlive

\* The tables form a forest: no table is, through others, listed in itself.
Acyclic == \A t \in TrueTable : \A c \in members[t] : t \notin Branch({c})

\* No operation calls a method of a table that was freed: neither a removal
\* from a former parent, nor the unlocking of what a dying table lists.
NoFreedTableUsed == phase # "freedTableUsed"

\* The loop of DeleteObjectRecursive: "Return first Item following pDataObj"
\* needs an item that still exists.
NoFreedItemRead == phase # "freedItemRead"

\* When MakeEmpty starts freeing, the warnings have undone every link between
\* objects: no destructor can meet an object freed before.
UnlinkedBeforeFree ==
    phase = "free" => /\ \A t \in Table : members[t] = {}
                      /\ \A o \in alive : owners[o] \cap (Table \cup alive) = {}

\* A deletion takes whole branches: it never leaves behind an object that was
\* owned and has no owner any more.
DeletionLeavesNoOrphan ==
    [][phase = "open" /\ alive' # alive =>
         \A o \in alive \cap alive' : owners[o] # {} => owners'[o] # {}]_vars

\* "You cannot insert twice the same ID in the table, nor two CTables object
\* with the same name."
SiblingNamesDiffer ==
    \A t \in TrueTable : \A c, d \in members[t] \cap Table :
        c # d => NameOf[c] # NameOf[d]
-----------------------------------------------------------------------------
(* The abstract specification: ObjectTree.                                 *)

\* The table an object hangs under: the one its PP points to, while that lists it.
ParentOf(o) == IF pp[o] \in Table /\ o \in members[pp[o]] THEN pp[o] ELSE NULL

Tree == INSTANCE ObjectTree WITH
          Node <- Obj, Base <- Root, Holder <- Locker, None <- NULL,
          nodes <- alive,
          parent <- [o \in Obj |-> ParentOf(o)],
          holders <- [o \in Obj |-> owners[o] \cap Locker],
          closing <- phase \in {"warn", "free", "closed"}

\* Lists, parent pointers and owners together behave as trees of objects that
\* can be held: nothing that hangs or is held goes without force, force takes a
\* whole branch and leaves every survivor its parent and its holders, nothing
\* hangs under itself, and at the end all let go before the first one is freed.
ImplementsObjectTree == Tree!Spec
=============================================================================
