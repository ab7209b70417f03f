--------------------------- MODULE DataBaseProofs ---------------------------
(***************************************************************************)
(* The links between the objects of the database, for any set of objects,  *)
(* tables and products: they agree, they lead to what is alive, they make  *)
(* a forest, and together they implement ObjectTree.                       *)
(***************************************************************************)
EXTENDS DataBase, TLAPS

\* Only true tables and products own objects; the root is owned by itself.
OwnerKinds ==
    /\ \A o \in Obj : owners[o] \subseteq TrueTable \cup Locker
    /\ owners[Root] \subseteq {Root}

\* No table lists the root.
RootUnlisted == \A t \in Table : Root \notin members[t]

\* The links between objects, which destroying the database undoes.
Links == /\ VerifyTable /\ ListedIsLocked /\ ListedIsAlive
         /\ OwnerKinds /\ RootUnlisted

\* The root keeps its lock until the database is destroyed, and what the
\* destruction has undone so far.
Undone ==
    /\ phase = "open" => Root \in owners[Root]
    /\ phase = "warn" => /\ remaining \subseteq alive
                         /\ \A t \in Table \ remaining : members[t] = {}
                         /\ \A o \in Obj, l \in (Locker \cap alive) \ remaining :
                              l \notin owners[o]
    /\ phase = "free" => owners[Root] = {}

\* The inductive invariant.
IInv == TypeOK /\ Links /\ Undone /\ UnlinkedBeforeFree

-----------------------------------------------------------------------------
(* Branches.                                                               *)

\* A branch is closed: it holds whatever its tables list.
LEMMA BranchClosed ==
  ASSUME TypeOK, NEW S
  PROVE  Closed(Branch(S)) /\ Branch(S) \subseteq Obj
<1>1. ASSUME NEW t \in Table \cap Branch(S), NEW o \in members[t]
      PROVE  o \in Branch(S)
  <2>1. o \in Obj
    BY <1>1 DEF TypeOK
  <2>2. ASSUME NEW T \in SUBSET Obj, S \subseteq T, Closed(T)
        PROVE  o \in T
    <3>1. t \in T
      BY <1>1, <2>2 DEF Branch
    <3>2. QED
      BY <1>1, <2>2, <3>1 DEF Closed
  <2>3. QED
    BY <2>1, <2>2 DEF Branch
<1>2. QED
  BY <1>1 DEF Closed, Branch

\* The root is in no branch but those it starts, since no table lists it.
LEMMA RootNotInBranch ==
  ASSUME TypeOK, RootUnlisted, NEW S \in SUBSET Obj, Root \notin S
  PROVE  Root \notin Branch(S)
<1> DEFINE T == Obj \ {Root}
<1>1. T \in SUBSET Obj /\ S \subseteq T /\ Closed(T)
  BY DEF Closed, RootUnlisted, TypeOK
<1>2. QED
  BY <1>1 DEF Branch

-----------------------------------------------------------------------------
(* Freeing.                                                                *)

\* What the destructors change stays of its type.
LEMMA FreeType ==
  ASSUME TypeOK, NEW S \in SUBSET Obj, Free(S)
  PROVE  /\ alive' \subseteq Obj /\ stale' \subseteq Obj
         /\ pp' \in [Obj -> TrueTable \cup {NULL}]
         /\ owners' \in [Obj -> SUBSET Obj]
<1>1. TrueTable \subseteq Table /\ Table \subseteq Obj
  BY DataBaseAssumption
<1>2. alive' \subseteq Obj /\ stale' \subseteq Obj
  BY DEF Free, TypeOK
<1>3. pp' \in [Obj -> TrueTable \cup {NULL}]
  BY DEF Free, TypeOK
<1>4. owners' \in [Obj -> SUBSET Obj]
  BY <1>1 DEF Free, TypeOK
<1>5. QED
  BY <1>2, <1>3, <1>4

\* Freeing objects with all that their tables list leaves no link to them.
LEMMA FreeLinks ==
  ASSUME TypeOK, Links, NEW S \in SUBSET Obj, Root \notin S, Free(S),
         \A t \in TrueTable \cap S : members[t] \subseteq S,
         members' = [t \in Table |-> IF t \in S THEN {} ELSE members[t] \ S]
  PROVE  Links'
<1>1. /\ TrueTable \subseteq Table /\ Table \subseteq Obj /\ NULL \notin Obj
      /\ Root \in TrueTable
  BY DataBaseAssumption
<1>2. \A o \in Obj : /\ pp'[o] = IF o \in S THEN NULL ELSE pp[o]
                     /\ owners'[o] = IF o \in S THEN {}
                          ELSE owners[o] \ {t \in S \cap Table : o \in members[t]}
  BY DEF Free
<1>3. \A t \in Table : members'[t] = IF t \in S THEN {} ELSE members[t] \ S
  OBVIOUS
<1>4. \A t \in Table : members[t] \subseteq Obj
  BY DEF TypeOK
<1>5. VerifyTable'
  <2>1. SUFFICES ASSUME NEW t \in Table, NEW o \in members'[t]
                 PROVE  (pp'[o] = t) <=> t \in TrueTable
    BY DEF VerifyTable
  <2>2. o \in members[t] /\ o \notin S /\ o \in Obj
    BY <1>3, <1>4
  <2>3. QED
    BY <1>2, <2>2 DEF Links, VerifyTable
<1>6. ListedIsLocked'
  <2>1. SUFFICES ASSUME NEW t \in TrueTable, NEW o \in Obj \ {Root}
                 PROVE  o \in members'[t] <=> t \in owners'[o]
    BY DEF ListedIsLocked
  <2>2. t \in Table /\ (o \in members[t] <=> t \in owners[o])
    BY <1>1 DEF Links, ListedIsLocked
  <2>3. CASE o \in S
    BY <1>2, <1>3, <2>2, <2>3
  <2>4. CASE o \notin S /\ t \in S
    BY <1>2, <1>3, <2>2, <2>4
  <2>5. CASE o \notin S /\ t \notin S
    <3>1. o \in members'[t] <=> o \in members[t]
      BY <1>3, <2>2, <2>5
    <3>2. t \in owners'[o] <=> t \in owners[o]
      BY <1>2, <2>5
    <3>3. QED
      BY <2>2, <3>1, <3>2
  <2>6. QED
    BY <2>3, <2>4, <2>5
<1>7. ListedIsAlive'
  <2>1. SUFFICES ASSUME NEW t \in Table, NEW o \in members'[t]
                 PROVE  t \in alive' /\ o \in alive'
    BY DEF ListedIsAlive
  <2>2. t \in alive /\ o \in alive /\ t \notin S /\ o \notin S
    BY <1>3, <2>1 DEF Links, ListedIsAlive
  <2>3. QED
    BY <2>2 DEF Free
<1>8. OwnerKinds'
  BY <1>1, <1>2 DEF Links, OwnerKinds
<1>9. RootUnlisted'
  BY <1>3 DEF Links, RootUnlisted
<1>10. QED
  BY <1>5, <1>6, <1>7, <1>8, <1>9 DEF Links
-----------------------------------------------------------------------------
(* Each operation preserves the invariant.                                 *)

\* What no operation on the open database has to show.
LEMMA OpenStays ==
  ASSUME IInv, phase = "open", phase' = phase,
         alive' \subseteq Obj, stale' \subseteq Obj, UNCHANGED remaining,
         pp' \in [Obj -> TrueTable \cup {NULL}], owners' \in [Obj -> SUBSET Obj],
         members' \in [Table -> SUBSET Obj],
         Links', Root \in owners'[Root]
  PROVE  IInv'
BY DEF IInv, TypeOK, Undone, UnlinkedBeforeFree

LEMMA CreateObjectKeeps ==
  ASSUME IInv, NEW o \in Obj, CreateObject(o)
  PROVE  IInv'
<1>1. /\ phase = "open" /\ phase' = phase /\ alive' = alive \cup {o}
      /\ UNCHANGED <<pp, stale, owners, members, remaining>>
  BY DEF CreateObject
<1>2. Links'
  BY <1>1 DEF IInv, Links, VerifyTable, ListedIsLocked, ListedIsAlive, OwnerKinds,
              RootUnlisted
<1>3. QED
  BY <1>1, <1>2, OpenStays DEF IInv, TypeOK, Undone

LEMMA InsertKeeps ==
  ASSUME IInv, NEW t \in Table, NEW o \in Obj, Insert(t, o)
  PROVE  IInv'
<1>1. /\ TrueTable \subseteq Table /\ Table \subseteq Obj /\ NULL \notin Obj
  BY DataBaseAssumption
<1>2. /\ phase = "open" /\ phase' = phase /\ UNCHANGED <<alive, remaining>>
      /\ t \in TrueTable /\ t \in alive /\ o \in alive /\ o # Root
      /\ \A other \in TrueTable \ {t} : o \notin members[other]
      /\ pp' = [pp EXCEPT ![o] = t] /\ stale' = stale \ {o}
  BY DEF Insert, SetParentTable
<1>3. /\ TypeOK /\ VerifyTable /\ ListedIsLocked /\ ListedIsAlive
      /\ OwnerKinds /\ RootUnlisted /\ Undone
  BY DEF IInv, Links
<1>4. \A x \in Obj : pp'[x] = IF x = o THEN t ELSE pp[x]
  BY <1>2, <1>3 DEF TypeOK
<1>5. /\ members' \in [Table -> SUBSET Obj]
      /\ \A u \in Table : members'[u] = IF u = t THEN members[u] \cup {o} ELSE members[u]
  <2>1. CASE o \notin members[t]
    <3>1. members' = [members EXCEPT ![t] = @ \cup {o}]
      BY <2>1 DEF Insert
    <3>2. QED
      BY <1>3, <3>1 DEF TypeOK
  <2>2. CASE o \in members[t]
    <3>1. members' = members
      BY <2>2 DEF Insert
    <3>2. QED
      BY <1>3, <2>2, <3>1 DEF TypeOK
  <2>3. QED
    BY <2>1, <2>2
<1>6. /\ owners' \in [Obj -> SUBSET Obj]
      /\ \A x \in Obj : owners'[x] = IF x = o THEN owners[x] \cup {t} ELSE owners[x]
  <2>1. CASE o \notin members[t]
    <3>1. owners' = [owners EXCEPT ![o] = @ \cup {t}]
      BY <2>1 DEF Insert
    <3>2. QED
      BY <1>1, <1>3, <3>1 DEF TypeOK
  <2>2. CASE o \in members[t]
    <3>1. t \in owners[o] /\ owners' = owners
      BY <1>2, <1>3, <2>2 DEF Insert, ListedIsLocked
    <3>2. QED
      BY <1>3, <3>1 DEF TypeOK
  <2>3. QED
    BY <2>1, <2>2
<1>7. VerifyTable'
  <2>1. SUFFICES ASSUME NEW u \in Table, NEW x \in members'[u]
                 PROVE  (pp'[x] = u) <=> u \in TrueTable
    BY DEF VerifyTable
  <2>2. x \in Obj
    BY <1>5
  <2>3. CASE x = o
    BY <1>2, <1>4, <1>5, <2>2, <2>3
  <2>4. CASE x # o
    BY <1>3, <1>4, <1>5, <2>2, <2>4 DEF VerifyTable
  <2>5. QED
    BY <2>3, <2>4
<1>8. ListedIsLocked'
  BY <1>1, <1>3, <1>5, <1>6 DEF ListedIsLocked
<1>9. ListedIsAlive'
  BY <1>2, <1>3, <1>5 DEF ListedIsAlive
<1>10. OwnerKinds'
  <2>1. Root \in Obj /\ owners'[Root] = owners[Root]
    BY <1>1, <1>2, <1>6, DataBaseAssumption
  <2>2. \A x \in Obj : owners'[x] \subseteq TrueTable \cup Locker
    BY <1>2, <1>3, <1>6 DEF OwnerKinds
  <2>3. QED
    BY <1>3, <2>1, <2>2 DEF OwnerKinds
<1>11. RootUnlisted'
  BY <1>2, <1>3, <1>4, <1>5 DEF RootUnlisted
<1>12. Root \in owners'[Root]
  BY <1>1, <1>2, <1>3, <1>6, DataBaseAssumption DEF Undone
<1>13. pp' \in [Obj -> TrueTable \cup {NULL}] /\ stale' \subseteq Obj /\ alive' \subseteq Obj
  BY <1>1, <1>2, <1>3 DEF TypeOK
<1>14. QED
  BY <1>2, <1>5, <1>6, <1>7, <1>8, <1>9, <1>10, <1>11, <1>12, <1>13, OpenStays DEF Links

LEMMA AddItemKeeps ==
  ASSUME IInv, NEW t \in Table, NEW o \in Obj, AddItem(t, o)
  PROVE  IInv'
<1>1. /\ TrueTable \subseteq Table /\ Table \subseteq Obj /\ NULL \notin Obj
      /\ Root \in TrueTable
  BY DataBaseAssumption
<1>2. /\ phase = "open" /\ phase' = phase /\ UNCHANGED <<alive, pp, stale, owners, remaining>>
      /\ t \notin TrueTable /\ t \in alive /\ o \in alive /\ o \notin Table
      /\ members' = [members EXCEPT ![t] = @ \cup {o}]
  BY DEF AddItem, RuledTable
<1>3. /\ TypeOK /\ VerifyTable /\ ListedIsLocked /\ ListedIsAlive
      /\ OwnerKinds /\ RootUnlisted /\ Undone
  BY DEF IInv, Links
<1>4. /\ members' \in [Table -> SUBSET Obj]
      /\ \A u \in Table : members'[u] = IF u = t THEN members[u] \cup {o} ELSE members[u]
  BY <1>2, <1>3 DEF TypeOK
<1>5. VerifyTable'
  <2>1. pp[o] # t
    BY <1>1, <1>2, <1>3 DEF TypeOK
  <2>2. QED
    BY <1>2, <1>3, <1>4, <2>1 DEF VerifyTable
<1>6. ListedIsLocked'
  BY <1>1, <1>2, <1>3, <1>4 DEF ListedIsLocked
<1>7. ListedIsAlive'
  BY <1>2, <1>3, <1>4 DEF ListedIsAlive
<1>8. OwnerKinds' /\ RootUnlisted'
  BY <1>1, <1>2, <1>3, <1>4 DEF OwnerKinds, RootUnlisted
<1>9. QED
  BY <1>2, <1>3, <1>4, <1>5, <1>6, <1>7, <1>8, OpenStays DEF Links, TypeOK, Undone

LEMMA RemoveKeeps ==
  ASSUME IInv, NEW t \in Table, NEW o \in Obj, Remove(t, o)
  PROVE  IInv'
<1>1. /\ TrueTable \subseteq Table /\ Table \subseteq Obj /\ NULL \notin Obj
      /\ Root \in TrueTable
  BY DataBaseAssumption
<1>2. /\ phase = "open" /\ phase' = phase /\ UNCHANGED <<alive, pp, stale, remaining>>
      /\ o # Root
      /\ members' = [members EXCEPT ![t] = @ \ {o}]
      /\ owners' = [owners EXCEPT ![o] = @ \ {t}]
  BY DEF Remove
<1>3. /\ TypeOK /\ VerifyTable /\ ListedIsLocked /\ ListedIsAlive
      /\ OwnerKinds /\ RootUnlisted /\ Undone
  BY DEF IInv, Links
<1>4. /\ members' \in [Table -> SUBSET Obj]
      /\ \A u \in Table : members'[u] = IF u = t THEN members[u] \ {o} ELSE members[u]
  BY <1>2, <1>3 DEF TypeOK
<1>5. /\ owners' \in [Obj -> SUBSET Obj]
      /\ \A x \in Obj : owners'[x] = IF x = o THEN owners[x] \ {t} ELSE owners[x]
  BY <1>2, <1>3 DEF TypeOK
<1>6. VerifyTable'
  BY <1>2, <1>3, <1>4 DEF VerifyTable
<1>7. ListedIsLocked'
  BY <1>1, <1>3, <1>4, <1>5 DEF ListedIsLocked
<1>8. ListedIsAlive'
  BY <1>2, <1>3, <1>4 DEF ListedIsAlive
<1>9. OwnerKinds' /\ Root \in owners'[Root]
  BY <1>1, <1>2, <1>3, <1>5 DEF OwnerKinds, Undone
<1>10. RootUnlisted'
  BY <1>2, <1>3, <1>4 DEF RootUnlisted
<1>11. QED
  BY <1>2, <1>3, <1>4, <1>5, <1>6, <1>7, <1>8, <1>9, <1>10, OpenStays DEF Links, TypeOK

\* DeleteObject frees an object no table lists and, for a true table, one that
\* lists nothing.
LEMMA DeleteObjectKeeps ==
  ASSUME IInv, NEW o \in Obj, DeleteObject(o)
  PROVE  IInv'
<1>1. /\ TrueTable \subseteq Table /\ Table \subseteq Obj /\ Root \in TrueTable
  BY DataBaseAssumption
<1>2. /\ phase = "open" /\ phase' = phase /\ UNCHANGED remaining
      /\ owners[o] = {} /\ Free({o})
      /\ o \in TrueTable => members[o] = {}
      /\ \A t \in RuledTable : o \notin members[t]
      /\ members' = [t \in Table |-> IF t = o THEN {} ELSE members[t]]
  BY DEF DeleteObject
<1>3. TypeOK /\ Links /\ Undone
  BY DEF IInv
<1>4. o # Root
  BY <1>2, <1>3 DEF Undone
<1>5. \A t \in Table : o \notin members[t]
  BY <1>1, <1>2, <1>3, <1>4 DEF Links, ListedIsLocked, RuledTable
<1>6. members' = [t \in Table |-> IF t \in {o} THEN {} ELSE members[t] \ {o}]
  BY <1>2, <1>5
<1>7. Links'
  BY <1>2, <1>3, <1>4, <1>6, FreeLinks
<1>8. Root \in owners'[Root]
  BY <1>1, <1>2, <1>3, <1>4 DEF Free, Undone, Links, RootUnlisted
<1>9. members' \in [Table -> SUBSET Obj]
  BY <1>2, <1>3 DEF TypeOK
<1>10. QED
  BY <1>2, <1>3, <1>7, <1>8, <1>9, FreeType, OpenStays

\* A recursive deletion frees a whole branch, so that nothing is left listed
\* of it, or stops the program.
LEMMA FreeBranchKeeps ==
  ASSUME IInv, phase = "open", NEW S \in SUBSET Obj, Root \notin S, Closed(S),
         CallerSparesRuled(S), FreeBranch(S)
  PROVE  IInv'
<1>1. /\ TrueTable \subseteq Table /\ Table \subseteq Obj /\ Root \in TrueTable
  BY DataBaseAssumption
<1>2. TypeOK /\ Links /\ Undone
  BY DEF IInv
<1>3. CASE /\ Free(S)
           /\ members' = [t \in Table |-> IF t \in S THEN {}
                                          ELSE members[t] \ {o \in S : pp[o] = t}]
           /\ UNCHANGED <<phase, remaining>>
  <2>1. \A t \in Table \ S : members[t] \ {o \in S : pp[o] = t} = members[t] \ S
    <3>1. SUFFICES ASSUME NEW t \in Table \ S, NEW o \in members[t], o \in S
                   PROVE  pp[o] = t
      OBVIOUS
    <3>2. t \in TrueTable
      BY <3>1 DEF CallerSparesRuled, RuledTable
    <3>3. QED
      BY <1>2, <3>2 DEF Links, VerifyTable
  <2>2. members' = [t \in Table |-> IF t \in S THEN {} ELSE members[t] \ S]
    BY <1>3, <2>1
  <2>3. \A t \in TrueTable \cap S : members[t] \subseteq S
    BY <1>1 DEF Closed
  <2>4. Links'
    BY <1>2, <1>3, <2>2, <2>3, FreeLinks
  <2>5. Root \in owners'[Root]
    BY <1>1, <1>2, <1>3 DEF Free, Undone, Links, RootUnlisted
  <2>6. members' \in [Table -> SUBSET Obj]
    BY <1>2, <2>2 DEF TypeOK
  <2>7. QED
    BY <1>2, <1>3, <2>4, <2>5, <2>6, FreeType, OpenStays
<1>4. CASE phase' = "freedItemRead" /\ UNCHANGED <<objects, remaining>>
  BY <1>2, <1>4 DEF IInv, TypeOK, Phase, Links, VerifyTable, ListedIsLocked, ListedIsAlive,
       OwnerKinds, RootUnlisted, Undone, UnlinkedBeforeFree, objects
<1>5. QED
  BY <1>3, <1>4 DEF FreeBranch

LEMMA UseFreedTableKeeps ==
  ASSUME IInv, UseFreedTable
  PROVE  IInv'
BY DEF UseFreedTable, IInv, TypeOK, Phase, Links, VerifyTable, ListedIsLocked, ListedIsAlive,
       OwnerKinds, RootUnlisted, Undone, UnlinkedBeforeFree, objects

LEMMA DeleteObjectRecursiveKeeps ==
  ASSUME IInv, NEW o \in Obj, DeleteObjectRecursive(o)
  PROVE  IInv'
<1>1. /\ phase = "open" /\ o # Root /\ CallerSparesRuled(Branch({o}))
      /\ UseFreedTable \/ FreeBranch(Branch({o}))
  BY DEF DeleteObjectRecursive
<1>2. Closed(Branch({o})) /\ Branch({o}) \subseteq Obj /\ Root \notin Branch({o})
  BY <1>1, BranchClosed, RootNotInBranch DEF IInv, Links
<1>3. QED
  BY <1>1, <1>2, FreeBranchKeeps, UseFreedTableKeeps

LEMMA VerifyDataSetIntegrityKeeps ==
  ASSUME IInv, VerifyDataSetIntegrity
  PROVE  IInv'
<1>1. /\ phase = "open" /\ CallerSparesRuled(Branch(Orphans))
      /\ UseFreedTable \/ FreeBranch(Branch(Orphans))
  BY DEF VerifyDataSetIntegrity
<1>2. Orphans \in SUBSET Obj /\ Root \notin Orphans
  BY <1>1 DEF IInv, TypeOK, Undone, Orphans
<1>3. /\ Closed(Branch(Orphans)) /\ Branch(Orphans) \subseteq Obj
      /\ Root \notin Branch(Orphans)
  BY <1>2, BranchClosed, RootNotInBranch DEF IInv, Links
<1>4. QED
  BY <1>1, <1>3, FreeBranchKeeps, UseFreedTableKeeps

\* Lock and Unlock change the products among the owners, never the tables.
LEMMA LockKeeps ==
  ASSUME IInv, NEW o \in Obj, NEW l \in Locker, Lock(o, l) \/ Unlock(o, l)
  PROVE  IInv'
<1>1. /\ TrueTable \subseteq Table /\ Table \subseteq Obj /\ Root \in TrueTable
      /\ Locker \subseteq Obj \ Table
  BY DataBaseAssumption
<1>2. /\ phase = "open" /\ phase' = phase
      /\ UNCHANGED <<alive, pp, stale, members, remaining>>
      /\ \/ owners' = [owners EXCEPT ![o] = @ \cup {l}] /\ o \notin Table
         \/ owners' = [owners EXCEPT ![o] = @ \ {l}]
  BY DEF Lock, Unlock
<1>3. TypeOK /\ Links /\ Undone
  BY DEF IInv
<1>4. /\ owners' \in [Obj -> SUBSET Obj]
      /\ \A x \in Obj : owners'[x] \subseteq owners[x] \cup {l}
      /\ \A x \in Obj, t \in Table : t \in owners'[x] <=> t \in owners[x]
      /\ owners'[Root] \subseteq owners[Root]
  <2>1. CASE owners' = [owners EXCEPT ![o] = @ \cup {l}] /\ o \notin Table
    BY <1>1, <1>3, <2>1 DEF TypeOK
  <2>2. CASE owners' = [owners EXCEPT ![o] = @ \ {l}]
    BY <1>1, <1>3, <2>2 DEF TypeOK
  <2>3. QED
    BY <1>2, <2>1, <2>2
<1>5. VerifyTable' /\ ListedIsAlive' /\ RootUnlisted'
  BY <1>2, <1>3 DEF Links, VerifyTable, ListedIsAlive, RootUnlisted
<1>6. ListedIsLocked'
  BY <1>1, <1>2, <1>3, <1>4 DEF Links, ListedIsLocked
<1>7. OwnerKinds'
  BY <1>3, <1>4 DEF Links, OwnerKinds
<1>8. Root \in owners'[Root]
  BY <1>1, <1>2, <1>3, <1>4 DEF Undone
<1>9. QED
  BY <1>2, <1>3, <1>4, <1>5, <1>6, <1>7, <1>8, OpenStays DEF Links, TypeOK

\* The destruction starts with every object still to be warned: what is not
\* alive lists nothing and has nothing to unlock.
LEMMA MakeEmptyKeeps ==
  ASSUME IInv, MakeEmpty
  PROVE  IInv'
<1>1. /\ phase' = "warn" /\ remaining' = alive
      /\ UNCHANGED <<alive, pp, stale, owners, members>>
  BY DEF MakeEmpty, objects
<1>2. TypeOK /\ Links
  BY DEF IInv
<1>3. Links' /\ TypeOK'
  BY <1>1, <1>2 DEF Links, VerifyTable, ListedIsLocked, ListedIsAlive, OwnerKinds,
       RootUnlisted, TypeOK, Phase
<1>4. Undone'
  BY <1>1, <1>2 DEF Links, ListedIsAlive, Undone
<1>5. QED
  BY <1>1, <1>3, <1>4 DEF IInv, UnlinkedBeforeFree

LEMMA OnDatabaseDestroyKeeps ==
  ASSUME IInv, NEW o \in Obj, OnDatabaseDestroy(o)
  PROVE  IInv'
<1>1. /\ TrueTable \subseteq Table /\ Table \subseteq Obj /\ Root \in TrueTable
      /\ Locker \subseteq Obj \ Table
  BY DataBaseAssumption
<1>2. /\ phase = "warn" /\ phase' = phase /\ UNCHANGED <<alive, pp, stale>>
      /\ remaining' = remaining \ {o}
  BY DEF OnDatabaseDestroy
<1>3. TypeOK /\ Links /\ Undone
  BY DEF IInv
<1>4. /\ owners' \in [Obj -> SUBSET Obj]
      /\ \A x \in Obj : owners'[x] = IF (o \in Table /\ x \in members[o]) \/ o \in Locker
                                     THEN owners[x] \ {o} ELSE owners[x]
  BY <1>3 DEF OnDatabaseDestroy, TypeOK
<1>5. /\ members' \in [Table -> SUBSET Obj]
      /\ \A t \in Table : members'[t] = IF t = o THEN {} ELSE members[t]
  BY <1>3 DEF OnDatabaseDestroy, TypeOK
<1>6. VerifyTable' /\ ListedIsAlive' /\ RootUnlisted'
  BY <1>2, <1>3, <1>5 DEF Links, VerifyTable, ListedIsAlive, RootUnlisted
<1>7. ListedIsLocked'
  <2>1. SUFFICES ASSUME NEW t \in TrueTable, NEW x \in Obj \ {Root}
                 PROVE  x \in members'[t] <=> t \in owners'[x]
    BY DEF ListedIsLocked
  <2>2. t \in Table /\ (x \in members[t] <=> t \in owners[x])
    BY <1>1, <1>3 DEF Links, ListedIsLocked
  <2>3. CASE t = o
    BY <1>4, <1>5, <2>2, <2>3
  <2>4. CASE t # o
    BY <1>4, <1>5, <2>2, <2>4
  <2>5. QED
    BY <2>3, <2>4
<1>8. OwnerKinds'
  BY <1>1, <1>3, <1>4 DEF Links, OwnerKinds
<1>9. Undone'
  <2>1. remaining' \subseteq alive' /\ \A t \in Table \ remaining' : members'[t] = {}
    BY <1>2, <1>3, <1>5 DEF Undone
  <2>2. \A x \in Obj, l \in (Locker \cap alive') \ remaining' : l \notin owners'[x]
    BY <1>2, <1>3, <1>4 DEF Undone
  <2>3. QED
    BY <1>2, <2>1, <2>2 DEF Undone
<1>10. TypeOK'
  BY <1>2, <1>3, <1>4, <1>5 DEF TypeOK
<1>11. UnlinkedBeforeFree'
  BY <1>2 DEF UnlinkedBeforeFree
<1>12. QED
  BY <1>6, <1>7, <1>8, <1>9, <1>10, <1>11 DEF IInv, Links

\* Once every object has been warned, only the lock of the root is left.
LEMMA UnlockRootKeeps ==
  ASSUME IInv, UnlockRoot
  PROVE  IInv'
<1>1. /\ TrueTable \subseteq Table /\ Table \subseteq Obj /\ Root \in TrueTable
      /\ Locker \subseteq Obj \ Table
  BY DataBaseAssumption
<1>2. /\ phase = "warn" /\ remaining = {} /\ phase' = "free" /\ remaining' = alive
      /\ UNCHANGED <<alive, pp, stale, members>>
      /\ owners' = [owners EXCEPT ![Root] = @ \ {Root}]
  BY DEF UnlockRoot
<1>3. TypeOK /\ Links /\ Undone
  BY DEF IInv
<1>4. /\ owners' \in [Obj -> SUBSET Obj] /\ owners'[Root] = {}
      /\ \A x \in Obj \ {Root} : owners'[x] = owners[x]
  BY <1>1, <1>2, <1>3 DEF TypeOK, Links, OwnerKinds
<1>5. \A t \in Table : members[t] = {}
  BY <1>2, <1>3 DEF Undone
<1>6. \A x \in Obj : owners'[x] \cap (Table \cup alive) = {}
  <2>1. SUFFICES ASSUME NEW x \in Obj \ {Root}, NEW y \in owners[x], y \in Table \cup alive
                 PROVE  FALSE
    BY <1>4
  <2>2. y \in TrueTable \cup Locker
    BY <1>3 DEF Links, OwnerKinds
  <2>3. CASE y \in TrueTable
    BY <1>1, <1>3, <1>5, <2>3 DEF Links, ListedIsLocked
  <2>4. CASE y \in Locker
    BY <1>1, <1>2, <1>3, <2>1, <2>4 DEF Undone
  <2>5. QED
    BY <2>2, <2>3, <2>4
<1>7. VerifyTable' /\ ListedIsAlive' /\ RootUnlisted'
  BY <1>2, <1>3 DEF Links, VerifyTable, ListedIsAlive, RootUnlisted
<1>8. ListedIsLocked'
  BY <1>1, <1>2, <1>3, <1>4 DEF Links, ListedIsLocked
<1>9. OwnerKinds'
  <2>1. ASSUME NEW x \in Obj PROVE owners'[x] \subseteq TrueTable \cup Locker
    BY <1>3, <1>4 DEF Links, OwnerKinds
  <2>2. QED
    BY <1>4, <2>1 DEF OwnerKinds
<1>10. TypeOK' /\ Undone'
  BY <1>2, <1>3, <1>4 DEF TypeOK, Phase, Undone
<1>11. UnlinkedBeforeFree'
  BY <1>1, <1>2, <1>3, <1>5, <1>6 DEF UnlinkedBeforeFree, TypeOK
<1>12. QED
  BY <1>7, <1>8, <1>9, <1>10, <1>11 DEF IInv, Links

\* Freeing what has no link left makes none.
LEMMA DeleteInMakeEmptyKeeps ==
  ASSUME IInv, NEW o \in Obj, DeleteInMakeEmpty(o)
  PROVE  IInv'
<1>1. /\ TrueTable \subseteq Table /\ Table \subseteq Obj /\ Root \in TrueTable
      /\ NULL \notin Obj
  BY DataBaseAssumption
<1>2. TypeOK /\ Links /\ Undone /\ phase = "free"
  BY DEF IInv, DeleteInMakeEmpty
<1>3. \A t \in Table : members[t] = {}
  BY <1>2 DEF IInv, UnlinkedBeforeFree
<1>4. CASE UseFreedTable
  BY <1>4, UseFreedTableKeeps
<1>5. CASE /\ Free({o}) /\ remaining' = remaining \ {o} /\ phase' = phase
           /\ members' = [t \in Table |-> IF t = o THEN {} ELSE members[t]]
  <2>1. \A t \in Table : members'[t] = {}
    BY <1>3, <1>5
  <2>2. \A x \in Obj : /\ owners'[x] = IF x = o THEN {} ELSE owners[x]
                       /\ pp'[x] = IF x = o THEN NULL ELSE pp[x]
    BY <1>3, <1>5 DEF Free
  <2>3. VerifyTable' /\ ListedIsAlive' /\ RootUnlisted'
    BY <2>1 DEF VerifyTable, ListedIsAlive, RootUnlisted
  <2>4. ListedIsLocked'
    BY <1>1, <1>2, <1>3, <2>1, <2>2 DEF Links, ListedIsLocked
  <2>5. OwnerKinds'
    BY <1>1, <1>2, <2>2 DEF Links, OwnerKinds
  <2>7. Undone'
    BY <1>1, <1>2, <1>5, <2>2 DEF Undone
  <2>8. members' \in [Table -> SUBSET Obj]
    BY <1>3, <1>5
  <2>9. TypeOK'
    BY <1>2, <1>5, <2>8, FreeType DEF TypeOK
  <2>10. UnlinkedBeforeFree'
    <3>1. \A x \in alive' : owners'[x] \cap (Table \cup alive') = {}
      BY <1>2, <1>5, <2>2 DEF IInv, UnlinkedBeforeFree, Free, TypeOK
    <3>2. QED
      BY <2>1, <3>1 DEF UnlinkedBeforeFree
  <2>11. QED
    BY <2>3, <2>4, <2>5, <2>7, <2>9, <2>10 DEF IInv, Links
<1>6. QED
  BY <1>4, <1>5 DEF DeleteInMakeEmpty

LEMMA ListEmptiedKeeps ==
  ASSUME IInv, ListEmptied
  PROVE  IInv'
BY DEF ListEmptied, IInv, TypeOK, Phase, Links, VerifyTable, ListedIsLocked, ListedIsAlive,
       OwnerKinds, RootUnlisted, Undone, UnlinkedBeforeFree, objects

-----------------------------------------------------------------------------
(* A new database: its root, owned by itself.                              *)
LEMMA InitKeeps ==
  ASSUME Init
  PROVE  IInv
<1>1. TrueTable \subseteq Table /\ Table \subseteq Obj /\ NULL \notin Obj /\ Root \in TrueTable
  BY DataBaseAssumption
<1>2. TypeOK /\ Links
  BY <1>1 DEF Init, TypeOK, Phase, Links, VerifyTable, ListedIsLocked, ListedIsAlive,
              OwnerKinds, RootUnlisted
<1>3. Undone /\ UnlinkedBeforeFree
  BY <1>1 DEF Init, Undone, UnlinkedBeforeFree
<1>4. QED
  BY <1>2, <1>3 DEF IInv

LEMMA ReopenKeeps ==
  ASSUME Reopen
  PROVE  IInv'
<1>1. TrueTable \subseteq Table /\ Table \subseteq Obj /\ NULL \notin Obj /\ Root \in TrueTable
  BY DataBaseAssumption
<1>2. TypeOK' /\ Links'
  BY <1>1 DEF Reopen, NewRoot, TypeOK, Phase, Links, VerifyTable, ListedIsLocked,
              ListedIsAlive, OwnerKinds, RootUnlisted
<1>3. Undone' /\ UnlinkedBeforeFree'
  BY <1>1 DEF Reopen, NewRoot, Undone, UnlinkedBeforeFree
<1>4. QED
  BY <1>2, <1>3 DEF IInv

-----------------------------------------------------------------------------
(* The theorems.                                                           *)

\* The invariant holds in every behaviour.
THEOREM DataBaseInductive == Spec => []IInv
<1>1. Init => IInv
  BY InitKeeps
<1>2. IInv /\ [Next]_vars => IInv'
  <2>1. SUFFICES ASSUME IInv, [Next]_vars PROVE IInv'
    OBVIOUS
  <2>2. CASE UNCHANGED vars
    BY <2>1, <2>2 DEF vars, objects, IInv, TypeOK, Links, VerifyTable, ListedIsLocked,
         ListedIsAlive, OwnerKinds, RootUnlisted, Undone, UnlinkedBeforeFree
  <2>3. ASSUME NEW o \in Obj,
               \/ CreateObject(o) \/ DeleteObject(o) \/ DeleteObjectRecursive(o)
               \/ OnDatabaseDestroy(o) \/ DeleteInMakeEmpty(o)
        PROVE  IInv'
    BY <2>1, <2>3, CreateObjectKeeps, DeleteObjectKeeps, DeleteObjectRecursiveKeeps,
       OnDatabaseDestroyKeeps, DeleteInMakeEmptyKeeps
  <2>4. ASSUME NEW o \in Obj, NEW t \in Table, Insert(t, o) \/ AddItem(t, o) \/ Remove(t, o)
        PROVE  IInv'
    BY <2>1, <2>4, InsertKeeps, AddItemKeeps, RemoveKeeps
  <2>5. ASSUME NEW o \in Obj, NEW l \in Locker, Lock(o, l) \/ Unlock(o, l)
        PROVE  IInv'
    BY <2>1, <2>5, LockKeeps
  <2>6. CASE VerifyDataSetIntegrity
    BY <2>1, <2>6, VerifyDataSetIntegrityKeeps
  <2>7. CASE MakeEmpty \/ UnlockRoot \/ ListEmptied \/ Reopen
    BY <2>1, <2>7, MakeEmptyKeeps, UnlockRootKeeps, ListEmptiedKeeps, ReopenKeeps
  <2>8. QED
    BY <2>1, <2>2, <2>3, <2>4, <2>5, <2>6, <2>7 DEF Next
<1>3. QED
  BY <1>1, <1>2, PTL DEF Spec

\* Every variable keeps its type.
THEOREM DataBaseTypeCorrect == Spec => []TypeOK
<1>1. IInv => TypeOK
  BY DEF IInv
<1>2. QED
  BY <1>1, DataBaseInductive, PTL

\* CDataBase::VerifyTable never throws: a true parent is the PP of what it
\* lists, another table is not.
THEOREM DataBaseVerifyTable == Spec => []VerifyTable
<1>1. IInv => VerifyTable
  BY DEF IInv, Links
<1>2. QED
  BY <1>1, DataBaseInductive, PTL

\* A true table owns exactly what it lists.
THEOREM DataBaseListedIsLocked == Spec => []ListedIsLocked
<1>1. IInv => ListedIsLocked
  BY DEF IInv, Links
<1>2. QED
  BY <1>1, DataBaseInductive, PTL

\* No table lists an object that was freed, whichever of the four ways of
\* deleting freed it.
THEOREM DataBaseListedIsAlive == Spec => []ListedIsAlive
<1>1. IInv => ListedIsAlive
  BY DEF IInv, Links
<1>2. QED
  BY <1>1, DataBaseInductive, PTL

\* CDataBase::MakeEmpty frees only what has no link left, in any order.
THEOREM DataBaseUnlinkedBeforeFree == Spec => []UnlinkedBeforeFree
<1>1. IInv => UnlinkedBeforeFree
  BY DEF IInv
<1>2. QED
  BY <1>1, DataBaseInductive, PTL

\* The survivors of a deletion keep every owner they had: only true tables and
\* products own, and a freed true table lists nothing that survives it.
LEMMA SurvivorsKeepOwners ==
  ASSUME OwnerKinds, NEW S \in SUBSET Obj, Free(S),
         \A t \in TrueTable \cap S : members[t] \subseteq S,
         NEW o \in alive \cap alive', alive \subseteq Obj
  PROVE  owners'[o] = owners[o]
<1>1. Locker \cap Table = {} /\ TrueTable \subseteq Table
  BY DataBaseAssumption
<1>2. o \in Obj /\ o \notin S
  BY DEF Free
<1>3. owners'[o] = owners[o] \ {t \in S \cap Table : o \in members[t]}
  BY <1>2 DEF Free
<1>4. ASSUME NEW t \in owners[o], t \in S \cap Table, o \in members[t]
      PROVE  FALSE
  <2>1. t \in TrueTable
    BY <1>1, <1>2, <1>4 DEF OwnerKinds
  <2>2. QED
    BY <1>2, <1>4, <2>1
<1>5. QED
  BY <1>3, <1>4

\* A deletion takes whole branches: nothing that was owned becomes an orphan.
THEOREM DataBaseNoOrphan == Spec => DeletionLeavesNoOrphan
<1> DEFINE Step == phase = "open" /\ alive' # alive =>
                     \A o \in alive \cap alive' : owners[o] # {} => owners'[o] # {}
<1>1. IInv /\ [Next]_vars => [Step]_vars
  <2>1. SUFFICES ASSUME IInv, Next, phase = "open", alive' # alive,
                        NEW o \in alive \cap alive'
                 PROVE  owners'[o] = owners[o]
    OBVIOUS
  <2>2. TypeOK /\ OwnerKinds /\ alive \subseteq Obj
    BY <2>1 DEF IInv, Links, TypeOK
  <2>3. ASSUME NEW x \in Obj, CreateObject(x)
        PROVE  owners'[o] = owners[o]
    BY <2>3 DEF CreateObject
  <2>4. ASSUME NEW x \in Obj, DeleteObject(x)
        PROVE  owners'[o] = owners[o]
    BY <2>2, <2>4, SurvivorsKeepOwners DEF DeleteObject
  <2>5. ASSUME NEW S \in SUBSET Obj, Closed(S), FreeBranch(S)
        PROVE  owners'[o] = owners[o]
    <3>1. \A t \in TrueTable \cap S : members[t] \subseteq S
      BY <2>5, DataBaseAssumption DEF Closed
    <3>2. Free(S) \/ owners' = owners
      BY <2>5 DEF FreeBranch, objects
    <3>3. QED
      BY <2>2, <3>1, <3>2, SurvivorsKeepOwners
  <2>6. ASSUME NEW x \in Obj, DeleteObjectRecursive(x)
        PROVE  owners'[o] = owners[o]
    <3>1. UseFreedTable \/ FreeBranch(Branch({x}))
      BY <2>6 DEF DeleteObjectRecursive
    <3>2. QED
      BY <2>2, <2>5, <3>1, BranchClosed DEF UseFreedTable, objects
  <2>7. CASE VerifyDataSetIntegrity
    <3>1. UseFreedTable \/ FreeBranch(Branch(Orphans))
      BY <2>7 DEF VerifyDataSetIntegrity
    <3>2. QED
      BY <2>2, <2>5, <3>1, BranchClosed DEF UseFreedTable, objects
  <2>8. QED
    <3>1. ASSUME NEW x \in Obj, NEW t \in Table, Insert(t, x) \/ AddItem(t, x) \/ Remove(t, x)
          PROVE  FALSE
      BY <2>1, <3>1 DEF Insert, AddItem, Remove
    <3>2. ASSUME NEW x \in Obj, NEW l \in Locker, Lock(x, l) \/ Unlock(x, l)
          PROVE  FALSE
      BY <2>1, <3>2 DEF Lock, Unlock
    <3>3. ASSUME NEW x \in Obj, OnDatabaseDestroy(x) \/ DeleteInMakeEmpty(x)
          PROVE  FALSE
      BY <2>1, <3>3 DEF OnDatabaseDestroy, DeleteInMakeEmpty
    <3>4. ASSUME MakeEmpty \/ UnlockRoot \/ ListEmptied \/ Reopen
          PROVE  FALSE
      BY <2>1, <3>4 DEF MakeEmpty, objects, UnlockRoot, ListEmptied, Reopen
    <3>5. QED
      BY <2>1, <2>3, <2>4, <2>6, <2>7, <3>1, <3>2, <3>3, <3>4 DEF Next
<1>2. QED
  BY <1>1, DataBaseInductive, PTL DEF Spec, DeletionLeavesNoOrphan
-----------------------------------------------------------------------------
(* The tables of the database as a forest: no cycle, and no pointer to a   *)
(* table that was freed.  Depth would need an induction on the branches;   *)
(* none is needed, as a branch is the least set closed under "lists": that *)
(* something is not in it is shown by a closed set without it.             *)

\* Catalogue tables list products, never tables.
RuledListItems == \A t \in RuledTable : members[t] \cap Table = {}

\* What is no object any more points to nothing.
DeadIsBare == \A o \in Obj \ alive : pp[o] = NULL

\* Callers have at most one object removed and not inserted again.
OneFloating == \A x, y \in Floating : x = y

\* A table something points to is itself in a table, the root excepted: what
\* was never inserted is nobody's parent.
Rooted == \A o \in Obj : pp[o] \in {NULL, Root} \/ pp[pp[o]] # NULL

\* No parent pointer is stale until the database is being freed.
NoStale == phase \in {"open", "warn", "freedItemRead"} => stale = {}

Emptied == phase = "closed" => \A t \in Table : members[t] = {}

Open == phase = "open" => DeadIsBare /\ OneFloating /\ Rooted

\* The inductive invariant, on top of IInv.
Forest == RuledListItems /\ Acyclic /\ Open /\ NoStale /\ Emptied /\ NoFreedTableUsed
-----------------------------------------------------------------------------
(* Branches.                                                               *)

\* What is in a closed set holds the branch.
LEMMA InClosed ==
  ASSUME NEW T \in SUBSET Obj, NEW S \in SUBSET T, Closed(T)
  PROVE  Branch(S) \subseteq T
BY DEF Branch

\* A branch holds its start.
LEMMA StartsBranch ==
  ASSUME NEW S \in SUBSET Obj
  PROVE  S \subseteq Branch(S)
BY DEF Branch

\* What is in a branch but not at its start is listed in it.
LEMMA ListedInBranch ==
  ASSUME TypeOK, NEW S \in SUBSET Obj, NEW x \in Branch(S), x \notin S
  PROVE  \E t \in Table \cap Branch(S) : x \in members[t]
<1>1. SUFFICES ASSUME \A t \in Table \cap Branch(S) : x \notin members[t]
               PROVE  FALSE
  OBVIOUS
<1> DEFINE T == Branch(S) \ {x}
<1>2. T \in SUBSET Obj /\ S \in SUBSET T
  BY StartsBranch DEF Branch
<1>3. Closed(T)
  BY <1>1, BranchClosed DEF Closed
<1>4. QED
  BY <1>2, <1>3, InClosed

\* A set that is closed after a step and does not hold t, to show that t is
\* not under c after it.
LEMMA OutsideAfter ==
  ASSUME NEW T \in SUBSET Obj, NEW c \in T, NEW t, t \notin T,
         \A u \in Table \cap T : members'[u] \subseteq T
  PROVE  t \notin Branch({c})'
BY DEF Branch, Closed

\* Removing makes no cycle.
LEMMA FewerMembers ==
  ASSUME TypeOK, Acyclic, \A u \in Table : members'[u] \subseteq members[u]
  PROVE  Acyclic'
<1>1. SUFFICES ASSUME NEW t \in TrueTable, NEW c \in members'[t]
               PROVE  t \notin Branch({c})'
  BY DEF Acyclic
<1>2. TrueTable \subseteq Table
  BY DataBaseAssumption
<1>3. c \in members[t] /\ c \in Obj
  BY <1>1, <1>2 DEF TypeOK
<1>4. PICK T \in SUBSET Obj : T = Branch({c})
  BY DEF Branch
<1>5. c \in T /\ t \notin T /\ \A u \in Table \cap T : members'[u] \subseteq T
  BY <1>3, <1>4, StartsBranch, BranchClosed DEF Acyclic, Closed
<1>6. QED
  BY <1>4, <1>5, OutsideAfter

\* Nor does listing an object that lists nothing.
LEMMA LeafListed ==
  ASSUME TypeOK, Acyclic, NEW t \in Table, NEW o \in Obj \ Table,
         \A u \in Table : members'[u] = IF u = t THEN members[u] \cup {o} ELSE members[u]
  PROVE  Acyclic'
<1>1. SUFFICES ASSUME NEW u \in TrueTable, NEW c \in members'[u]
               PROVE  u \notin Branch({c})'
  BY DEF Acyclic
<1>2. TrueTable \subseteq Table /\ Table \subseteq Obj
  BY DataBaseAssumption
<1>3. CASE c = o
  <2>1. u \notin {o} /\ {o} \in SUBSET Obj /\ Table \cap {o} = {}
    BY <1>2
  <2>2. QED
    BY <1>3, <2>1, OutsideAfter
<1>4. CASE c # o
  <2>1. c \in members[u] /\ c \in Obj
    BY <1>1, <1>2, <1>4 DEF TypeOK
  <2>2. PICK T \in SUBSET Obj : T = Branch({c}) \cup {o}
    BY DEF Branch
  <2>3. c \in T /\ u \notin T
    BY <1>2, <2>1, <2>2, StartsBranch DEF Acyclic
  <2>4. \A v \in Table \cap T : members'[v] \subseteq T
    BY <2>1, <2>2, BranchClosed DEF Closed
  <2>5. QED
    BY <2>3, <2>4, OutsideAfter
<1>5. QED
  BY <1>3, <1>4

\* A table no one lists is in no table below the root, and the root is not
\* below it: what is below the root is not below it either.
LEMMA ApartFromRoot ==
  ASSUME TypeOK, Links, RuledListItems, NEW o \in Table \ {Root},
         \A u \in TrueTable : o \notin members[u],
         NEW t \in Table, t \in Branch({Root})
  PROVE  t \notin Branch({o})
<1>1. /\ TrueTable \subseteq Table /\ Table \subseteq Obj /\ Root \in TrueTable
  BY DataBaseAssumption
<1> DEFINE T == Branch({Root}) \ (Branch({o}) \cap Table)
<1>2. T \in SUBSET Obj
  BY DEF Branch
<1>3. Root \in T
  <2>1. Root \notin Branch({o})
    BY <1>1, RootNotInBranch DEF Links
  <2>2. QED
    BY <1>1, <2>1, StartsBranch
<1>4. ASSUME NEW u \in Table \cap T, NEW x \in members[u], x \in Branch({o}) \cap Table
      PROVE  FALSE
  <2>1. u \in TrueTable
    BY <1>4 DEF RuledListItems, RuledTable
  <2>2. x # o
    BY <1>4, <2>1
  <2>3. PICK v \in Table \cap Branch({o}) : x \in members[v]
    BY <1>1, <1>4, <2>2, ListedInBranch
  <2>4. v \in TrueTable
    BY <1>4, <2>3 DEF RuledListItems, RuledTable
  <2>5. pp[x] = u /\ pp[x] = v
    BY <1>4, <2>1, <2>3, <2>4 DEF Links, VerifyTable
  <2>6. QED
    BY <1>4, <2>3, <2>5
<1>5. Closed(T)
  <2>1. \A u \in Table \cap T : members[u] \subseteq Branch({Root})
    BY <1>1, BranchClosed DEF Closed
  <2>2. QED
    BY <1>4, <2>1 DEF Closed
<1>6. Branch({Root}) \subseteq T
  BY <1>2, <1>3, <1>5, InClosed
<1>7. QED
  BY <1>6
-----------------------------------------------------------------------------
(* The open database.                                                      *)

\* A table that hangs on the root has a parent, the root excepted.
LEMMA HangsOnRoot ==
  ASSUME TypeOK, Links, RuledListItems, NEW t \in Table, t \in Branch({Root}), t # Root
  PROVE  pp[t] # NULL
<1>1. /\ TrueTable \subseteq Table /\ Table \subseteq Obj /\ NULL \notin Obj
      /\ Root \in TrueTable
  BY DataBaseAssumption
<1>2. PICK u \in Table \cap Branch({Root}) : t \in members[u]
  BY <1>1, ListedInBranch
<1>3. u \in TrueTable
  BY <1>2 DEF RuledListItems, RuledTable
<1>4. QED
  BY <1>1, <1>2, <1>3 DEF Links, VerifyTable

\* An orphan is either on its way or was never inserted.
LEMMA OrphanKinds ==
  ASSUME IInv, phase = "open", NEW x \in Orphans
  PROVE  x # Root /\ (pp[x] = NULL \/ x \in Floating)
<1>1. TrueTable \subseteq Table /\ Table \subseteq Obj
  BY DataBaseAssumption
<1>2. x \in Obj /\ x # Root
  BY DEF IInv, TypeOK, Undone, Orphans
<1>3. CASE pp[x] # NULL
  <2>1. pp[x] \in TrueTable /\ x \notin members[pp[x]]
    BY <1>2, <1>3 DEF IInv, TypeOK, Links, ListedIsLocked, Orphans
  <2>2. QED
    BY <1>1, <1>2, <2>1 DEF Floating, Orphans
<1>4. QED
  BY <1>2, <1>3

\* The tables in a branch of objects that were never inserted are these.
LEMMA NeverInserted ==
  ASSUME TypeOK, Links, RuledListItems, Rooted,
         NEW S \in SUBSET (Obj \ {Root}), \A x \in S : pp[x] = NULL
  PROVE  Branch(S) \cap Table \subseteq S
<1>1. /\ TrueTable \subseteq Table /\ Table \subseteq Obj /\ NULL \notin Obj
  BY DataBaseAssumption
<1> DEFINE T == S \cup (Obj \ Table)
<1>2. ASSUME NEW t \in Table \cap T, NEW x \in members[t]
      PROVE  x \in T
  <2>1. t \in S /\ x \in Obj /\ pp[t] = NULL /\ t # Root
    BY <1>2 DEF TypeOK
  <2>2. CASE t \in TrueTable
    <3>1. pp[x] = t
      BY <1>2, <2>2 DEF Links, VerifyTable
    <3>2. QED
      BY <1>1, <2>1, <3>1 DEF Rooted
  <2>3. CASE t \notin TrueTable
    BY <1>2, <2>1, <2>3 DEF RuledListItems, RuledTable
  <2>4. QED
    BY <2>2, <2>3
<1>3. Closed(T)
  BY <1>2 DEF Closed
<1>4. Branch(S) \subseteq T
  BY <1>3, InClosed
<1>5. QED
  BY <1>4

\* An insertion makes no cycle: the table hangs on the root, and what is
\* inserted was removed before.
LEMMA InsertAcyclic ==
  ASSUME IInv, Forest, NEW t \in Table, NEW o \in Obj, Insert(t, o)
  PROVE  Acyclic'
<1>1. /\ TrueTable \subseteq Table /\ Table \subseteq Obj /\ Root \in TrueTable
  BY DataBaseAssumption
<1>2. TypeOK /\ Links /\ Acyclic /\ RuledListItems
  BY DEF IInv, Forest
<1>3. /\ t \in TrueTable /\ o # Root /\ t \in Branch({Root})
      /\ \A other \in TrueTable \ {t} : o \notin members[other]
  BY DEF Insert, CallerInTree
<1>4. CASE o \in members[t]
  BY <1>2, <1>4, FewerMembers DEF Insert
<1>5. CASE o \notin members[t]
  <2>1. \A u \in Table : members'[u] = IF u = t THEN members[u] \cup {o} ELSE members[u]
    BY <1>2, <1>5 DEF Insert, TypeOK
  <2>2. CASE o \notin Table
    BY <1>2, <2>1, <2>2, LeafListed
  <2>3. CASE o \in Table
    <3>1. t \notin Branch({o})
      BY <1>2, <1>3, <1>5, <2>3, ApartFromRoot
    <3>2. PICK B \in SUBSET Obj : B = Branch({o})
      BY DEF Branch
    <3>3. o \in B /\ t \notin B /\ \A v \in Table \cap B : members[v] \subseteq B
      BY <1>2, <3>1, <3>2, StartsBranch, BranchClosed DEF Closed
    <3>4. SUFFICES ASSUME NEW u \in TrueTable, NEW c \in members'[u]
                   PROVE  u \notin Branch({c})'
      BY DEF Acyclic
    <3>5. u \in Table
      BY <1>1
    <3>6. CASE c = o /\ u = t
      BY <2>1, <3>3, <3>6, OutsideAfter
    <3>7. CASE c \in members[u]
      <4>1. c \in Obj
        BY <1>2, <3>5, <3>7 DEF TypeOK
      <4>2. PICK C \in SUBSET Obj : C = Branch({c})
        BY DEF Branch
      <4>3. c \in C /\ u \notin C /\ \A v \in Table \cap C : members[v] \subseteq C
        BY <1>2, <3>7, <4>1, <4>2, StartsBranch, BranchClosed DEF Closed, Acyclic
      <4>4. CASE t \notin C
        BY <2>1, <4>3, <4>4, OutsideAfter
      <4>5. CASE t \in C
        <5>1. u \notin B
          <6>1. SUFFICES ASSUME u \in B PROVE FALSE
            OBVIOUS
          <6>2. c \in B
            BY <3>3, <3>5, <3>7, <6>1
          <6>3. Branch({c}) \subseteq B
            BY <3>3, <6>2, InClosed DEF Closed
          <6>4. QED
            BY <3>3, <4>2, <4>5, <6>3
        <5>2. PICK T \in SUBSET Obj : T = B \cup C
          OBVIOUS
        <5>3. c \in T /\ u \notin T /\ \A v \in Table \cap T : members'[v] \subseteq T
          BY <2>1, <3>3, <4>3, <5>1, <5>2
        <5>4. QED
          BY <5>3, OutsideAfter
      <4>6. QED
        BY <4>4, <4>5
    <3>8. QED
      BY <2>1, <3>5, <3>6, <3>7
  <2>4. QED
    BY <2>2, <2>3
<1>6. QED
  BY <1>4, <1>5
-----------------------------------------------------------------------------
(* Each operation preserves the forest.                                    *)

\* A new object points to nothing and nothing points to it.
LEMMA CreateObjectForest ==
  ASSUME IInv, Forest, NEW o \in Obj, CreateObject(o)
  PROVE  Forest'
<1>1. NULL \notin Table
  BY DataBaseAssumption
<1>2. /\ phase = "open" /\ o \notin alive /\ alive' = alive \cup {o}
      /\ UNCHANGED <<pp, stale, members, phase>>
  BY DEF CreateObject
<1>3. Acyclic'
  BY <1>2, FewerMembers DEF IInv, Forest
<1>4. Floating' \subseteq Floating
  BY <1>1, <1>2 DEF Floating, Forest, Open, DeadIsBare
<1>5. Open'
  BY <1>2, <1>4 DEF Forest, Open, DeadIsBare, OneFloating, Rooted
<1>6. QED
  BY <1>2, <1>3, <1>5 DEF Forest, RuledListItems, NoStale, Emptied, NoFreedTableUsed

\* What is inserted is no longer on its way, and hangs on the root.
LEMMA InsertForest ==
  ASSUME IInv, Forest, NEW t \in Table, NEW o \in Obj, Insert(t, o)
  PROVE  Forest'
<1>1. /\ TrueTable \subseteq Table /\ Table \subseteq Obj /\ NULL \notin Obj
  BY DataBaseAssumption
<1>2. /\ phase = "open" /\ UNCHANGED <<alive, phase>> /\ o \in alive /\ o # t
      /\ t \in TrueTable /\ t \in Branch({Root})
      /\ pp' = [pp EXCEPT ![o] = t] /\ stale' = stale \ {o}
  BY DEF Insert, SetParentTable, CallerInTree
<1>3. /\ TypeOK /\ Links /\ RuledListItems /\ DeadIsBare /\ OneFloating /\ Rooted
      /\ stale = {}
  BY <1>2 DEF IInv, Forest, Open, NoStale
<1>4. \A x \in Obj : pp'[x] = IF x = o THEN t ELSE pp[x]
  BY <1>2, <1>3 DEF TypeOK
<1>5. \A u \in Table : members'[u] = IF u = t THEN members[u] \cup {o} ELSE members[u]
  BY <1>3 DEF Insert, TypeOK
<1>6. Floating' \subseteq Floating
  BY <1>2, <1>3, <1>4, <1>5 DEF Floating, TypeOK
<1>7. t = Root \/ pp[t] # NULL
  BY <1>2, <1>3, HangsOnRoot
<1>8. Rooted'
  <2>1. SUFFICES ASSUME NEW x \in Obj, pp'[x] \notin {NULL, Root} PROVE pp'[pp'[x]] # NULL
    BY DEF Rooted
  <2>2. pp'[x] \in Obj
    BY <1>1, <1>2, <1>3, <1>4, <2>1 DEF TypeOK
  <2>3. CASE x = o
    BY <1>1, <1>2, <1>4, <1>7, <2>1, <2>3
  <2>4. CASE x # o
    BY <1>1, <1>3, <1>4, <2>1, <2>2, <2>4 DEF Rooted
  <2>5. QED
    BY <2>3, <2>4
<1>9. DeadIsBare' /\ OneFloating'
  BY <1>2, <1>3, <1>4, <1>6 DEF DeadIsBare, OneFloating
<1>10. RuledListItems'
  BY <1>2, <1>3, <1>5 DEF RuledListItems, RuledTable
<1>11. QED
  BY <1>2, <1>3, <1>8, <1>9, <1>10, InsertAcyclic
     DEF Forest, Open, NoStale, Emptied, NoFreedTableUsed

\* A catalogue lists one more product; no parent changes.
LEMMA AddItemForest ==
  ASSUME IInv, Forest, NEW t \in Table, NEW o \in Obj, AddItem(t, o)
  PROVE  Forest'
<1>1. TypeOK
  BY DEF IInv
<1>2. /\ phase = "open" /\ UNCHANGED <<alive, pp, stale, phase>> /\ o \notin Table
      /\ \A u \in Table : members'[u] = IF u = t THEN members[u] \cup {o} ELSE members[u]
  BY <1>1 DEF AddItem, TypeOK
<1>3. Acyclic'
  BY <1>1, <1>2, LeafListed DEF Forest
<1>4. Floating' \subseteq Floating
  BY <1>2 DEF Floating
<1>5. RuledListItems'
  BY <1>2 DEF Forest, RuledListItems, RuledTable
<1>6. QED
  BY <1>2, <1>3, <1>4, <1>5 DEF Forest, Open, DeadIsBare, OneFloating, Rooted, NoStale, Emptied,
       NoFreedTableUsed

\* What is removed becomes the one object on its way.
LEMMA RemoveForest ==
  ASSUME IInv, Forest, NEW t \in Table, NEW o \in Obj, Remove(t, o)
  PROVE  Forest'
<1>1. TypeOK
  BY DEF IInv
<1>2. /\ phase = "open" /\ UNCHANGED <<alive, pp, stale, phase>> /\ Floating \subseteq {o}
      /\ \A u \in Table : members'[u] = IF u = t THEN members[u] \ {o} ELSE members[u]
  BY <1>1 DEF Remove, TypeOK, CallerOneInFlight
<1>3. Acyclic'
  BY <1>1, <1>2, FewerMembers DEF Forest
<1>4. Floating' \subseteq {o}
  BY <1>2 DEF Floating
<1>5. RuledListItems'
  BY <1>2 DEF Forest, RuledListItems, RuledTable
<1>6. QED
  BY <1>2, <1>3, <1>4, <1>5 DEF Forest, Open, DeadIsBare, OneFloating, Rooted, NoStale, Emptied,
       NoFreedTableUsed

\* Nothing that survives points to what is freed, so no pointer becomes stale.
LEMMA FreeForest ==
  ASSUME IInv, Forest, phase = "open", UNCHANGED phase, NEW S \in SUBSET Obj, Free(S),
         \A y \in alive \ S : pp[y] \notin S,
         members' = [t \in Table |-> IF t \in S THEN {} ELSE members[t] \ S]
  PROVE  Forest'
<1>1. /\ TrueTable \subseteq Table /\ Table \subseteq Obj /\ NULL \notin Obj
  BY DataBaseAssumption
<1>2. TypeOK /\ DeadIsBare /\ OneFloating /\ Rooted /\ stale = {} /\ RuledListItems
  BY DEF IInv, Forest, Open, NoStale
<1>3. \A x \in Obj : pp'[x] = IF x \in S THEN NULL ELSE pp[x]
  BY DEF Free
<1>4. Floating' \subseteq Floating
  <2>1. SUFFICES ASSUME NEW x \in alive', pp'[x] \in Table, x \notin members'[pp'[x]]
                 PROVE  x \in Floating
    BY DEF Floating
  <2>2. x \in alive \ S /\ x \in Obj /\ pp'[x] = pp[x] /\ pp[x] \notin S
    BY <1>2, <1>3 DEF Free, TypeOK
  <2>3. QED
    BY <2>1, <2>2 DEF Floating
<1>5. DeadIsBare'
  BY <1>2, <1>3 DEF DeadIsBare, Free
<1>6. Rooted'
  <2>1. SUFFICES ASSUME NEW x \in Obj, pp'[x] \notin {NULL, Root} PROVE pp'[pp'[x]] # NULL
    BY DEF Rooted
  <2>2. x \notin S /\ pp'[x] = pp[x] /\ x \in alive
    BY <1>2, <1>3, <2>1 DEF DeadIsBare
  <2>3. pp[x] \in Obj \ S
    BY <1>1, <1>2, <2>1, <2>2 DEF TypeOK
  <2>4. QED
    BY <1>2, <1>3, <2>1, <2>2, <2>3 DEF Rooted
<1>7. stale' = {}
  BY <1>2 DEF Free
<1>8. Acyclic' /\ RuledListItems'
  BY <1>2, FewerMembers DEF Forest, RuledListItems, RuledTable
<1>9. QED
  BY <1>2, <1>4, <1>5, <1>6, <1>7, <1>8
     DEF Forest, Open, OneFloating, NoStale, Emptied, NoFreedTableUsed

\* Nothing points to what DeleteObject frees.
LEMMA DeleteObjectForest ==
  ASSUME IInv, Forest, NEW o \in Obj, DeleteObject(o)
  PROVE  Forest'
<1>1. /\ TrueTable \subseteq Table /\ Table \subseteq Obj /\ NULL \notin Obj
  BY DataBaseAssumption
<1>2. /\ phase = "open" /\ UNCHANGED phase /\ owners[o] = {} /\ Floating \subseteq {o}
      /\ o \in TrueTable => members[o] = {}
      /\ \A t \in RuledTable : o \notin members[t]
      /\ Free({o}) /\ members' = [t \in Table |-> IF t = o THEN {} ELSE members[t]]
  BY DEF DeleteObject, CallerOneInFlight
<1>3. TypeOK /\ Links /\ o # Root
  BY <1>2 DEF IInv, Undone
<1>4. ASSUME NEW y \in alive \ {o}, pp[y] = o
      PROVE  FALSE
  <2>1. o \in TrueTable
    BY <1>1, <1>3, <1>4 DEF TypeOK
  <2>2. y \in Floating
    BY <1>1, <1>2, <1>4, <2>1 DEF Floating
  <2>3. QED
    BY <1>2, <1>4, <2>2
<1>5. \A t \in Table : o \notin members[t]
  BY <1>1, <1>2, <1>3 DEF Links, ListedIsLocked, RuledTable
<1>6. members' = [t \in Table |-> IF t \in {o} THEN {} ELSE members[t] \ {o}]
  BY <1>2, <1>5
<1>7. QED
  BY <1>2, <1>4, <1>6, FreeForest

\* A whole branch goes, or the program does.
LEMMA FreeBranchForest ==
  ASSUME IInv, Forest, phase = "open", NEW S \in SUBSET Obj, CallerSparesRuled(S),
         \A y \in alive \ S : pp[y] \notin S, FreeBranch(S)
  PROVE  Forest'
<1>1. CASE /\ Free(S)
           /\ members' = [t \in Table |-> IF t \in S THEN {}
                                          ELSE members[t] \ {o \in S : pp[o] = t}]
           /\ UNCHANGED <<phase, remaining>>
  <2>1. \A t \in Table \ S : members[t] \ {o \in S : pp[o] = t} = members[t] \ S
    <3>1. SUFFICES ASSUME NEW t \in Table \ S, NEW o \in members[t], o \in S
                   PROVE  pp[o] = t
      OBVIOUS
    <3>2. t \in TrueTable
      BY <3>1 DEF CallerSparesRuled, RuledTable
    <3>3. QED
      BY <3>2 DEF IInv, Links, VerifyTable
  <2>2. members' = [t \in Table |-> IF t \in S THEN {} ELSE members[t] \ S]
    BY <1>1, <2>1
  <2>3. QED
    BY <1>1, <2>2, FreeForest
<1>2. CASE phase' = "freedItemRead" /\ UNCHANGED <<objects, remaining>>
  <2>1. Acyclic' /\ RuledListItems' /\ stale' = {}
    BY <1>2, FewerMembers DEF IInv, Forest, RuledListItems, NoStale, objects
  <2>2. QED
    BY <1>2, <2>1 DEF Forest, Open, NoStale, Emptied, NoFreedTableUsed
<1>3. QED
  BY <1>1, <1>2 DEF FreeBranch

\* Whatever points into the branch is in it, or would be on its way.
LEMMA DeleteObjectRecursiveForest ==
  ASSUME IInv, Forest, NEW o \in Obj, DeleteObjectRecursive(o)
  PROVE  Forest'
<1>1. /\ TrueTable \subseteq Table /\ Table \subseteq Obj /\ NULL \notin Obj
  BY DataBaseAssumption
<1>2. /\ phase = "open" /\ stale = {} /\ TypeOK
      /\ Floating \subseteq {o} /\ CallerSparesRuled(Branch({o}))
      /\ FreeBranch(Branch({o}))
  BY DEF DeleteObjectRecursive, CallerOneInFlight, IInv, Forest, NoStale
<1>3. o \in Branch({o}) /\ Branch({o}) \in SUBSET Obj /\ Closed(Branch({o}))
  BY <1>2, StartsBranch, BranchClosed
<1>4. ASSUME NEW y \in alive \ Branch({o}), pp[y] \in Branch({o})
      PROVE  FALSE
  <2>1. pp[y] \in Table
    BY <1>1, <1>2, <1>3, <1>4 DEF TypeOK
  <2>2. y \in Floating
    BY <1>3, <1>4, <2>1 DEF Closed, Floating
  <2>3. QED
    BY <1>2, <1>3, <1>4, <2>2
<1>5. QED
  BY <1>2, <1>3, <1>4, FreeBranchForest
\* What VerifyDataSetIntegrity deletes.  An orphan on its way is the only object
\* on its way; the others were never inserted, and nothing points to those.
LEMMA OrphansApart ==
  ASSUME IInv, Forest, phase = "open", CallerSparesRuled(Branch(Orphans))
  PROVE  ~Entangled /\ \A y \in alive \ Branch(Orphans) : pp[y] \notin Branch(Orphans)
<1>1. /\ TrueTable \subseteq Table /\ Table \subseteq Obj /\ NULL \notin Obj
  BY DataBaseAssumption
<1>2. /\ TypeOK /\ Links /\ RuledListItems /\ OneFloating /\ Rooted
      /\ Orphans \in SUBSET (Obj \ {Root})
  BY OrphanKinds DEF IInv, Forest, Open, TypeOK, Orphans
<1>3. ASSUME NEW x \in Orphans, NEW y \in Orphans, x # y, x \in Branch({y})
      PROVE  FALSE
  <2>1. PICK v \in Table \cap Branch({y}) : x \in members[v]
    BY <1>2, <1>3, ListedInBranch
  <2>2. v \notin TrueTable
    BY <1>2, <1>3, <2>1 DEF Links, ListedIsLocked, Orphans
  <2>3. v \in Branch(Orphans)
    BY <1>2, <1>3, <2>1, InClosed, StartsBranch, BranchClosed
  <2>4. QED
    BY <2>1, <2>2, <2>3 DEF CallerSparesRuled, RuledTable
<1>4. ASSUME NEW x \in Orphans, NEW y \in Orphans, x # y, pp[x] \in Branch({y})
      PROVE  FALSE
  <2>1. pp[x] \in Table /\ pp[x] # NULL
    BY <1>1, <1>2, <1>4 DEF TypeOK, Branch
  <2>2. x \in Floating
    BY <1>4, <2>1, OrphanKinds
  <2>3. pp[y] = NULL
    BY <1>2, <1>4, <2>2, OrphanKinds DEF OneFloating
  <2>4. pp[x] = y
    BY <1>2, <1>4, <2>1, <2>3, NeverInserted
  <2>5. QED
    BY <1>1, <1>2, <1>4, <2>3, <2>4 DEF Rooted
<1>5. ASSUME NEW y \in alive \ Branch(Orphans), pp[y] \in Branch(Orphans)
      PROVE  FALSE
  <2>1. y \in Obj /\ pp[y] \in Table
    BY <1>1, <1>2, <1>5 DEF TypeOK, Branch
  <2>2. y \in Floating
    BY <1>2, <1>5, <2>1, BranchClosed DEF Closed, Floating
  <2>3. y \notin Orphans
    BY <1>2, <1>5, StartsBranch
  <2>4. \A x \in Orphans : pp[x] = NULL
    BY <1>2, <2>2, <2>3, OrphanKinds DEF OneFloating
  <2>5. pp[y] \in Orphans
    BY <1>2, <1>5, <2>1, <2>4, NeverInserted
  <2>6. QED
    BY <1>1, <1>2, <2>1, <2>4, <2>5 DEF Rooted
<1>6. QED
  BY <1>3, <1>4, <1>5 DEF Entangled

\* The branches of the orphans go.
LEMMA VerifyDataSetIntegrityForest ==
  ASSUME IInv, Forest, VerifyDataSetIntegrity
  PROVE  Forest'
<1>1. /\ phase = "open" /\ stale = {} /\ CallerSparesRuled(Branch(Orphans))
  BY DEF VerifyDataSetIntegrity, Forest, NoStale
<1>2. FreeBranch(Branch(Orphans)) /\ \A y \in alive \ Branch(Orphans) : pp[y] \notin Branch(Orphans)
  BY <1>1, OrphansApart DEF VerifyDataSetIntegrity
<1>3. Branch(Orphans) \in SUBSET Obj
  BY DEF Branch
<1>4. QED
  BY <1>1, <1>2, <1>3, FreeBranchForest

\* Locks are no links between tables, and the destruction only removes.
LEMMA OthersForest ==
  ASSUME IInv, Forest,
         \/ \E o \in Obj, l \in Locker : Lock(o, l) \/ Unlock(o, l)
         \/ MakeEmpty \/ UnlockRoot \/ ListEmptied
         \/ \E o \in Obj : OnDatabaseDestroy(o)
         \/ UNCHANGED vars
  PROVE  Forest'
<1>1. /\ UNCHANGED <<alive, pp, stale>>
      /\ \A t \in Table : members'[t] \subseteq members[t]
      /\ \/ phase' = phase /\ (phase = "warn" \/ members' = members)
         \/ phase = "open" /\ phase' = "warn"
         \/ phase' = "free"
         \/ phase = "free" /\ phase' = "closed"
  BY DEF Lock, Unlock, MakeEmpty, UnlockRoot, ListEmptied, OnDatabaseDestroy, vars, objects
<1>2. Acyclic' /\ RuledListItems'
  BY <1>1, FewerMembers DEF IInv, Forest, RuledListItems, RuledTable
<1>3. Open'
  <2>1. SUFFICES ASSUME phase' = "open" PROVE Open'
    BY DEF Open
  <2>2. phase = "open" /\ members' = members
    BY <1>1, <2>1
  <2>3. QED
    BY <1>1, <2>2 DEF Forest, Open, DeadIsBare, OneFloating, Floating, Rooted
<1>4. Emptied'
  BY <1>1 DEF IInv, UnlinkedBeforeFree, Forest, Emptied
<1>5. QED
  BY <1>1, <1>2, <1>3, <1>4 DEF Forest, NoStale, NoFreedTableUsed

\* While objects are freed one by one nothing is listed any more.
LEMMA DeleteInMakeEmptyForest ==
  ASSUME IInv, Forest, NEW o \in Obj, DeleteInMakeEmpty(o)
  PROVE  Forest'
<1>1. phase = "free" /\ \A t \in Table : members[t] = {}
  BY DEF DeleteInMakeEmpty, IInv, UnlinkedBeforeFree
<1>2. UNCHANGED phase /\ members' = [t \in Table |-> IF t = o THEN {} ELSE members[t]]
  BY <1>1 DEF DeleteInMakeEmpty
<1>3. Acyclic' /\ RuledListItems'
  BY <1>1, <1>2, FewerMembers DEF IInv, Forest, RuledListItems, RuledTable
<1>4. QED
  BY <1>1, <1>2, <1>3 DEF Forest, Open, NoStale, Emptied, NoFreedTableUsed

\* A new database has no links.
LEMMA InitForest ==
  ASSUME Init
  PROVE  Forest
<1>1. /\ TrueTable \subseteq Table /\ Table \subseteq Obj /\ NULL \notin Obj
      /\ Root \in TrueTable
  BY DataBaseAssumption
<1>2. \A t \in Table : members[t] = {}
  BY DEF Init
<1>3. Acyclic /\ RuledListItems
  BY <1>1, <1>2 DEF Acyclic, RuledListItems, RuledTable
<1>4. Floating = {}
  <2>1. \A o \in alive : pp[o] = NULL
    BY <1>1 DEF Init
  <2>2. QED
    BY <1>1, <2>1 DEF Floating
<1>5. QED
  BY <1>3, <1>4 DEF Init, Forest, Open, DeadIsBare, OneFloating, Rooted, NoStale, Emptied,
       NoFreedTableUsed

\* So has the next document's.
LEMMA ReopenForest ==
  ASSUME Reopen
  PROVE  Forest'
<1>1. /\ TrueTable \subseteq Table /\ Table \subseteq Obj /\ NULL \notin Obj
      /\ Root \in TrueTable
  BY DataBaseAssumption
<1>2. \A t \in Table : members'[t] = {}
  BY DEF Reopen, NewRoot
<1>3. Acyclic' /\ RuledListItems'
  BY <1>1, <1>2 DEF Acyclic, RuledListItems, RuledTable
<1>4. Floating' = {}
  <2>1. \A o \in alive' : pp'[o] = NULL
    BY <1>1 DEF Reopen, NewRoot
  <2>2. QED
    BY <1>1, <2>1 DEF Floating
<1>5. QED
  BY <1>3, <1>4 DEF Reopen, NewRoot, Forest, Open, DeadIsBare, OneFloating, Rooted, NoStale, Emptied,
       NoFreedTableUsed

-----------------------------------------------------------------------------
(* The theorems.                                                           *)

\* The forest holds in every behaviour.
THEOREM DataBaseForest == Spec => []Forest
<1>1. Init => Forest
  BY InitForest
<1>2. IInv /\ Forest /\ [Next]_vars => Forest'
  <2>1. SUFFICES ASSUME IInv, Forest, [Next]_vars PROVE Forest'
    OBVIOUS
  <2>2. ASSUME NEW o \in Obj,
               \/ CreateObject(o) \/ DeleteObject(o) \/ DeleteObjectRecursive(o)
               \/ DeleteInMakeEmpty(o)
        PROVE  Forest'
    BY <2>1, <2>2, CreateObjectForest, DeleteObjectForest, DeleteObjectRecursiveForest,
       DeleteInMakeEmptyForest
  <2>3. ASSUME NEW o \in Obj, NEW t \in Table, Insert(t, o) \/ AddItem(t, o) \/ Remove(t, o)
        PROVE  Forest'
    BY <2>1, <2>3, InsertForest, AddItemForest, RemoveForest
  <2>4. CASE VerifyDataSetIntegrity
    BY <2>1, <2>4, VerifyDataSetIntegrityForest
  <2>5. CASE \/ \E o \in Obj, l \in Locker : Lock(o, l) \/ Unlock(o, l)
             \/ MakeEmpty \/ UnlockRoot \/ ListEmptied
             \/ \E o \in Obj : OnDatabaseDestroy(o)
             \/ UNCHANGED vars
    BY <2>1, <2>5, OthersForest
  <2>6. CASE Reopen
    BY <2>6, ReopenForest
  <2>7. QED
    BY <2>1, <2>2, <2>3, <2>4, <2>5, <2>6 DEF Next
<1>3. QED
  BY <1>1, <1>2, DataBaseInductive, PTL DEF Spec

\* No table is, through others, listed in itself: an insertion in a table that
\* hangs on the root cannot close a circle.
THEOREM DataBaseAcyclic == Spec => []Acyclic
<1>1. Forest => Acyclic
  BY DEF Forest
<1>2. QED
  BY <1>1, DataBaseForest, PTL

\* The PP of a listed object is a table that still exists: no deletion leaves a
\* listed object with a pointer to a table that was freed.
THEOREM DataBaseParentIsAlive == Spec => []ParentIsAlive
<1>1. IInv /\ Forest => ParentIsAlive
  <2>1. SUFFICES ASSUME IInv, Forest, stale # {}, NEW t \in Table PROVE members[t] = {}
    BY DEF ParentIsAlive, Listed
  <2>2. phase \in {"free", "closed"}
    BY <2>1 DEF IInv, TypeOK, Phase, Forest, NoStale, NoFreedTableUsed
  <2>3. QED
    BY <2>1, <2>2 DEF IInv, UnlinkedBeforeFree, Forest, Emptied
<1>2. QED
  BY <1>1, DataBaseInductive, DataBaseForest, PTL

\* No operation calls a method of a table that was freed, as long as callers
\* insert or delete what they removed before they remove something else.
THEOREM DataBaseNoFreedTableUsed == Spec => []NoFreedTableUsed
<1>1. Forest => NoFreedTableUsed
  BY DEF Forest
<1>2. QED
  BY <1>1, DataBaseForest, PTL

\* Neither the list of a table nor the PP of a listed object leads to freed
\* memory, whatever was deleted and removed before.
THEOREM DataBaseNoDanglingLink == Spec => []NoDanglingLink
BY DataBaseListedIsAlive, DataBaseParentIsAlive, PTL DEF NoDanglingLink
-----------------------------------------------------------------------------
(* The database implements ObjectTree, one operation at a time.            *)

Closing == phase \in {"warn", "free", "closed"}

\* What MakeEmpty still has to free is what there is.
Counted == /\ phase = "free" => remaining = alive
           /\ phase = "closed" => alive = {}

LEMMA DataBaseCounted == Spec => []Counted
<1>1. Init => Counted
  BY DEF Init, Counted
<1>2. Counted /\ [Next]_vars => Counted'
  <2>1. SUFFICES ASSUME Counted, [Next]_vars PROVE Counted'
    OBVIOUS
  <2>2. CASE UNCHANGED vars
    BY <2>1, <2>2 DEF vars, objects, Counted
  <2>3. ASSUME NEW o \in Obj, \/ CreateObject(o) \/ DeleteObject(o) \/ DeleteObjectRecursive(o)
                              \/ OnDatabaseDestroy(o)
        PROVE  Counted'
    BY <2>1, <2>3 DEF Counted, CreateObject, DeleteObject, DeleteObjectRecursive, UseFreedTable,
         FreeBranch, OnDatabaseDestroy
  <2>4. ASSUME NEW o \in Obj, DeleteInMakeEmpty(o)
        PROVE  Counted'
    BY <2>1, <2>4 DEF Counted, DeleteInMakeEmpty, UseFreedTable, Free
  <2>5. ASSUME NEW o \in Obj, NEW t \in Table, Insert(t, o) \/ AddItem(t, o) \/ Remove(t, o)
        PROVE  Counted'
    BY <2>1, <2>5 DEF Counted, Insert, AddItem, Remove
  <2>6. ASSUME NEW o \in Obj, NEW l \in Locker, Lock(o, l) \/ Unlock(o, l)
        PROVE  Counted'
    BY <2>1, <2>6 DEF Counted, Lock, Unlock
  <2>7. CASE VerifyDataSetIntegrity
    BY <2>1, <2>7 DEF Counted, VerifyDataSetIntegrity, UseFreedTable, FreeBranch
  <2>8. CASE MakeEmpty \/ UnlockRoot \/ ListEmptied \/ Reopen
    BY <2>1, <2>8 DEF Counted, MakeEmpty, UnlockRoot, ListEmptied, Reopen, NewRoot, objects
  <2>9. QED
    BY <2>1, <2>2, <2>3, <2>4, <2>5, <2>6, <2>7, <2>8 DEF Next
<1>3. QED
  BY <1>1, <1>2, PTL DEF Spec

\* What hangs under a table is what it lists.
LEMMA HangsUnder ==
  ASSUME TypeOK, VerifyTable, NEW o \in Obj
  PROVE  /\ ParentOf(o) \in TrueTable \cup {NULL}
         /\ \A t \in TrueTable : o \in members[t] <=> ParentOf(o) = t
<1>1. TrueTable \subseteq Table /\ NULL \notin TrueTable
  BY DataBaseAssumption
<1>2. pp[o] \in TrueTable \cup {NULL}
  BY DEF TypeOK
<1>3. ASSUME NEW t \in TrueTable, o \in members[t]
      PROVE  ParentOf(o) = t
  BY <1>1, <1>3 DEF VerifyTable, ParentOf
<1>4. QED
  BY <1>1, <1>2, <1>3 DEF ParentOf

\* Downwards in the tree is down the lists of the true tables.
LEMMA DownTheLists ==
  ASSUME TypeOK, VerifyTable, NEW T \in SUBSET Obj
  PROVE  Tree!Downward(T) <=> \A t \in TrueTable \cap T : members[t] \subseteq T
<1>1. TrueTable \subseteq Table /\ Table \subseteq Obj /\ NULL \notin Obj
  BY DataBaseAssumption
<1>2. Tree!Downward(T) <=> \A o \in Obj : ParentOf(o) \in T => o \in T
  BY DEF Tree!Downward
<1>3. ASSUME \A o \in Obj : ParentOf(o) \in T => o \in T, NEW t \in TrueTable \cap T,
             NEW o \in members[t]
      PROVE  o \in T
  BY <1>1, <1>3, HangsUnder DEF TypeOK
<1>4. ASSUME \A t \in TrueTable \cap T : members[t] \subseteq T, NEW o \in Obj, ParentOf(o) \in T
      PROVE  o \in T
  BY <1>1, <1>4, HangsUnder
<1>5. QED
  BY <1>2, <1>3, <1>4

\* What is below in the tree is in the branch, ...
LEMMA BelowInBranch ==
  ASSUME TypeOK, VerifyTable, NEW S \in SUBSET Obj
  PROVE  Tree!Below(S) \subseteq Branch(S)
<1>1. TrueTable \subseteq Table
  BY DataBaseAssumption
<1>2. \A T \in SUBSET Obj : Closed(T) => Tree!Downward(T)
  BY <1>1, DownTheLists DEF Closed
<1>3. QED
  BY <1>2 DEF Tree!Below, Branch

\* ... and is all of it where the catalogue tables of the branch are empty.
LEMMA BranchIsBelow ==
  ASSUME TypeOK, VerifyTable, NEW S \in SUBSET Obj, CallerSparesRuled(Branch(S))
  PROVE  Tree!Below(S) = Branch(S)
<1>1. TrueTable \subseteq Table
  BY DataBaseAssumption
<1>2. ASSUME NEW T \in SUBSET Obj, S \subseteq T, Tree!Downward(T)
      PROVE  Branch(S) \subseteq T
  <2> DEFINE U == T \cap Branch(S)
  <2>1. Closed(U)
    <3>1. SUFFICES ASSUME NEW t \in Table \cap U PROVE members[t] \subseteq U
      BY DEF Closed
    <3>2. members[t] \subseteq Branch(S)
      BY BranchClosed DEF Closed
    <3>3. CASE t \in TrueTable
      BY <1>2, <3>2, <3>3, DownTheLists
    <3>4. CASE t \notin TrueTable
      BY <3>4 DEF CallerSparesRuled, RuledTable
    <3>5. QED
      BY <3>3, <3>4
  <2>2. S \in SUBSET U /\ U \in SUBSET Obj
    BY <1>2, StartsBranch
  <2>3. QED
    BY <2>1, <2>2, InClosed
<1>3. Branch(S) \subseteq Tree!Below(S)
  BY <1>2 DEF Tree!Below, Branch
<1>4. QED
  BY <1>3, BelowInBranch

\* What nothing keeps in the tree has no owner.
LEMMA LooseAreOrphans ==
  ASSUME TypeOK, Links, Undone, phase = "open"
  PROVE  Tree!Loose = Orphans
<1>1. TrueTable \subseteq Table /\ Table \subseteq Obj /\ NULL \notin Obj /\ Root \in Obj
  BY DataBaseAssumption
<1>2. Root \notin Orphans
  BY DEF Undone, Orphans
<1>3. ASSUME NEW o \in alive \ {Root}
      PROVE  owners[o] = {} <=> ParentOf(o) = NULL /\ owners[o] \cap Locker = {}
  <2>1. o \in Obj \ {Root} /\ owners[o] \subseteq TrueTable \cup Locker
    BY <1>3 DEF TypeOK, Links, OwnerKinds
  <2>2. \A t \in TrueTable : t \in owners[o] <=> ParentOf(o) = t
    BY <2>1, HangsUnder DEF Links, ListedIsLocked
  <2>3. ParentOf(o) \in TrueTable \cup {NULL} /\ NULL \notin TrueTable
    BY <1>1, <2>1, HangsUnder DEF Links
  <2>4. QED
    BY <2>1, <2>2, <2>3
<1>4. \A o \in alive : o \in Obj
  BY DEF TypeOK
<1>5. Tree!Loose = {o \in alive \ {Root} : ParentOf(o) = NULL /\ owners[o] \cap Locker = {}}
  BY <1>4 DEF Tree!Loose
<1>6. QED
  BY <1>2, <1>3, <1>5 DEF Orphans

\* Freeing what lists nothing else takes it from the tree, and only it.
LEMMA FreeTakes ==
  ASSUME TypeOK, VerifyTable, NEW S \in SUBSET Obj, Free(S), UNCHANGED phase,
         \A t \in TrueTable \cap S : members[t] \subseteq S,
         members' = [t \in Table |-> IF t \in S THEN {} ELSE members[t] \ S]
  PROVE  Tree!Take(S)
<1>1. TrueTable \subseteq Table /\ Table \subseteq Obj /\ NULL \notin Obj /\ Locker \cap Table = {}
  BY DataBaseAssumption
<1>2. ASSUME NEW o \in Obj
      PROVE  ParentOf(o)' = IF o \in S THEN NULL ELSE ParentOf(o)
  <2>1. pp'[o] = IF o \in S THEN NULL ELSE pp[o]
    BY DEF Free
  <2>2. CASE o \in S
    BY <1>1, <2>1, <2>2 DEF ParentOf
  <2>3. CASE o \notin S /\ pp[o] \in Table
    <3>1. pp[o] \in TrueTable
      BY <1>1, <2>3 DEF TypeOK
    <3>2. o \in members'[pp[o]] <=> o \in members[pp[o]]
      BY <2>3, <3>1
    <3>3. QED
      BY <2>1, <2>3, <3>2 DEF ParentOf
  <2>4. CASE o \notin S /\ pp[o] \notin Table
    BY <2>1, <2>4 DEF ParentOf
  <2>5. QED
    BY <2>2, <2>3, <2>4
<1>3. ASSUME NEW o \in Obj
      PROVE  owners'[o] \cap Locker = IF o \in S THEN {} ELSE owners[o] \cap Locker
  BY <1>1 DEF Free
<1>4. [o \in Obj |-> ParentOf(o)]' = [o \in Obj |-> IF o \in S THEN NULL ELSE ParentOf(o)]
  BY <1>2
<1>5. [o \in Obj |-> owners[o] \cap Locker]'
        = [o \in Obj |-> IF o \in S THEN {} ELSE owners[o] \cap Locker]
  BY <1>3
<1>6. alive' = alive \ S
  BY DEF Free
<1>7. QED
  BY <1>4, <1>5, <1>6 DEF Tree!Take
-----------------------------------------------------------------------------
(* Each operation is a step of the trees, or none.                         *)

TreeStep == Tree!Next \/ UNCHANGED Tree!vars

\* Nothing happens to the trees when no object comes or goes, no parent changes
\* and products hold what they held.
LEMMA TreeStays ==
  ASSUME UNCHANGED alive, Closing' = Closing,
         \A o \in Obj : ParentOf(o)' = ParentOf(o),
         \A o \in Obj : owners'[o] \cap Locker = owners[o] \cap Locker
  PROVE  TreeStep
<1>1. [o \in Obj |-> ParentOf(o)]' = [o \in Obj |-> ParentOf(o)]
  OBVIOUS
<1>2. [o \in Obj |-> owners[o] \cap Locker]' = [o \in Obj |-> owners[o] \cap Locker]
  OBVIOUS
<1>3. QED
  BY <1>1, <1>2 DEF TreeStep, Tree!vars, Closing

LEMMA CreateObjectInTree ==
  ASSUME NEW o \in Obj, CreateObject(o)
  PROVE  TreeStep
<1>1. Tree!Create(o)
  BY DEF CreateObject, Tree!Create, ParentOf
<1>2. QED
  BY <1>1 DEF TreeStep, Tree!Next

\* What is inserted hung nowhere, and the table is not below it.
LEMMA InsertInTree ==
  ASSUME IInv, Forest, NEW t \in Table, NEW o \in Obj, Insert(t, o)
  PROVE  TreeStep
<1>1. /\ TrueTable \subseteq Table /\ Table \subseteq Obj /\ NULL \notin Obj
      /\ Locker \cap Table = {}
  BY DataBaseAssumption
<1>2. /\ phase = "open" /\ UNCHANGED <<alive, phase>> /\ o \in alive \ {Root, t}
      /\ t \in TrueTable \cap alive /\ t \in Branch({Root})
      /\ \A other \in TrueTable \ {t} : o \notin members[other]
      /\ pp' = [pp EXCEPT ![o] = t]
  BY DEF Insert, SetParentTable, CallerInTree
<1>3. TypeOK /\ Links /\ VerifyTable /\ RuledListItems
  BY DEF IInv, Links, Forest
<1>4. \A x \in Obj : pp'[x] = IF x = o THEN t ELSE pp[x]
  BY <1>2, <1>3 DEF TypeOK
<1>5. CASE o \in members[t]
  <2>1. UNCHANGED <<members, owners>>
    BY <1>5 DEF Insert
  <2>2. pp[o] = t
    BY <1>2, <1>3, <1>5 DEF VerifyTable
  <2>3. \A x \in Obj : ParentOf(x)' = ParentOf(x)
    BY <1>4, <2>1, <2>2 DEF ParentOf
  <2>4. QED
    BY <1>2, <2>1, <2>3, TreeStays DEF Closing
<1>6. CASE o \notin members[t]
  <2>1. /\ members' = [members EXCEPT ![t] = @ \cup {o}]
        /\ owners' = [owners EXCEPT ![o] = @ \cup {t}]
    BY <1>6 DEF Insert
  <2>2. \A u \in Table : members'[u] = IF u = t THEN members[u] \cup {o} ELSE members[u]
    BY <1>3, <2>1 DEF TypeOK
  <2>3. ParentOf(o) = NULL
    <3>1. \A u \in TrueTable : o \notin members[u]
      BY <1>2, <1>6
    <3>2. QED
      BY <1>1, <1>3, <3>1, HangsUnder
  <2>4. t \notin Tree!Below({o})
    <3>1. t \notin Branch({o})
      <4>1. CASE o \in Table
        BY <1>2, <1>3, <1>6, <4>1, ApartFromRoot
      <4>2. CASE o \notin Table
        <5>1. Closed({o}) /\ {o} \in SUBSET Obj /\ t \notin {o}
          BY <1>2, <4>2 DEF Closed
        <5>2. QED
          BY <5>1, InClosed
      <4>3. QED
        BY <4>1, <4>2
    <3>2. QED
      BY <1>3, <3>1, BelowInBranch
  <2>5. \A x \in Obj : ParentOf(x)' = IF x = o THEN t ELSE ParentOf(x)
    BY <1>2, <1>4, <2>2 DEF ParentOf
  <2>6. \A x \in Obj : owners'[x] \cap Locker = owners[x] \cap Locker
    BY <1>1, <1>3, <2>1 DEF TypeOK
  <2>7. [x \in Obj |-> ParentOf(x)]' = [[x \in Obj |-> ParentOf(x)] EXCEPT ![o] = t]
    BY <2>5
  <2>8. [x \in Obj |-> owners[x] \cap Locker]' = [x \in Obj |-> owners[x] \cap Locker]
    BY <2>6
  <2>9. Tree!Attach(o, t)
    BY <1>2, <2>3, <2>4, <2>7, <2>8 DEF Tree!Attach
  <2>10. QED
    BY <1>1, <2>9 DEF TreeStep, Tree!Next
<1>7. QED
  BY <1>5, <1>6

\* A catalogue is no part of the trees.
LEMMA AddItemInTree ==
  ASSUME IInv, NEW t \in Table, NEW o \in Obj, AddItem(t, o)
  PROVE  TreeStep
<1>1. NULL \notin Table
  BY DataBaseAssumption
<1>2. TypeOK /\ UNCHANGED <<alive, pp, owners, phase>> /\ t \notin TrueTable
  BY DEF IInv, AddItem, RuledTable
<1>3. \A u \in TrueTable : members'[u] = members[u]
  BY <1>2, DataBaseAssumption DEF AddItem, TypeOK
<1>4. \A x \in Obj : ParentOf(x)' = ParentOf(x)
  BY <1>1, <1>2, <1>3 DEF ParentOf, TypeOK
<1>5. QED
  BY <1>2, <1>4, TreeStays DEF Closing

\* What a true table listed hangs nowhere afterwards; the removal from a
\* catalogue, or of what is not listed, changes nothing.
LEMMA RemoveInTree ==
  ASSUME IInv, NEW t \in Table, NEW o \in Obj, Remove(t, o)
  PROVE  TreeStep
<1>1. /\ TrueTable \subseteq Table /\ NULL \notin Table /\ Locker \cap Table = {}
  BY DataBaseAssumption
<1>2. /\ TypeOK /\ VerifyTable /\ UNCHANGED <<alive, pp, phase>> /\ o \in alive /\ phase = "open"
      /\ members' = [members EXCEPT ![t] = @ \ {o}]
      /\ owners' = [owners EXCEPT ![o] = @ \ {t}]
  BY DEF IInv, Links, Remove
<1>3. \A x \in Obj : owners'[x] \cap Locker = owners[x] \cap Locker
  BY <1>1, <1>2 DEF TypeOK
<1>4. \A u \in Table : members'[u] = IF u = t THEN members[u] \ {o} ELSE members[u]
  BY <1>2 DEF TypeOK
<1>5. CASE ParentOf(o) = t
  <2>1. \A x \in Obj : ParentOf(x)' = IF x = o THEN NULL ELSE ParentOf(x)
    BY <1>1, <1>2, <1>4, <1>5 DEF ParentOf
  <2>2. [x \in Obj |-> ParentOf(x)]' = [[x \in Obj |-> ParentOf(x)] EXCEPT ![o] = NULL]
    BY <2>1
  <2>3. [x \in Obj |-> owners[x] \cap Locker]' = [x \in Obj |-> owners[x] \cap Locker]
    BY <1>3
  <2>4. Tree!Detach(o)
    BY <1>2, <2>2, <2>3 DEF Tree!Detach
  <2>5. QED
    BY <2>4 DEF TreeStep, Tree!Next
<1>6. CASE ParentOf(o) # t
  <2>1. \A x \in Obj : ParentOf(x)' = ParentOf(x)
    BY <1>1, <1>2, <1>4, <1>6 DEF ParentOf
  <2>2. QED
    BY <1>2, <1>3, <2>1, TreeStays DEF Closing
<1>7. QED
  BY <1>5, <1>6

\* Without force: nothing keeps the object and nothing hangs under it.
LEMMA DeleteObjectInTree ==
  ASSUME IInv, NEW o \in Obj, DeleteObject(o)
  PROVE  TreeStep
<1>1. /\ TrueTable \subseteq Table /\ Table \subseteq Obj
  BY DataBaseAssumption
<1>2. /\ phase = "open" /\ UNCHANGED phase /\ o \in Orphans /\ owners[o] = {}
      /\ o \in TrueTable => members[o] = {}
      /\ \A t \in RuledTable : o \notin members[t]
      /\ Free({o}) /\ members' = [t \in Table |-> IF t = o THEN {} ELSE members[t]]
  BY DEF DeleteObject, Orphans
<1>3. TypeOK /\ Links /\ VerifyTable /\ Undone
  BY DEF IInv, Links
<1>4. o # Root
  BY <1>2, <1>3 DEF Undone
<1>5. \A t \in Table : o \notin members[t]
  BY <1>1, <1>2, <1>3, <1>4 DEF Links, ListedIsLocked, RuledTable
<1>6. members' = [t \in Table |-> IF t \in {o} THEN {} ELSE members[t] \ {o}]
  BY <1>2, <1>5
<1>7. Tree!Take({o})
  BY <1>2, <1>3, <1>6, FreeTakes
<1>8. Tree!Below({o}) = {o}
  <2>1. Tree!Downward({o})
    BY <1>2, <1>3, DownTheLists
  <2>2. QED
    BY <2>1 DEF Tree!Below
<1>9. o \in Tree!Loose
  BY <1>2, <1>3, LooseAreOrphans
<1>10. Tree!Discard(o)
  BY <1>2, <1>7, <1>8, <1>9 DEF Tree!Discard
<1>11. QED
  BY <1>10 DEF TreeStep, Tree!Next

\* The recursive deletion of the branches of S, if the program survives it.
LEMMA FreeBranchInTree ==
  ASSUME IInv, phase = "open", NEW S \in SUBSET Obj, NEW B \in SUBSET Obj,
         B = Branch(S), CallerSparesRuled(B), FreeBranch(B)
  PROVE  B = Tree!Below(S) /\ (Tree!Take(B) \/ TreeStep)
<1>1. TypeOK /\ Links /\ VerifyTable
  BY DEF IInv, Links
<1>2. TrueTable \subseteq Table
  BY DataBaseAssumption
<1>3. CASE /\ Free(B)
           /\ members' = [t \in Table |-> IF t \in B THEN {}
                                          ELSE members[t] \ {o \in B : pp[o] = t}]
           /\ UNCHANGED <<phase, remaining>>
  <2>1. \A t \in Table \ B : members[t] \ {o \in B : pp[o] = t} = members[t] \ B
    <3>1. SUFFICES ASSUME NEW t \in Table \ B, NEW o \in members[t], o \in B
                   PROVE  pp[o] = t
      OBVIOUS
    <3>2. t \in TrueTable
      BY <3>1 DEF CallerSparesRuled, RuledTable
    <3>3. QED
      BY <1>1, <3>2 DEF VerifyTable
  <2>2. members' = [t \in Table |-> IF t \in B THEN {} ELSE members[t] \ B]
    BY <1>3, <2>1
  <2>3. \A t \in TrueTable \cap B : members[t] \subseteq B
    BY <1>1, <1>2, BranchClosed DEF Closed
  <2>4. QED
    BY <1>1, <1>3, <2>2, <2>3, FreeTakes, BranchIsBelow
<1>4. CASE phase' = "freedItemRead" /\ UNCHANGED <<objects, remaining>>
  <2>1. \A x \in Obj : ParentOf(x)' = ParentOf(x)
    BY <1>4 DEF objects, ParentOf
  <2>2. TreeStep
    BY <1>4, <2>1, TreeStays DEF objects, Closing
  <2>3. QED
    BY <1>1, <2>2, BranchIsBelow
<1>5. QED
  BY <1>3, <1>4 DEF FreeBranch

LEMMA DeleteObjectRecursiveInTree ==
  ASSUME IInv, Forest, NEW o \in Obj, DeleteObjectRecursive(o)
  PROVE  TreeStep
<1>1. PICK B \in SUBSET Obj : B = Branch({o})
  BY DEF Branch
<1>2. /\ phase = "open" /\ o \in alive \ {Root} /\ CallerSparesRuled(B) /\ FreeBranch(B)
  BY <1>1 DEF DeleteObjectRecursive, Forest, NoStale
<1>3. B = Tree!Below({o}) /\ (Tree!Take(B) \/ TreeStep)
  BY <1>1, <1>2, FreeBranchInTree
<1>4. Tree!Take(B) => Tree!Prune(o)
  BY <1>2, <1>3 DEF Tree!Prune, Tree!Take
<1>5. QED
  BY <1>3, <1>4 DEF TreeStep, Tree!Next

LEMMA VerifyDataSetIntegrityInTree ==
  ASSUME IInv, Forest, VerifyDataSetIntegrity
  PROVE  TreeStep
<1>1. PICK S \in SUBSET Obj : S = Orphans
  BY DEF IInv, TypeOK, Orphans
<1>2. PICK B \in SUBSET Obj : B = Branch(S)
  BY DEF Branch
<1>3. phase = "open" /\ CallerSparesRuled(B) /\ FreeBranch(B)
  BY <1>1, <1>2, OrphansApart DEF VerifyDataSetIntegrity, Forest, NoStale
<1>4. S = Tree!Loose
  BY <1>1, <1>3, LooseAreOrphans DEF IInv
<1>5. B = Tree!Below(S) /\ (Tree!Take(B) \/ TreeStep)
  BY <1>2, <1>3, FreeBranchInTree
<1>6. B = Tree!Below(Tree!Loose)
  BY <1>4, <1>5 DEF Tree!Below
<1>7. Tree!Take(B) => Tree!Tidy
  BY <1>3, <1>6 DEF Tree!Tidy, Tree!Take
<1>8. QED
  BY <1>5, <1>7 DEF TreeStep, Tree!Next

LEMMA LockInTree ==
  ASSUME IInv, NEW o \in Obj, NEW l \in Locker, Lock(o, l) \/ Unlock(o, l)
  PROVE  TreeStep
<1>1. /\ phase = "open" /\ o \in alive /\ l \in alive
      /\ UNCHANGED <<alive, pp, members, phase>>
  BY DEF Lock, Unlock
<1>2. owners \in [Obj -> SUBSET Obj]
  BY DEF IInv, TypeOK
<1>3. UNCHANGED [x \in Obj |-> ParentOf(x)]
  BY <1>1 DEF ParentOf
<1> DEFINE H == [x \in Obj |-> owners[x] \cap Locker]
<1>4. CASE Lock(o, l)
  <2>1. owners' = [owners EXCEPT ![o] = @ \cup {l}]
    BY <1>4 DEF Lock
  <2>2. \A x \in Obj : owners'[x] \cap Locker
                         = IF x = o THEN (owners[x] \cap Locker) \cup {l} ELSE owners[x] \cap Locker
    BY <1>2, <2>1
  <2>3. H' = [H EXCEPT ![o] = @ \cup {l}]
    BY <2>2
  <2>4. Tree!Hold(o, l)
    BY <1>1, <1>3, <2>3 DEF Tree!Hold
  <2>5. QED
    BY <2>4 DEF TreeStep, Tree!Next
<1>5. CASE Unlock(o, l)
  <2>1. owners' = [owners EXCEPT ![o] = @ \ {l}]
    BY <1>5 DEF Unlock
  <2>2. \A x \in Obj : owners'[x] \cap Locker
                         = IF x = o THEN (owners[x] \cap Locker) \ {l} ELSE owners[x] \cap Locker
    BY <1>2, <2>1
  <2>3. H' = [H EXCEPT ![o] = @ \ {l}]
    BY <2>2
  <2>4. Tree!Release(o, l)
    BY <1>1, <1>3, <2>3 DEF Tree!Release
  <2>5. QED
    BY <2>4 DEF TreeStep, Tree!Next
<1>6. QED
  BY <1>4, <1>5

-----------------------------------------------------------------------------
(* The destruction in the trees: first all let go, then all go.            *)

LEMMA MakeEmptyInTree ==
  ASSUME MakeEmpty
  PROVE  TreeStep
<1>1. Tree!GiveUp
  BY DEF MakeEmpty, objects, ParentOf, Tree!GiveUp
<1>2. QED
  BY <1>1 DEF TreeStep, Tree!Next

\* A table lets go of what it lists, a product of what it holds.
LEMMA OnDatabaseDestroyInTree ==
  ASSUME IInv, NEW o \in Obj, OnDatabaseDestroy(o)
  PROVE  TreeStep
<1>1. /\ TrueTable \subseteq Table /\ Table \subseteq Obj /\ NULL \notin Obj
      /\ Locker \cap Table = {}
  BY DataBaseAssumption
<1>2. /\ TypeOK /\ phase = "warn" /\ UNCHANGED <<alive, pp, phase>> /\ o \in alive
      /\ owners' = [x \in Obj |-> IF (o \in Table /\ x \in members[o]) \/ o \in Locker
                                  THEN owners[x] \ {o} ELSE owners[x]]
      /\ members' = [t \in Table |-> IF t = o THEN {} ELSE members[t]]
  BY DEF IInv, Undone, OnDatabaseDestroy
<1>3. \A x \in Obj : ParentOf(x)' = IF ParentOf(x) = o THEN NULL ELSE ParentOf(x)
  BY <1>1, <1>2 DEF ParentOf
<1>4. \A x \in Obj : owners'[x] \cap Locker = (owners[x] \cap Locker) \ {o}
  BY <1>1, <1>2
<1>5. [x \in Obj |-> ParentOf(x)]'
        = [x \in Obj |-> IF ParentOf(x) = o THEN NULL ELSE ParentOf(x)]
  BY <1>3
<1>6. [x \in Obj |-> owners[x] \cap Locker]' = [x \in Obj |-> (owners[x] \cap Locker) \ {o}]
  BY <1>4
<1>7. Tree!LetGo(o)
  BY <1>2, <1>5, <1>6 DEF Tree!LetGo
<1>8. QED
  BY <1>7 DEF TreeStep, Tree!Next

\* The lock of the root on itself is no holder.
LEMMA UnlockRootInTree ==
  ASSUME IInv, UnlockRoot \/ ListEmptied
  PROVE  TreeStep
<1>1. Root \notin Locker /\ Locker \subseteq Obj
  BY DataBaseAssumption
<1>2. /\ phase \in {"warn", "free"} /\ phase' \in {"free", "closed"}
      /\ UNCHANGED <<alive, pp, members>>
  BY DEF UnlockRoot, ListEmptied, objects
<1>3. \A x \in Obj : ParentOf(x)' = ParentOf(x)
  BY <1>2 DEF ParentOf
<1>4. \A x \in Obj : owners'[x] \cap Locker = owners[x] \cap Locker
  BY <1>1 DEF IInv, TypeOK, UnlockRoot, ListEmptied, objects
<1>5. QED
  BY <1>2, <1>3, <1>4, TreeStays DEF Closing

\* When the first object is freed nothing hangs or is held any more.
LEMMA DeleteInMakeEmptyInTree ==
  ASSUME IInv, Counted, NEW o \in Obj, DeleteInMakeEmpty(o)
  PROVE  TreeStep
<1>1. /\ phase = "free" /\ UnlinkedBeforeFree /\ TypeOK /\ VerifyTable
  BY DEF DeleteInMakeEmpty, IInv, Links
<1>2. o \in alive /\ \A t \in Table : members[t] = {}
  BY <1>1 DEF DeleteInMakeEmpty, Counted, UnlinkedBeforeFree
<1>3. UNCHANGED phase /\ Free({o}) /\ members' = [t \in Table |-> IF t = o THEN {} ELSE members[t]]
  BY <1>2 DEF DeleteInMakeEmpty
<1>4. members' = [t \in Table |-> IF t \in {o} THEN {} ELSE members[t] \ {o}]
  BY <1>2, <1>3
<1>5. Tree!Take({o})
  BY <1>1, <1>2, <1>3, <1>4, DataBaseAssumption, FreeTakes
<1>6. \A m \in alive : m \in Obj /\ ParentOf(m) = NULL /\ (owners[m] \cap Locker) \cap alive = {}
  BY <1>1, <1>2 DEF TypeOK, ParentOf, UnlinkedBeforeFree
<1>7. Tree!Vanish(o)
  BY <1>1, <1>2, <1>5, <1>6 DEF Tree!Vanish
<1>8. QED
  BY <1>7 DEF TreeStep, Tree!Next

LEMMA ReopenInTree ==
  ASSUME Counted, Reopen
  PROVE  TreeStep
<1>1. NULL \notin Table /\ Root \notin Locker
  BY DataBaseAssumption
<1>2. \A x \in Obj : ParentOf(x)' = NULL /\ owners'[x] \cap Locker = {}
  BY <1>1 DEF Reopen, NewRoot, ParentOf
<1>3. Tree!Planted'
  BY <1>2 DEF Reopen, NewRoot, Tree!Planted
<1>4. Tree!Replant
  BY <1>3 DEF Reopen, Counted, Tree!Replant
<1>5. QED
  BY <1>4 DEF TreeStep, Tree!Next

LEMMA StepInTree ==
  ASSUME IInv, Forest, Counted, [Next]_vars
  PROVE  TreeStep
<1>1. CASE UNCHANGED vars
  <2>1. \A x \in Obj : ParentOf(x)' = ParentOf(x)
    BY <1>1 DEF vars, objects, ParentOf
  <2>2. QED
    BY <1>1, <2>1, TreeStays DEF vars, objects, Closing
<1>2. ASSUME NEW o \in Obj, \/ CreateObject(o) \/ DeleteObject(o) \/ DeleteObjectRecursive(o)
                            \/ OnDatabaseDestroy(o) \/ DeleteInMakeEmpty(o)
      PROVE  TreeStep
  BY <1>2, CreateObjectInTree, DeleteObjectInTree, DeleteObjectRecursiveInTree,
     OnDatabaseDestroyInTree, DeleteInMakeEmptyInTree
<1>3. ASSUME NEW o \in Obj, NEW t \in Table, Insert(t, o) \/ AddItem(t, o) \/ Remove(t, o)
      PROVE  TreeStep
  BY <1>3, InsertInTree, AddItemInTree, RemoveInTree
<1>4. ASSUME NEW o \in Obj, NEW l \in Locker, Lock(o, l) \/ Unlock(o, l)
      PROVE  TreeStep
  BY <1>4, LockInTree
<1>5. CASE VerifyDataSetIntegrity
  BY <1>5, VerifyDataSetIntegrityInTree
<1>6. CASE MakeEmpty \/ UnlockRoot \/ ListEmptied \/ Reopen
  BY <1>6, MakeEmptyInTree, UnlockRootInTree, ReopenInTree
<1>7. QED
  BY <1>1, <1>2, <1>3, <1>4, <1>5, <1>6 DEF Next

\* The three copies of the relation, with the deletions that update them one
\* after the other, behave as trees of objects that can be held: nothing kept
\* goes without force, force takes a branch and nothing else, nothing hangs
\* under itself, and no object goes in the end before all have let go.
THEOREM DataBaseImplementsObjectTree == Spec => ImplementsObjectTree
<1>1. Init => Tree!Init
  <2>1. SUFFICES ASSUME Init PROVE Tree!Planted
    BY DEF Tree!Init
  <2>2. NULL \notin Table /\ Root \notin Locker
    BY DataBaseAssumption
  <2>3. \A x \in Obj : ParentOf(x) = NULL /\ owners[x] \cap Locker = {}
    BY <2>1, <2>2 DEF Init, ParentOf
  <2>4. QED
    BY <2>1, <2>3 DEF Init, Tree!Planted
<1>2. IInv /\ Forest /\ Counted /\ [Next]_vars => [Tree!Next]_(Tree!vars)
  BY StepInTree DEF TreeStep
<1>3. QED
  BY <1>1, <1>2, DataBaseInductive, DataBaseForest, DataBaseCounted, PTL
     DEF Spec, ImplementsObjectTree, Tree!Spec
=============================================================================
