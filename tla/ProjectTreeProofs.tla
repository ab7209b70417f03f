-------------------------- MODULE ProjectTreeProofs --------------------------
(***************************************************************************)
(* Proofs about the project tree.  Branches are the least sets closed      *)
(* under "is in", so that what a command does to them follows from what it *)
(* does to the parents: an object is in a branch if its parent is, and     *)
(* every closed set bounds the branch from above.                          *)
(*                                                                         *)
(* The invariant IInv says that, until a failure ends the program, what    *)
(* exists hangs in the network, in modules only, each object at the level  *)
(* that follows from that of the object it is in (Tree); that the clipboard *)
(* hangs together (ClipTree); and that, while items are marked, it still   *)
(* holds the copy of a branch of the network (Marked): the last is what    *)
(* makes the removal by name of a cut branch find the right one.  The      *)
(* levels are the depths because the ancestors of an object are those of   *)
(* the object it is in, and this object.                                   *)
(*                                                                         *)
(* A table whose positions fill 1 .. k (Filled) is followed one table at a *)
(* time: opened for an object that comes, closed behind one that goes, two *)
(* of its objects exchanged, one shifted among the others, copied.         *)
(***************************************************************************)
EXTENDS ProjectTree, FiniteSetTheorems, WellFoundedInduction, TLAPS
-----------------------------------------------------------------------------
(* Branches: the least sets closed under "is in".                          *)

\* What is in a branch has its content there too.
LEMMA BranchClosed ==
  ASSUME NEW n \in Net, NEW t \in Tables
  PROVE  /\ Closed(n, Branch(n, t) \cup {t}) /\ Branch(n, t) \subseteq HM
         /\ t \in HM => t \in Branch(n, t)
<1>1. Network \notin HM
  BY ProjectTreeAssumption
<1>2. t \in HM => t \in Branch(n, t)
  BY DEF Branch
<1>3. ASSUME NEW h \in HM, n.parent[h] \in Branch(n, t) \cup {t}
      PROVE  h \in Branch(n, t) \cup {t}
  <2>1. ASSUME NEW S \in SUBSET HM, Closed(n, S \cup {t})
        PROVE  h \in S \cup {t}
    <3>1. n.parent[h] \in S \cup {t}
      BY <1>3, <2>1 DEF Branch
    <3>2. QED
      BY <2>1, <3>1 DEF Closed
  <2>2. QED
    BY <2>1 DEF Branch
<1>4. QED
  BY <1>2, <1>3 DEF Closed, Branch

\* And it is the least such set.
LEMMA BranchLeast ==
  ASSUME NEW n \in Net, NEW t, NEW S \in SUBSET HM, Closed(n, S \cup {t})
  PROVE  Branch(n, t) \subseteq S \cup {t}
BY DEF Branch

\* An object is in a branch if what it is in is.
LEMMA BranchDown ==
  ASSUME NEW n \in Net, NEW t \in Tables, NEW h \in HM,
         n.parent[h] \in Branch(n, t) \cup {t}
  PROVE  h \in Branch(n, t)
<1>1. h \in Branch(n, t) \cup {t}
  BY BranchClosed DEF Closed
<1>2. QED
  BY <1>1, BranchClosed

\* The other way round, but for the object the branch starts with.
LEMMA BranchUp ==
  ASSUME NEW n \in Net, NEW t \in Tables, NEW h \in Branch(n, t), h # t
  PROVE  n.parent[h] \in Branch(n, t) \cup {t}
<1>1. SUFFICES ASSUME n.parent[h] \notin Branch(n, t) \cup {t} PROVE FALSE
  OBVIOUS
<1> DEFINE S == Branch(n, t) \ {h}
<1>2. S \in SUBSET HM
  BY BranchClosed
<1>3. Closed(n, S \cup {t})
  BY <1>1, BranchClosed DEF Closed
<1>4. Branch(n, t) \subseteq S \cup {t}
  <2> HIDE DEF S
  <2> QED BY <1>2, <1>3, BranchLeast
<1>5. QED
  BY <1>4

\* A branch within a branch.
LEMMA BranchNested ==
  ASSUME NEW n \in Net, NEW t \in Tables, NEW h \in Branch(n, t)
  PROVE  Branch(n, h) \subseteq Branch(n, t)
<1>1. Branch(n, t) \in SUBSET HM /\ h \in HM /\ h \in Tables
  BY BranchClosed DEF Tables
<1>2. Closed(n, Branch(n, t) \cup {h})
  BY <1>1, BranchDown DEF Closed
<1>3. QED
  BY <1>1, <1>2, BranchLeast

\* What is in the network is in nothing that is in it.
LEMMA NoCircle ==
  ASSUME NEW n \in Net, NEW h \in InNetwork(n), NEW x \in Branch(n, h), h \in Branch(n, x)
  PROVE  x = h
<1>1. SUFFICES ASSUME x # h PROVE FALSE
  OBVIOUS
<1>2. /\ Network \notin HM /\ Network \in Tables /\ HM \subseteq Tables
      /\ h \in HM /\ x \in HM /\ Branch(n, Network) \subseteq HM
  BY ProjectTreeAssumption, BranchClosed DEF Tables, InNetwork
<1>3. n.parent[h] \in Branch(n, h)
  BY <1>1, <1>2, BranchUp, BranchNested, BranchClosed
<1> DEFINE S == Branch(n, Network) \ Branch(n, h)
<1>4. ASSUME NEW y \in HM, n.parent[y] \in S \cup {Network}
      PROVE  y \in S
  <2>1. y \in Branch(n, Network)
    BY <1>2, <1>4, BranchDown
  <2>2. n.parent[y] \notin Branch(n, h)
    BY <1>2, <1>4, BranchClosed
  <2>3. y \notin Branch(n, h)
    BY <1>2, <1>3, <2>2, BranchUp, BranchClosed
  <2>4. QED
    BY <2>1, <2>3
<1>5. S \in SUBSET HM /\ Closed(n, S \cup {Network})
  BY <1>2, <1>4 DEF Closed
<1>6. Branch(n, Network) \subseteq S \cup {Network}
  <2> HIDE DEF S
  <2> QED BY <1>5, BranchLeast
<1>7. QED
  BY <1>2, <1>6, BranchClosed DEF InNetwork
-----------------------------------------------------------------------------
(* The tree: everything there is is in modules only, and what hangs in the *)
(* network has the level that follows from its parent's.                   *)

Bare(n) == \A h \in HM \ Exists(n) : n.parent[h] = NULL
InModules(n) ==
    \A h \in Exists(n) : n.parent[h] \in {Network} \cup {m \in HM : IsaModule(n, m)}
Levels(n) == \A h \in InNetwork(n) : n.level[h] = ChildLevel(n, n.parent[h])

Tree(n) == Bare(n) /\ InModules(n) /\ Levels(n)

\* What is there, but out of the network's reach.
Apart(n) == Exists(n) \ InNetwork(n)

\* The tables.
LEMMA Tabling == /\ Network \notin HM /\ NULL \notin Tables /\ Network \in Tables
                 /\ HM \subseteq Tables /\ Tables = HM \cup {Network}
BY ProjectTreeAssumption DEF Tables

\* The types of what is known of an object.
LEMMA NetType ==
  ASSUME NEW n \in Net
  PROVE  /\ \A h \in HM : /\ n.kind[h] \in Kind /\ n.parent[h] \in Tables \cup {NULL}
                          /\ n.pos[h] \in Nat /\ n.level[h] \in Nat
         /\ Exists(n) \subseteq HM
BY DEF Net, Exists

\* What is in the network exists.
LEMMA InNetworkExists ==
  ASSUME NEW n \in Net, Bare(n)
  PROVE  InNetwork(n) \subseteq Exists(n)
<1>1. SUFFICES ASSUME NEW h \in InNetwork(n), h \notin Exists(n) PROVE FALSE
  OBVIOUS
<1>2. h \in HM /\ h # Network
  BY <1>1, Tabling, BranchClosed DEF InNetwork
<1>3. n.parent[h] \in Tables
  BY <1>1, <1>2, Tabling, BranchUp, BranchClosed DEF InNetwork
<1>4. QED
  BY <1>1, <1>2, <1>3, Tabling DEF Bare

\* What there is is in what there is.
LEMMA ParentExists ==
  ASSUME NEW n \in Net, Tree(n), NEW h \in Exists(n)
  PROVE  n.parent[h] \in Exists(n) \cup {Network}
BY DEF Tree, InModules, IsaModule, Exists

\* An object is in what its parent is in, and in its parent.
LEMMA AncestorsOf ==
  ASSUME NEW n \in Net, NEW h \in InNetwork(n)
  PROVE  /\ n.parent[h] = Network => Ancestors(n, h) = {}
         /\ n.parent[h] \in HM =>
              /\ Ancestors(n, h) = Ancestors(n, n.parent[h]) \cup {n.parent[h]}
              /\ n.parent[h] \notin Ancestors(n, n.parent[h])
              /\ n.parent[h] \in InNetwork(n) /\ n.parent[h] # h
<1>1. h \in HM /\ h # Network
  BY Tabling, BranchClosed DEF InNetwork
<1>2. ASSUME n.parent[h] = Network
      PROVE  Ancestors(n, h) = {}
  <2>1. \A a \in HM \ {h} : h \notin Branch(n, a)
    BY <1>1, <1>2, Tabling, BranchUp, BranchClosed
  <2>2. QED
    BY <2>1 DEF Ancestors
<1>3. ASSUME n.parent[h] \in HM
      PROVE  /\ Ancestors(n, h) = Ancestors(n, n.parent[h]) \cup {n.parent[h]}
             /\ n.parent[h] \in InNetwork(n) /\ n.parent[h] # h
  <2> DEFINE p == n.parent[h]
  <2>1. p \in InNetwork(n)
    BY <1>1, <1>3, Tabling, BranchUp DEF InNetwork
  <2>2. p # h
    <3>1. SUFFICES ASSUME p = h PROVE FALSE
      OBVIOUS
    <3> DEFINE S == Branch(n, Network) \ {h}
    <3>2. S \in SUBSET HM /\ Closed(n, S \cup {Network})
      BY <1>1, <3>1, Tabling, BranchClosed, BranchDown DEF Closed
    <3>3. Branch(n, Network) \subseteq S \cup {Network}
      <4> HIDE DEF S
      <4> QED BY <3>2, BranchLeast
    <3>4. QED
      BY <1>1, <3>3, Tabling DEF InNetwork
  <2>3. h \in Branch(n, p)
    BY <1>1, <1>3, Tabling, BranchDown
  <2>4. ASSUME NEW a \in HM
        PROVE  a \in Ancestors(n, h) <=> a \in Ancestors(n, p) \cup {p}
    <3>1. CASE a = p
      BY <1>3, <2>2, <2>3, <3>1 DEF Ancestors
    <3>2. ASSUME a # p, a \in Ancestors(n, h)
          PROVE  a \in Ancestors(n, p)
      <4>1. h \in Branch(n, a) /\ a # h
        BY <3>2 DEF Ancestors
      <4>2. p \in Branch(n, a)
        BY <1>3, <2>4, <3>2, <4>1, Tabling, BranchUp, BranchClosed
      <4>3. QED
        BY <3>2, <4>2 DEF Ancestors
    <3>3. ASSUME a # p, a \in Ancestors(n, p)
          PROVE  a \in Ancestors(n, h)
      <4>1. p \in Branch(n, a)
        BY <3>3 DEF Ancestors
      <4>2. h \in Branch(n, a)
        BY <1>1, <4>1, Tabling, BranchDown
      <4>3. a # h
        BY <2>2, <2>3, <4>1, NoCircle
      <4>4. QED
        BY <4>2, <4>3 DEF Ancestors
    <3>4. QED
      BY <3>1, <3>2, <3>3
  <2>5. QED
    BY <2>1, <2>2, <2>4, <1>3 DEF Ancestors
<1>4. QED
  BY <1>2, <1>3 DEF Ancestors

\* The levels of a tree are its depths.
LEMMA TreeLevels ==
  ASSUME NEW n \in Net, Tree(n), NEW h \in InNetwork(n)
  PROVE  n.level[h] = Cardinality(Ancestors(n, h))
<1> DEFINE S == {x \in InNetwork(n) : n.level[x] = Cardinality(Ancestors(n, x))}
<1>1. S \in SUBSET HM
  BY Tabling, BranchClosed DEF InNetwork
<1>2. ASSUME NEW x \in HM, n.parent[x] \in S \cup {Network}
      PROVE  x \in S
  <2>1. x \in InNetwork(n) /\ n.level[x] = ChildLevel(n, n.parent[x])
    <3>1. x \in InNetwork(n)
      BY <1>2, Tabling, BranchDown DEF InNetwork
    <3>2. QED
      BY <3>1 DEF Tree, Levels
  <2>2. CASE n.parent[x] = Network
    BY <2>1, <2>2, AncestorsOf, FS_EmptySet DEF ChildLevel
  <2>3. CASE n.parent[x] \in S
    <3> DEFINE p == n.parent[x]
    <3>1. p \in HM /\ p # Network /\ n.level[p] = Cardinality(Ancestors(n, p))
      BY <1>1, <2>3, Tabling
    <3>2. Ancestors(n, x) = Ancestors(n, p) \cup {p} /\ p \notin Ancestors(n, p)
      BY <2>1, <3>1, AncestorsOf
    <3>3. IsFiniteSet(Ancestors(n, p))
      BY ProjectTreeAssumption, FS_Subset DEF Ancestors
    <3>4. Cardinality(Ancestors(n, x)) = Cardinality(Ancestors(n, p)) + 1
      BY <3>2, <3>3, FS_AddElement
    <3>5. QED
      BY <2>1, <3>1, <3>4 DEF ChildLevel
  <2>4. QED
    BY <1>2, <2>2, <2>3
<1>3. Branch(n, Network) \subseteq S \cup {Network}
  <2>1. Closed(n, S \cup {Network})
    BY <1>2 DEF Closed
  <2> HIDE DEF S
  <2> QED BY <1>1, <2>1, BranchLeast
<1>4. h \in S
  <2> HIDE DEF S
  <2> QED BY <1>1, <1>3, Tabling, BranchClosed DEF InNetwork
<1>5. QED
  BY <1>4

\* What hangs in the network is in modules only, and not in itself.
LEMMA TreeInModules ==
  ASSUME NEW n \in Net, Tree(n), NEW h \in InNetwork(n)
  PROVE  n.parent[h] # h /\ \A a \in Ancestors(n, h) : IsaModule(n, a)
<1>1. h \in HM
  BY Tabling, BranchClosed DEF InNetwork
<1>2. n.parent[h] # h
  BY <1>1, AncestorsOf
<1>3. ASSUME NEW a \in Ancestors(n, h), ~IsaModule(n, a)
      PROVE  FALSE
  <2>1. a \in HM /\ a # h /\ h \in Branch(n, a)
    BY <1>3 DEF Ancestors
  <2>2. \A x \in HM : n.parent[x] # a
    BY <1>3, <2>1, Tabling DEF Tree, Bare, InModules
  <2>3. Closed(n, {} \cup {a})
    BY <2>2 DEF Closed
  <2>4. Branch(n, a) \subseteq {} \cup {a}
    BY <2>3, BranchLeast
  <2>5. QED
    BY <2>1, <2>4
<1>4. QED
  BY <1>2, <1>3

\* Detached, in a tree, is what is apart.
LEMMA DetachedIs ==
  ASSUME NEW n \in Net, Tree(n)
  PROVE  Detached(n) = Apart(n)
BY TreeInModules DEF Detached, Attached, Apart
-----------------------------------------------------------------------------
(* The operations: positions and levels.                                   *)

\* A shift of positions changes positions, upwards and in order.
LEMMA VerifyNewPosIs ==
  ASSUME NEW n \in Net, NEW t, NEW pos \in Nat, NEW m, m = VerifyNewPos(n, t, pos)
  PROVE  /\ m \in Net /\ m.kind = n.kind /\ m.parent = n.parent /\ m.level = n.level
         /\ m.name = n.name
         /\ \A x, y \in HM : n.parent[x] = n.parent[y] /\ n.pos[x] < n.pos[y]
                             => m.pos[x] < m.pos[y]
<1>1. CASE \A h \in Children(n, t) : n.pos[h] # pos
  BY <1>1, NetType DEF VerifyNewPos
<1>2. CASE ~ \A h \in Children(n, t) : n.pos[h] # pos
  <2>1. m = [n EXCEPT !.pos = [h \in HM |-> IF h \in Children(n, t) /\ n.pos[h] >= pos
                                            THEN n.pos[h] + 1 ELSE n.pos[h]]]
    BY <1>2 DEF VerifyNewPos, Net
  <2>2. m \in Net /\ m.kind = n.kind /\ m.parent = n.parent /\ m.level = n.level
        /\ m.name = n.name
    BY <2>1 DEF Net
  <2>3. \A h \in HM : m.pos[h] = IF h \in Children(n, t) /\ n.pos[h] >= pos
                                 THEN n.pos[h] + 1 ELSE n.pos[h]
    BY <2>1 DEF Net
  <2>4. QED
    BY <2>2, <2>3, NetType DEF Children
<1>3. QED
  BY <1>1, <1>2

\* So does filling a hole, when nothing is at the hole.
LEMMA RemoveIndexHoleIs ==
  ASSUME NEW n \in Net, NEW t, NEW pos \in Nat, NEW m, m = RemoveIndexHole(n, t, pos)
  PROVE  /\ m \in Net /\ m.kind = n.kind /\ m.parent = n.parent /\ m.level = n.level
         /\ m.name = n.name
         /\ \A x, y \in HM : n.parent[x] = n.parent[y] /\ n.pos[x] < n.pos[y]
                             => m.pos[x] <= m.pos[y]
<1>1. m = [n EXCEPT !.pos = [h \in HM |-> IF h \in Children(n, t) /\ n.pos[h] > pos
                                          THEN n.pos[h] - 1 ELSE n.pos[h]]]
  BY DEF RemoveIndexHole, Net
<1>2. m \in Net /\ m.kind = n.kind /\ m.parent = n.parent /\ m.level = n.level
      /\ m.name = n.name
  <2>1. \A h \in HM : n.pos[h] > pos => n.pos[h] - 1 \in Nat
    BY NetType
  <2>2. QED
    BY <1>1, <2>1 DEF Net
<1>3. \A h \in HM : m.pos[h] = IF h \in Children(n, t) /\ n.pos[h] > pos
                               THEN n.pos[h] - 1 ELSE n.pos[h]
  BY <1>1 DEF Net
<1>4. QED
  BY <1>2, <1>3, NetType DEF Children

\* A level is set on a whole branch.
LEMMA SetHMLevelIs ==
  ASSUME NEW n \in Net, NEW h \in HM, NEW level \in Nat, NEW m, m = SetHMLevel(n, h, level)
  PROVE  /\ m \in Net /\ m.kind = n.kind /\ m.parent = n.parent /\ m.pos = n.pos
         /\ m.name = n.name
         /\ \A x \in HM :
              /\ x \in Branch(n, h) =>
                    m.level[x] = level + Cardinality(Between(n, h, x))
              /\ x \notin Branch(n, h) => m.level[x] = n.level[x]
<1>1. m = [n EXCEPT !.level =
              [x \in HM |-> IF x \in Branch(n, h)
                            THEN level + Cardinality(Between(n, h, x))
                            ELSE n.level[x]]]
  BY DEF SetHMLevel, Net
<1>2. \A x \in HM : Cardinality(Between(n, h, x)) \in Nat
  BY ProjectTreeAssumption, FS_Subset, FS_CardinalityType DEF Branch, Between
<1> DEFINE f == [x \in HM |-> IF x \in Branch(n, h)
                               THEN level + Cardinality(Between(n, h, x))
                               ELSE n.level[x]]
<1>3. f \in [HM -> Nat]
  BY <1>2, NetType
<1>4. \A x \in HM : f[x] = IF x \in Branch(n, h)
                           THEN level + Cardinality(Between(n, h, x))
                           ELSE n.level[x]
  OBVIOUS
<1>5. m = [n EXCEPT !.level = f]
  BY <1>1
<1>6. m \in Net /\ m.kind = n.kind /\ m.parent = n.parent /\ m.pos = n.pos
      /\ m.name = n.name /\ m.level = f
  <2> HIDE DEF f
  <2> QED BY <1>3, <1>5 DEF Net
<1>7. QED
  BY <1>4, <1>6

\* Branches depend on the parents only, the tree not on positions and names.
LEMMA SameShape ==
  ASSUME NEW n \in Net, NEW m \in Net, m.parent = n.parent
  PROVE  /\ \A t : Branch(m, t) = Branch(n, t)
         /\ \A h : Ancestors(m, h) = Ancestors(n, h)
         /\ m.kind = n.kind /\ m.level = n.level /\ Tree(n) => Tree(m)
<1>1. /\ \A t : Branch(m, t) = Branch(n, t)
      /\ \A h : Ancestors(m, h) = Ancestors(n, h)
  BY DEF Branch, Closed, Ancestors
<1>2. QED
  BY <1>1 DEF Tree, Bare, InModules, Levels, Exists, InNetwork, IsaModule, ChildLevel

\* The tree is a matter of kinds, parents and levels.
LEMMA SameTree ==
  ASSUME NEW n \in Net, NEW m \in Net, Tree(n),
         m.parent = n.parent, m.kind = n.kind, m.level = n.level
  PROVE  Tree(m) /\ InNetwork(m) = InNetwork(n) /\ Apart(m) = Apart(n)
<1>1. Exists(m) = Exists(n)
  BY DEF Exists
<1>2. QED
  BY <1>1, SameShape DEF InNetwork, Apart

\* A position changed leaves the tree as it is.
LEMMA SetPosIs ==
  ASSUME NEW n \in Net, NEW h \in HM, NEW pos \in Nat, NEW m, m = SetPos(n, h, pos)
  PROVE  /\ m \in Net /\ m.kind = n.kind /\ m.parent = n.parent /\ m.level = n.level
         /\ m.name = n.name
         /\ m.pos[h] = pos /\ \A x \in HM \ {h} : m.pos[x] = n.pos[x]
         /\ Tree(n) => Tree(m) /\ InNetwork(m) = InNetwork(n) /\ Apart(m) = Apart(n)
<1>1. /\ m \in Net /\ m.kind = n.kind /\ m.parent = n.parent /\ m.level = n.level
      /\ m.name = n.name /\ m.pos = [n.pos EXCEPT ![h] = pos]
  BY DEF SetPos, Net
<1>2. n.pos \in [HM -> Nat]
  BY DEF Net
<1>3. m.pos[h] = pos /\ \A x \in HM \ {h} : m.pos[x] = n.pos[x]
  BY <1>1, <1>2
<1>4. Tree(n) => Tree(m) /\ InNetwork(m) = InNetwork(n) /\ Apart(m) = Apart(n)
  BY <1>1, SameTree
<1>5. QED
  BY <1>1, <1>3, <1>4

\* The level of what is put in a table.
LEMMA ChildLevelType ==
  ASSUME NEW n \in Net, NEW t \in Tables
  PROVE  ChildLevel(n, t) \in Nat
BY NetType, Tabling DEF ChildLevel

\* From h down to x there is one more than down to what x is in.
LEMMA BetweenIs ==
  ASSUME NEW n \in Net, NEW h \in InNetwork(n)
  PROVE  /\ Cardinality(Between(n, h, h)) = 0
         /\ \A x \in Branch(n, h) \ {h} :
              /\ n.parent[x] \in Branch(n, h)
              /\ Cardinality(Between(n, h, n.parent[x])) \in Nat
              /\ Cardinality(Between(n, h, x)) = Cardinality(Between(n, h, n.parent[x])) + 1
<1>1. h \in HM /\ h \in Branch(n, h) /\ Branch(n, h) \subseteq HM
  BY Tabling, BranchClosed DEF InNetwork
<1>2. Between(n, h, h) = {}
  BY <1>1, NoCircle DEF Ancestors, Between
<1>3. ASSUME NEW x \in Branch(n, h) \ {h}
      PROVE  /\ n.parent[x] \in Branch(n, h)
             /\ Cardinality(Between(n, h, n.parent[x])) \in Nat
             /\ Cardinality(Between(n, h, x)) = Cardinality(Between(n, h, n.parent[x])) + 1
  <2> DEFINE p == n.parent[x]
             A == Between(n, h, p)
  <2>1. p \in Branch(n, h) /\ p \in HM /\ x \in InNetwork(n)
    BY <1>1, Tabling, BranchUp, BranchNested DEF InNetwork
  <2>2. Between(n, h, x) = A \cup {p} /\ p \notin A
    BY <2>1, AncestorsOf DEF Between
  <2>3. IsFiniteSet(A)
    BY ProjectTreeAssumption, <1>1, FS_Subset DEF Between
  <2>4. Cardinality(Between(n, h, x)) = Cardinality(A) + 1 /\ Cardinality(A) \in Nat
    <3> HIDE DEF A, p
    <3> QED BY <2>2, <2>3, FS_AddElement, FS_CardinalityType
  <2>5. QED
    BY <2>1, <2>4
<1>4. QED
  BY <1>2, <1>3, FS_EmptySet

\* SetHMLevel repairs the levels of a branch that has moved.
LEMMA SetHMLevelLevels ==
  ASSUME NEW n \in Net, Bare(n), \A x \in Exists(n) : n.parent[x] \in Tables,
         NEW h \in InNetwork(n),
         \A x \in InNetwork(n) \ Branch(n, h) : n.level[x] = ChildLevel(n, n.parent[x]),
         NEW m, m = SetHMLevel(n, h, ChildLevel(n, n.parent[h]))
  PROVE  /\ m \in Net /\ m.kind = n.kind /\ m.parent = n.parent /\ m.pos = n.pos
         /\ m.name = n.name /\ Bare(m) /\ Levels(m)
<1>1. h \in HM /\ h \in Exists(n) /\ Exists(n) \subseteq HM /\ InNetwork(n) \subseteq Exists(n)
  BY NetType, InNetworkExists
<1> DEFINE B == Branch(n, h)
<1>0. PICK level : level = ChildLevel(n, n.parent[h])
  OBVIOUS
<1>2. h \in B /\ B \subseteq HM
  BY <1>1, Tabling, BranchClosed
<1>3. \A x \in Exists(n) : n.parent[x] \in Tables
  OBVIOUS
<1>4. level \in Nat
  BY <1>0, <1>1, <1>3, ChildLevelType
<1>5. /\ m \in Net /\ m.kind = n.kind /\ m.parent = n.parent /\ m.pos = n.pos
      /\ m.name = n.name
      /\ \A x \in HM :
            /\ x \in B => m.level[x] = level + Cardinality(Between(n, h, x))
            /\ x \notin B => m.level[x] = n.level[x]
  <2>1. m = SetHMLevel(n, h, level) /\ h \in HM /\ level \in Nat
    BY <1>0, <1>1, <1>4
  <2>2. /\ m \in Net /\ m.kind = n.kind /\ m.parent = n.parent /\ m.pos = n.pos
        /\ m.name = n.name
    BY <2>1, SetHMLevelIs
  <2>3. \A x \in HM :
            /\ x \in Branch(n, h) =>
                  m.level[x] = level + Cardinality(Between(n, h, x))
            /\ x \notin Branch(n, h) => m.level[x] = n.level[x]
    BY <2>1, SetHMLevelIs
  <2>4. QED
    BY <2>2, <2>3
<1>6. Bare(m) /\ InNetwork(m) = InNetwork(n)
  BY <1>5, SameShape DEF Bare, Exists, InNetwork
<1>7. \A t \in Tables \ B : ChildLevel(m, t) = ChildLevel(n, t)
  BY <1>5, Tabling DEF ChildLevel
<1>8. n.parent[h] \notin B
  <2>1. SUFFICES ASSUME n.parent[h] \in B PROVE FALSE
    OBVIOUS
  <2>2. n.parent[h] \in HM /\ h \in Branch(n, n.parent[h])
    BY <1>1, <1>2, <2>1, Tabling, BranchDown, BranchClosed
  <2>3. n.parent[h] = h
    BY <1>1, <2>1, <2>2, NoCircle
  <2>4. QED
    BY <1>1, <2>2, <2>3, AncestorsOf
<1>9. ASSUME NEW x \in InNetwork(n)
      PROVE  m.level[x] = ChildLevel(m, n.parent[x])
  <2>1. x \in HM /\ n.parent[x] \in Tables
    BY <1>1, <1>3
  <2>2. CASE x \notin B
    <3>1. n.parent[x] \notin B
      BY <1>1, <2>1, <2>2, Tabling, BranchDown
    <3>2. QED
      BY <1>5, <1>7, <2>1, <2>2, <3>1
  <2>3. CASE x = h
    <3>1. m.level[h] = level + 0
      BY <1>1, <1>2, <1>5, BetweenIs
    <3>2. QED
      BY <1>0, <1>1, <1>3, <1>4, <1>7, <1>8, <2>3, <3>1
  <2>4. CASE x \in B /\ x # h
    <3> DEFINE p == n.parent[x]
    <3>1. p \in B /\ p \in HM
      BY <1>1, <1>2, <2>4, Tabling, BranchUp
    <3>2. /\ Cardinality(Between(n, h, x)) = Cardinality(Between(n, h, p)) + 1
          /\ Cardinality(Between(n, h, p)) \in Nat
      BY <1>1, <2>4, BetweenIs
    <3>3. m.level[x] = m.level[p] + 1
      BY <1>4, <1>5, <2>1, <2>4, <3>1, <3>2
    <3>4. QED
      BY <3>1, <3>3, Tabling DEF ChildLevel
  <2>5. QED
    BY <2>2, <2>3, <2>4
<1>10. Levels(m)
  BY <1>5, <1>6, <1>9 DEF Levels
<1>11. QED
  BY <1>5, <1>6, <1>10
-----------------------------------------------------------------------------
(* The commands that change the tree.                                      *)

\* What stays where it was, outside B, stays in the network.
LEMMA StillThere ==
  ASSUME NEW n \in Net, NEW m \in Net, NEW B \in SUBSET HM, Closed(n, B),
         \A x \in HM \ B : n.parent[x] \in Tables => m.parent[x] = n.parent[x]
  PROVE  InNetwork(n) \subseteq InNetwork(m) \cup B
<1> DEFINE S == InNetwork(m) \cup B
<1>1. S \in SUBSET HM
  BY Tabling, BranchClosed DEF InNetwork
<1>2. ASSUME NEW x \in HM, n.parent[x] \in S \cup {Network}
      PROVE  x \in S
  <2>1. CASE n.parent[x] \in B
    BY <2>1 DEF Closed
  <2>2. CASE x \notin B /\ n.parent[x] \in InNetwork(m) \cup {Network}
    <3>1. m.parent[x] \in InNetwork(m) \cup {Network}
      BY <1>1, <2>2, Tabling
    <3>2. QED
      BY <3>1, Tabling, BranchDown DEF InNetwork
  <2>3. QED
    BY <1>2, <2>1, <2>2
<1>3. Closed(n, S \cup {Network})
  BY <1>2 DEF Closed
<1>4. Branch(n, Network) \subseteq S \cup {Network}
  <2> HIDE DEF S
  <2> QED BY <1>1, <1>3, BranchLeast
<1>5. QED
  BY <1>4, Tabling, BranchClosed DEF InNetwork

\* And what is in a branch follows.
LEMMA BranchFollows ==
  ASSUME NEW n \in Net, NEW m \in Net, NEW h \in HM,
         \A x \in HM \ {h} : n.parent[x] \in InNetwork(m) \cup {h}
                             => m.parent[x] \in InNetwork(m)
  PROVE  Branch(n, h) \subseteq InNetwork(m) \cup {h}
<1> DEFINE S == InNetwork(m)
<1>1. S \in SUBSET HM
  BY Tabling, BranchClosed DEF InNetwork
<1>2. ASSUME NEW x \in HM, n.parent[x] \in S \cup {h}
      PROVE  x \in S \cup {h}
  <2>1. x # h => m.parent[x] \in InNetwork(m)
    BY <1>2
  <2>2. QED
    BY <2>1, Tabling, BranchDown DEF InNetwork
<1>3. Closed(n, S \cup {h})
  BY <1>2 DEF Closed
<1>4. QED
  <2> HIDE DEF S
  <2>1. Branch(n, h) \subseteq S \cup {h}
    BY <1>1, <1>3, BranchLeast
  <2> QED BY <2>1 DEF S

\* A new object, where it is put.
LEMMA CreateTree ==
  ASSUME NEW n \in Net, Tree(n), NEW h \in HM \ Exists(n), NEW pos \in Nat, NEW name \in Name,
         NEW kind \in {"module", "circuit"},
         NEW t \in {Network} \cup {x \in InNetwork(n) : IsaModule(n, x)},
         NEW m, m = Create(n, h, t, pos, kind, name)
  PROVE  m \in Net /\ Tree(m) /\ Apart(m) \subseteq Apart(n)
<1>1. t \in Tables /\ h \in HM /\ n.parent[h] = NULL /\ t # h /\ InNetwork(n) \subseteq Exists(n)
  BY Tabling, InNetworkExists, BranchClosed DEF Tree, Bare, InNetwork
<1>2. ChildLevel(n, t) \in Nat
  BY <1>1, ChildLevelType
<1>3. m \in Net
  BY <1>1, <1>2 DEF Create, Insert, Net, Kind
<1>4. /\ \A x \in HM \ {h} : m.kind[x] = n.kind[x] /\ m.parent[x] = n.parent[x]
                             /\ m.level[x] = n.level[x]
      /\ m.kind[h] = kind /\ m.parent[h] = t /\ m.level[h] = ChildLevel(n, t)
  BY <1>1 DEF Create, Insert, Net
<1>5. Exists(m) = Exists(n) \cup {h}
  BY <1>1, <1>4 DEF Exists
<1>6. InNetwork(n) \subseteq InNetwork(m)
  <2>1. Closed(n, {})
    BY DEF Closed
  <2>2. \A x \in HM : n.parent[x] \in Tables => m.parent[x] = n.parent[x]
    BY <1>1, <1>4, Tabling
  <2>3. QED
    BY <1>3, <2>1, <2>2, StillThere
<1>7. h \in InNetwork(m)
  BY <1>1, <1>3, <1>4, <1>6, Tabling, BranchDown DEF InNetwork
<1>8. Bare(m) /\ Apart(m) \subseteq Apart(n)
  BY <1>1, <1>4, <1>5, <1>6, <1>7 DEF Tree, Bare, Apart
<1>9. \A x \in Exists(n) : x \in HM \ {h} /\ n.parent[x] # h /\ n.parent[x] \in Tables
  BY <1>1, Tabling DEF Tree, InModules, IsaModule, Exists
<1>10. InModules(m)
  BY <1>1, <1>4, <1>5, <1>9, Tabling DEF Tree, InModules, IsaModule
<1>11. Levels(m)
  <2>1. \A x \in Tables \ {h} : ChildLevel(m, x) = ChildLevel(n, x)
    BY <1>4, Tabling DEF ChildLevel
  <2>2. InNetwork(m) \subseteq InNetwork(n) \cup {h}
    <3>1. Closed(m, {h})
      BY <1>1, <1>4, <1>9, Tabling DEF Closed, Tree, Bare
    <3>2. \A x \in HM \ {h} : m.parent[x] \in Tables => n.parent[x] = m.parent[x]
      BY <1>4
    <3>3. QED
      BY <1>1, <1>3, <3>1, <3>2, StillThere
  <2>3. ASSUME NEW x \in InNetwork(n)
        PROVE  m.level[x] = ChildLevel(m, m.parent[x])
    <3>1. x \in HM \ {h} /\ n.parent[x] \in Tables \ {h}
      BY <1>1, <1>9
    <3>2. QED
      BY <1>4, <2>1, <3>1 DEF Tree, Levels
  <2>4. QED
    BY <1>1, <1>4, <2>1, <2>2, <2>3 DEF Levels
<1>12. QED
  BY <1>3, <1>8, <1>10, <1>11 DEF Tree

\* Taking out a branch.
LEMMA DeleteHMTree ==
  ASSUME NEW n \in Net, Tree(n), NEW h \in InNetwork(n), NEW m, m = DeleteHM(n, h)
  PROVE  /\ m \in Net /\ Tree(m) /\ Exists(m) = Exists(n) \ Branch(n, h)
         /\ InNetwork(m) = InNetwork(n) \ Branch(n, h) /\ Apart(m) \subseteq Apart(n)
         /\ \A x \in Exists(m) : m.parent[x] = n.parent[x] /\ m.name[x] = n.name[x]
         /\ \A x, y \in Exists(m) : n.parent[x] = n.parent[y] /\ n.pos[x] < n.pos[y]
                                    => m.pos[x] <= m.pos[y]
<1> DEFINE B == Branch(n, h)
           f == Freed(n, B)
<1>1. h \in HM /\ B \subseteq HM /\ h \in B /\ Closed(n, B)
  BY Tabling, BranchClosed DEF InNetwork, Closed
<1>2. f \in Net
  BY NetType, ProjectTreeAssumption DEF Freed, Net, Kind
<1>3. \A x \in HM : /\ x \in B => f.kind[x] = "none" /\ f.parent[x] = NULL
                    /\ x \notin B => f.kind[x] = n.kind[x] /\ f.parent[x] = n.parent[x]
                                     /\ f.level[x] = n.level[x] /\ f.pos[x] = n.pos[x]
                                     /\ f.name[x] = n.name[x]
  BY DEF Freed
<1>4. /\ m \in Net /\ m.kind = f.kind /\ m.parent = f.parent /\ m.level = f.level
      /\ m.name = f.name
      /\ \A x, y \in HM : f.parent[x] = f.parent[y] /\ f.pos[x] < f.pos[y]
                          => m.pos[x] <= m.pos[y]
  <2>1. m = RemoveIndexHole(f, n.parent[h], n.pos[h]) /\ n.pos[h] \in Nat
    BY <1>1, NetType DEF DeleteHM
  <2> HIDE DEF f
  <2>2. QED
    BY <1>2, <2>1, RemoveIndexHoleIs
<1> HIDE DEF f, B
<1>5. Exists(m) = Exists(n) \ B
  BY <1>3, <1>4 DEF Exists
<1>6. InNetwork(n) \subseteq InNetwork(m) \cup B
  BY <1>1, <1>3, <1>4, StillThere
<1>7. Bare(m) /\ Apart(m) \subseteq Apart(n)
  BY <1>3, <1>4, <1>5, <1>6 DEF Tree, Bare, Exists, Apart
<1>8. \A x \in Exists(m) : /\ x \in HM \ B /\ n.parent[x] \in Tables \ B
                           /\ m.parent[x] = n.parent[x] /\ m.level[x] = n.level[x]
                           /\ m.name[x] = n.name[x]
  BY <1>1, <1>3, <1>4, <1>5, Tabling, NetType DEF Tree, InModules, Closed
<1>9. InModules(m)
  BY <1>3, <1>4, <1>5, <1>8, Tabling DEF Tree, InModules, IsaModule
<1>10. InNetwork(m) = InNetwork(n) \ B /\ InNetwork(m) \subseteq Exists(m)
  <2>1. InNetwork(m) \subseteq Exists(m)
    BY <1>4, <1>7, InNetworkExists
  <2>2. InNetwork(m) \subseteq InNetwork(n) \cup {}
    <3>1. \A x \in HM : m.parent[x] \in Tables => n.parent[x] = m.parent[x]
      BY <1>3, <1>4, Tabling
    <3>2. Closed(m, {})
      BY DEF Closed
    <3>3. QED
      BY <1>4, <3>1, <3>2, StillThere
  <2>3. QED
    BY <1>5, <1>6, <2>1, <2>2
<1>11. Levels(m)
  <2>1. \A x \in Tables \ B : ChildLevel(m, x) = ChildLevel(n, x)
    BY <1>3, <1>4, Tabling DEF ChildLevel
  <2>2. QED
    BY <1>8, <1>10, <2>1 DEF Tree, Levels
<1>12. QED
  BY <1>3, <1>4, <1>5, <1>7, <1>8, <1>9, <1>10, <1>11 DEF Tree, B

\* A branch moved to another table, which is not in it.
LEMMA MoveBranchIs ==
  ASSUME NEW n \in Net, NEW h \in HM, NEW t \in Tables, NEW pos \in Nat,
         n.parent[h] \in Tables, NEW m, m = MoveBranch(n, h, t, pos)
  PROVE  /\ m \in Net /\ m.kind = n.kind
         /\ m.parent[h] = t /\ \A x \in HM \ {h} : m.parent[x] = n.parent[x]
         /\ \A x, y \in HM \ {h} : n.parent[x] = n.parent[y] /\ n.pos[x] < n.pos[y]
                                   => m.pos[x] <= m.pos[y]
         /\ Tree(n) /\ h \in InNetwork(n) /\ t \notin Branch(n, h)
            /\ (t # Network => t \in InNetwork(n) /\ IsaModule(n, t))
            => Tree(m) /\ Apart(m) \subseteq Apart(n)
<1>1. PICK a : a = [n EXCEPT !.parent[h] = t]
  OBVIOUS
<1>2. PICK b : b = VerifyNewPos(a, t, pos)
  OBVIOUS
<1>3. PICK c : c = Insert(b, h, t, pos)
  OBVIOUS
<1>4. PICK d : d = RemoveIndexHole(c, n.parent[h], n.pos[h])
  OBVIOUS
<1>5. m = SetHMLevel(d, h, ChildLevel(n, t))
  BY <1>1, <1>2, <1>3, <1>4 DEF MoveBranch
<1>6. /\ a \in Net /\ a.kind = n.kind /\ a.level = n.level /\ a.pos = n.pos
      /\ a.parent = [n.parent EXCEPT ![h] = t]
  BY <1>1 DEF Net
<1>7. /\ b \in Net /\ b.kind = n.kind /\ b.level = n.level /\ b.parent = a.parent
      /\ \A x, y \in HM : a.parent[x] = a.parent[y] /\ n.pos[x] < n.pos[y]
                          => b.pos[x] < b.pos[y]
  <2>1. /\ b \in Net /\ b.kind = a.kind /\ b.level = a.level /\ b.parent = a.parent
        /\ \A x, y \in HM : a.parent[x] = a.parent[y] /\ a.pos[x] < a.pos[y]
                            => b.pos[x] < b.pos[y]
    <3>1. b \in Net /\ b.kind = a.kind /\ b.level = a.level /\ b.parent = a.parent
      BY <1>2, <1>6, VerifyNewPosIs
    <3>2. ASSUME NEW x \in HM, NEW y \in HM, a.parent[x] = a.parent[y], a.pos[x] < a.pos[y]
          PROVE  b.pos[x] < b.pos[y]
      BY <1>2, <1>6, <3>2, VerifyNewPosIs
    <3>3. QED
      BY <3>1, <3>2
  <2>2. QED
    BY <1>6, <2>1
<1>8. /\ c \in Net /\ c.kind = n.kind /\ c.level = n.level /\ c.parent = a.parent
      /\ \A x \in HM \ {h} : c.pos[x] = b.pos[x]
  <2>1. /\ c \in Net /\ c.kind = b.kind /\ c.level = b.level
        /\ c.parent = [b.parent EXCEPT ![h] = t] /\ c.pos = [b.pos EXCEPT ![h] = pos]
    BY <1>3, <1>7 DEF Insert, Net
  <2>2. c.parent = a.parent
    BY <1>6, <1>7, <2>1
  <2>3. b.pos \in [HM -> Nat]
    BY <1>7 DEF Net
  <2>4. QED
    BY <1>7, <2>1, <2>2, <2>3
<1>9. n.pos[h] \in Nat /\ ChildLevel(n, t) \in Nat
  BY NetType, ChildLevelType
<1>10. /\ d \in Net /\ d.kind = n.kind /\ d.level = n.level /\ d.parent = a.parent
       /\ \A x, y \in HM : a.parent[x] = a.parent[y] /\ c.pos[x] < c.pos[y]
                           => d.pos[x] <= d.pos[y]
  BY <1>4, <1>8, <1>9, RemoveIndexHoleIs
<1>11. m \in Net /\ m.kind = n.kind /\ m.parent = a.parent /\ m.pos = d.pos
  BY <1>5, <1>9, <1>10, SetHMLevelIs
<1>12. \A x \in HM : a.parent[x] = IF x = h THEN t ELSE n.parent[x]
  BY <1>6 DEF Net
<1>13. ASSUME Tree(n), h \in InNetwork(n), t \notin Branch(n, h),
              t # Network => t \in InNetwork(n) /\ IsaModule(n, t)
       PROVE  Tree(m) /\ Apart(m) \subseteq Apart(n)
  <2>1. /\ InNetwork(n) \subseteq Exists(n) /\ Exists(d) = Exists(n) /\ Exists(n) \subseteq HM
        /\ h \in Branch(n, h) /\ Branch(n, h) \subseteq HM /\ Closed(n, Branch(n, h))
        /\ Branch(n, h) \subseteq InNetwork(n)
    BY <1>10, <1>13, NetType, InNetworkExists, Tabling, BranchClosed, BranchNested
       DEF Tree, Exists, Closed, InNetwork
  <2>2. InNetwork(n) \subseteq InNetwork(d) \cup Branch(n, h)
    BY <1>10, <1>12, <2>1, StillThere
  <2>3. h \in InNetwork(d)
    <3>1. t \in InNetwork(d) \cup {Network}
      BY <1>13, <2>2
    <3>2. d.parent[h] = t
      BY <1>10, <1>12
    <3>3. QED
      BY <1>10, <3>1, <3>2, Tabling, BranchDown DEF InNetwork
  <2>4. Branch(n, h) \subseteq InNetwork(d) \cup {h}
    BY <1>10, <1>12, <2>3, BranchFollows
  <2>5. InNetwork(d) = InNetwork(n)
    <3>1. Closed(d, Branch(n, h)) /\ \A x \in HM \ Branch(n, h) : n.parent[x] = d.parent[x]
      BY <1>10, <1>12, <2>1 DEF Closed
    <3>2. InNetwork(d) \subseteq InNetwork(n) \cup Branch(n, h)
      BY <1>10, <2>1, <3>1, StillThere
    <3>3. QED
      BY <2>1, <2>2, <2>3, <2>4, <3>2
  <2>6. Bare(d)
    BY <1>10, <1>12, <1>13, <2>1 DEF Tree, Bare
  <2>7. /\ \A x \in Exists(d) : d.parent[x] \in Tables
        /\ \A x \in Tables : ChildLevel(d, x) = ChildLevel(n, x)
    <3>1. \A x \in Exists(d) : d.parent[x] \in Tables
      BY <1>10, <1>12, <1>13, <2>1, Tabling DEF Tree, InModules
    <3>2. QED
      BY <1>10, <3>1 DEF ChildLevel
  <2>8. \A x \in InNetwork(d) \ Branch(d, h) : d.level[x] = ChildLevel(d, d.parent[x])
    <3>1. h \in Branch(d, h)
      BY <1>10, Tabling, BranchClosed
    <3>2. ASSUME NEW x \in InNetwork(n), x # h
          PROVE  d.level[x] = ChildLevel(d, d.parent[x])
      <4>1. d.parent[x] = n.parent[x] /\ n.parent[x] \in Tables /\ d.level[x] = n.level[x]
        BY <1>10, <1>12, <1>13, <2>1, <3>2, Tabling DEF Tree, InModules
      <4>2. QED
        BY <1>13, <2>7, <4>1 DEF Tree, Levels
    <3>3. QED
      BY <2>5, <3>1, <3>2
  <2>9. m = SetHMLevel(d, h, ChildLevel(d, d.parent[h]))
    <3>1. d.parent[h] = t
      BY <1>10, <1>12
    <3>2. QED
      BY <1>5, <2>7, <3>1
  <2>10. Bare(m) /\ Levels(m)
    BY <1>10, <2>3, <2>6, <2>7, <2>8, <2>9, SetHMLevelLevels
  <2>11. InModules(m)
    BY <1>11, <1>12, <1>13, <2>1 DEF Tree, InModules, IsaModule, Exists
  <2>12. InNetwork(m) = InNetwork(n) /\ Exists(m) = Exists(n)
    BY <1>10, <1>11, <2>5, SameShape DEF InNetwork, Exists
  <2>13. QED
    BY <2>10, <2>11, <2>12 DEF Tree, Apart
<1>14. ASSUME NEW x \in HM \ {h}, NEW y \in HM \ {h},
              n.parent[x] = n.parent[y], n.pos[x] < n.pos[y]
       PROVE  m.pos[x] <= m.pos[y]
  <2>1. a.parent[x] = a.parent[y]
    BY <1>12, <1>14
  <2>2. c.pos[x] < c.pos[y]
    BY <1>7, <1>8, <1>14, <2>1
  <2>3. QED
    BY <1>10, <1>11, <2>1, <2>2
<1>15. QED
  BY <1>11, <1>12, <1>13, <1>14

\* A branch connected to a circuit: it stays in the network unless the circuit
\* is in it.
LEMMA ConnectBranchIs ==
  ASSUME NEW n \in Net, NEW h \in HM, NEW valve \in HM, valve # h,
         n.parent[h] \in Tables, NEW m, m = ConnectBranch(n, h, valve)
  PROVE  /\ m \in Net
         /\ \A x \in HM : /\ m.kind[x] = IF x = h THEN "none" ELSE
                                         IF x = valve THEN "module" ELSE n.kind[x]
                          /\ m.parent[x] = IF x = h THEN NULL ELSE
                                           IF n.parent[x] = h THEN valve ELSE n.parent[x]
         /\ \A x, y \in HM \ {h} : n.parent[x] = n.parent[y] /\ n.pos[x] < n.pos[y]
                                   => m.pos[x] <= m.pos[y]
         /\ Tree(n) /\ h \in InNetwork(n) /\ valve \in InNetwork(n) /\ n.kind[h] = "module"
            => /\ Tree(m) /\ Apart(m) \subseteq Apart(n) \cup Branch(n, h)
               /\ valve \notin Branch(n, h) => Apart(m) \subseteq Apart(n)
<1>1. PICK e : e = SetHMLevel(n, h, n.level[valve])
  OBVIOUS
<1>2. PICK a : a = [e EXCEPT !.parent = [x \in HM |-> IF n.parent[x] = h THEN valve
                                                     ELSE n.parent[x]]]
  OBVIOUS
<1>3. PICK b : b = Freed(a, {h})
  OBVIOUS
<1>4. PICK d : d = RemoveIndexHole(b, n.parent[h], n.pos[h])
  OBVIOUS
<1>5. n.pos[h] \in Nat /\ n.level[valve] \in Nat
  BY NetType
<1>6. /\ e \in Net /\ e.kind = n.kind /\ e.parent = n.parent /\ e.pos = n.pos
      /\ \A x \in HM :
            /\ x \in Branch(n, h) =>
                  e.level[x] = n.level[valve] + Cardinality(Between(n, h, x))
            /\ x \notin Branch(n, h) => e.level[x] = n.level[x]
  <2>1. PICK level \in Nat : level = n.level[valve]
    BY <1>5
  <2>2. e = SetHMLevel(n, h, level)
    BY <1>1, <2>1
  <2>3. e \in Net /\ e.kind = n.kind /\ e.parent = n.parent /\ e.pos = n.pos
    BY <2>2, SetHMLevelIs
  <2>4. \A x \in HM :
            /\ x \in Branch(n, h) => e.level[x] = level + Cardinality(Between(n, h, x))
            /\ x \notin Branch(n, h) => e.level[x] = n.level[x]
    BY <2>2, SetHMLevelIs
  <2>5. QED
    BY <2>1, <2>3, <2>4
<1>7. m = [d EXCEPT !.kind[valve] = "module"]
  <2>1. a = [e EXCEPT !.parent = [x \in HM |-> IF e.parent[x] = h THEN valve ELSE e.parent[x]]]
    BY <1>2, <1>6
  <2>2. QED
    BY <1>1, <1>3, <1>4, <2>1 DEF ConnectBranch, Net
<1>8. /\ a \in Net /\ a.kind = n.kind /\ a.level = e.level /\ a.pos = n.pos
      /\ \A x \in HM : a.parent[x] = IF n.parent[x] = h THEN valve ELSE n.parent[x]
  <2>1. \A x \in HM : n.parent[x] \in Tables \cup {NULL}
    BY NetType
  <2>2. QED
    BY <1>2, <1>6, <2>1, Tabling DEF Net
<1>9. /\ b \in Net
      /\ \A x \in HM : /\ x = h => b.kind[x] = "none" /\ b.parent[x] = NULL
                       /\ x # h => b.kind[x] = n.kind[x] /\ b.level[x] = e.level[x]
                                   /\ b.pos[x] = n.pos[x] /\ b.parent[x] = a.parent[x]
  <2>1. b \in Net
    BY <1>3, <1>8 DEF Freed, Net, Kind
  <2>2. QED
    BY <1>3, <1>8, <2>1 DEF Freed
<1>10. /\ d \in Net /\ d.kind = b.kind /\ d.parent = b.parent /\ d.level = b.level
       /\ \A x, y \in HM : b.parent[x] = b.parent[y] /\ b.pos[x] < b.pos[y]
                           => d.pos[x] <= d.pos[y]
  BY <1>4, <1>5, <1>9, RemoveIndexHoleIs
<1>11. /\ m \in Net /\ m.parent = b.parent /\ m.pos = d.pos /\ m.level = b.level
       /\ \A x \in HM : m.kind[x] = IF x = valve THEN "module" ELSE b.kind[x]
  <2>1. d.kind = b.kind /\ d.kind \in [HM -> Kind]
    BY <1>10 DEF Net
  <2>2. /\ m.parent = d.parent /\ m.pos = d.pos /\ m.level = d.level
        /\ m.kind = [d.kind EXCEPT ![valve] = "module"]
        /\ [d.kind EXCEPT ![valve] = "module"] \in [HM -> Kind] => m \in Net
    BY <1>7, <1>10 DEF Net
  <2>3. [d.kind EXCEPT ![valve] = "module"] \in [HM -> Kind]
    BY <2>1 DEF Kind
  <2>4. QED
    BY <1>10, <2>1, <2>2, <2>3
<1>12. \A x \in HM : /\ m.kind[x] = IF x = h THEN "none" ELSE
                                    IF x = valve THEN "module" ELSE n.kind[x]
                     /\ m.parent[x] = IF x = h THEN NULL ELSE
                                      IF n.parent[x] = h THEN valve ELSE n.parent[x]
  BY <1>8, <1>9, <1>11
<1>13. ASSUME Tree(n), h \in InNetwork(n), valve \in InNetwork(n), n.kind[h] = "module"
       PROVE  /\ Tree(m) /\ Apart(m) \subseteq Apart(n) \cup Branch(n, h)
              /\ valve \notin Branch(n, h) => Apart(m) \subseteq Apart(n)
  <2> DEFINE B == Branch(n, h)
  <2>1. /\ InNetwork(n) \subseteq Exists(n) /\ Exists(n) \subseteq HM
        /\ h \in B /\ B \subseteq HM /\ Closed(n, B) /\ B \subseteq InNetwork(n)
    BY <1>13, NetType, InNetworkExists, Tabling, BranchClosed, BranchNested
       DEF Tree, Closed, InNetwork
  <2>2. Exists(m) = Exists(n) \ {h}
    BY <1>12, <1>13, <2>1 DEF Exists
  <2>3. \A x \in HM \ B : m.parent[x] = n.parent[x] /\ n.parent[x] \notin B /\ x # h
    BY <1>12, <2>1 DEF Closed
  <2>4. InNetwork(n) \subseteq InNetwork(m) \cup B
    BY <1>11, <2>1, <2>3, StillThere
  <2>5. InNetwork(m) \subseteq InNetwork(n)
    <3>1. Closed(m, B)
      BY <2>1, <2>3 DEF Closed
    <3>2. InNetwork(m) \subseteq InNetwork(n) \cup B
      BY <1>11, <2>1, <2>3, <3>1, StillThere
    <3>3. QED
      BY <2>1, <3>2
  <2>6. valve \notin B => B \subseteq InNetwork(m) \cup {h}
    <3>1. ASSUME valve \notin B, NEW x \in HM \ {h}, n.parent[x] \in InNetwork(m) \cup {h}
          PROVE  m.parent[x] \in InNetwork(m)
      <4>1. valve \in InNetwork(m)
        BY <1>13, <2>4, <3>1
      <4>2. QED
        BY <1>12, <3>1, <4>1
    <3>2. QED
      BY <1>11, <3>1, BranchFollows
  <2>7. valve \in B => InNetwork(m) \cap B = {}
    <3>1. SUFFICES ASSUME valve \in B PROVE InNetwork(m) \cap B = {}
      OBVIOUS
    <3> DEFINE S == HM \ B
    <3>2. ASSUME NEW x \in HM, m.parent[x] \in S \cup {Network}
          PROVE  x \in S
      <4>1. CASE x = h
        BY <1>12, <3>2, <4>1, Tabling
      <4>2. CASE x \in B /\ x # h
        <5>1. n.parent[x] \in B
          BY <2>1, <4>2, Tabling, BranchUp
        <5>2. m.parent[x] \in B
          BY <1>12, <3>1, <4>2, <5>1
        <5>3. QED
          BY <2>1, <3>2, <5>2, Tabling
      <4>3. QED
        BY <4>1, <4>2
    <3>3. Closed(m, S \cup {Network}) /\ S \in SUBSET HM
      BY <3>2 DEF Closed
    <3>4. Branch(m, Network) \subseteq S \cup {Network}
      <4> HIDE DEF S
      <4> QED BY <1>11, <3>3, BranchLeast
    <3>5. QED
      BY <2>1, <3>4, Tabling DEF InNetwork
  <2>8. /\ Apart(m) \subseteq Apart(n) \cup B
        /\ valve \notin B => Apart(m) \subseteq Apart(n)
    BY <2>2, <2>4, <2>6 DEF Apart
  <2>9. Bare(m)
    <3>1. ASSUME NEW x \in HM \ Exists(n)
          PROVE  x # h /\ n.parent[x] = NULL /\ n.parent[x] # h
      BY <1>13, <2>1, Tabling DEF Tree, Bare
    <3>2. QED
      BY <1>12, <2>2, <3>1 DEF Bare
  <2>10. InModules(m)
    <3>1. ASSUME NEW x \in Exists(m)
          PROVE  m.parent[x] \in {Network} \cup {p \in HM : m.kind[p] = "module"}
      <4>1. x \in HM \ {h} /\ x \in Exists(n)
        BY <2>1, <2>2
      <4>2. CASE n.parent[x] = h
        BY <1>12, <1>13, <4>1, <4>2
      <4>3. CASE n.parent[x] # h
        <5>1. n.parent[x] \in {Network} \cup {p \in HM : n.kind[p] = "module"}
          BY <1>13, <4>1 DEF Tree, InModules, IsaModule
        <5>2. QED
          BY <1>12, <4>1, <4>3, <5>1
      <4>4. QED
        BY <4>2, <4>3
    <3>2. QED
      BY <3>1 DEF InModules, IsaModule
  <2>11. Levels(m)
    <3>1. ASSUME NEW x \in InNetwork(m), x \notin B
          PROVE  m.level[x] = ChildLevel(m, m.parent[x])
      <4>1. /\ x \in HM /\ x # h /\ m.parent[x] = n.parent[x] /\ n.parent[x] \notin B
            /\ n.parent[x] \in Tables /\ n.level[x] = ChildLevel(n, n.parent[x])
        BY <1>13, <2>1, <2>3, <2>5, <3>1, Tabling DEF Tree, Levels, InModules
      <4>2. m.level[x] = n.level[x]
        BY <1>6, <1>9, <1>11, <3>1, <4>1
      <4>3. ChildLevel(m, n.parent[x]) = ChildLevel(n, n.parent[x])
        BY <1>6, <1>9, <1>11, <2>1, <4>1, Tabling DEF ChildLevel
      <4>4. QED
        BY <4>1, <4>2, <4>3
    <3>2. ASSUME NEW x \in InNetwork(m), x \in B
          PROVE  m.level[x] = ChildLevel(m, m.parent[x])
      <4>1. x \in HM /\ x # h /\ valve \notin B
        BY <2>1, <2>2, <2>7, <2>9, <3>2, <1>11, InNetworkExists
      <4> DEFINE p == n.parent[x]
      <4>2. /\ p \in B /\ p \in HM /\ Cardinality(Between(n, h, p)) \in Nat
            /\ Cardinality(Between(n, h, x)) = Cardinality(Between(n, h, p)) + 1
        BY <1>13, <2>1, <3>2, <4>1, BetweenIs
      <4>3. m.level[x] = n.level[valve] + Cardinality(Between(n, h, x))
        BY <1>6, <1>9, <1>11, <3>2, <4>1
      <4>4. CASE p = h
        <5>1. m.parent[x] = valve /\ m.level[valve] = n.level[valve]
          BY <1>6, <1>9, <1>11, <1>12, <4>1, <4>4
        <5>2. Cardinality(Between(n, h, x)) = 1
          BY <1>13, <4>2, <4>4, BetweenIs
        <5>3. QED
          BY <4>3, <5>1, <5>2, Tabling DEF ChildLevel
      <4>5. CASE p # h
        <5>1. m.parent[x] = p /\ m.level[p] = n.level[valve] + Cardinality(Between(n, h, p))
          BY <1>6, <1>9, <1>11, <1>12, <4>1, <4>2, <4>5
        <5>2. m.level[x] = m.level[p] + 1
          BY <1>5, <4>2, <4>3, <5>1
        <5>3. QED
          BY <4>2, <5>1, <5>2, Tabling DEF ChildLevel
      <4>6. QED
        BY <4>4, <4>5
    <3>3. QED
      BY <3>1, <3>2 DEF Levels
  <2>12. QED
    BY <2>8, <2>9, <2>10, <2>11 DEF Tree
<1>14. ASSUME NEW x \in HM \ {h}, NEW y \in HM \ {h},
              n.parent[x] = n.parent[y], n.pos[x] < n.pos[y]
       PROVE  m.pos[x] <= m.pos[y]
  <2>1. b.parent[x] = b.parent[y] /\ b.pos[x] < b.pos[y]
    BY <1>8, <1>9, <1>14
  <2>2. QED
    BY <1>10, <1>11, <2>1
<1>15. QED
  BY <1>11, <1>12, <1>13, <1>14

\* There is a last position in a table.
LEMMA GetLastBranchPosType ==
  ASSUME NEW n \in Net, NEW t
  PROVE  GetLastBranchPos(n, t) \in Nat
<1> DEFINE Last(C) == \E h \in C : \A x \in C : n.pos[x] <= n.pos[h]
           Bad == {C \in SUBSET HM : C # {} /\ ~Last(C)}
<1>1. \A h \in HM : n.pos[h] \in Nat
  BY NetType
<1>2. Bad = {}
  <2>1. SUFFICES ASSUME Bad # {} PROVE FALSE
    OBVIOUS
  <2>2. /\ IsWellFoundedOn(StrictSubsetOrdering(HM), FiniteSubsetsOf(HM))
        /\ Bad \subseteq FiniteSubsetsOf(HM)
    BY ProjectTreeAssumption, FS_StrictSubsetOrderingWellFounded, FS_FiniteSubsetsOfFinite
  <2>3. PICK C \in Bad : \A D \in Bad : <<D, C>> \notin StrictSubsetOrdering(HM)
    <3> HIDE DEF Bad
    <3> QED BY <2>1, <2>2, WFMin
  <2>4. PICK x \in C : TRUE
    OBVIOUS
  <2>5. C \subseteq HM /\ x \in HM
    OBVIOUS
  <2>6. C \ {x} \notin Bad
    BY <2>3, <2>4 DEF StrictSubsetOrdering
  <2>7. CASE C \ {x} = {}
    <3>1. \A y \in C : n.pos[y] <= n.pos[x]
      BY <1>1, <2>5, <2>7
    <3>2. QED
      BY <2>3, <2>4, <3>1
  <2>8. CASE Last(C \ {x})
    <3>1. PICK h \in C \ {x} : \A y \in C \ {x} : n.pos[y] <= n.pos[h]
      BY <2>8
    <3>2. CASE n.pos[x] <= n.pos[h]
      BY <2>3, <3>1, <3>2
    <3>3. CASE n.pos[h] < n.pos[x]
      <4>1. \A y \in C : n.pos[y] <= n.pos[x]
        BY <1>1, <2>5, <3>1, <3>3
      <4>2. QED
        BY <2>3, <2>4, <4>1
    <3>4. QED
      BY <1>1, <2>5, <3>1, <3>2, <3>3
  <2>9. QED
    BY <2>5, <2>6, <2>7, <2>8
<1> DEFINE C == Children(n, t)
           S == {0} \cup {n.pos[h] : h \in C}
<1>3. \E s \in S : \A r \in S : s >= r
  <2>1. CASE C = {}
    BY <2>1
  <2>2. CASE C # {}
    <3>1. PICK h \in C : \A x \in C : n.pos[x] <= n.pos[h]
      BY <1>2, <2>2 DEF Children
    <3>2. \A x \in C : n.pos[x] \in Nat
      BY <1>1 DEF Children
    <3>3. n.pos[h] \in S /\ \A r \in S : n.pos[h] >= r
      BY <3>1, <3>2
    <3>4. QED
      BY <3>3
  <2>3. QED
    BY <2>1, <2>2
<1>4. S \subseteq Nat
  BY <1>1 DEF Children
<1>5. Max(S) \in S
  BY <1>3 DEF Max
<1>6. QED
  BY <1>4, <1>5 DEF GetLastBranchPos

\* What is in the clipboard hangs together.
ClipTree(c) ==
    /\ c.root \in DOMAIN c.kind
    /\ \A x \in DOMAIN c.kind : c.kind[x] # "none"
    /\ \A x \in DOMAIN c.kind \ {c.root} :
          c.parent[x] \in DOMAIN c.kind /\ c.kind[c.parent[x]] = "module"
    /\ \A S \in SUBSET DOMAIN c.kind :
          /\ c.root \in S
          /\ \A x \in DOMAIN c.kind \ {c.root} : c.parent[x] \in S => x \in S
          => S = DOMAIN c.kind

\* The copy of a branch of the network is one.
LEMMA CopyIsClip ==
  ASSUME Tree(net), net \in Net, NEW h \in InNetwork(net), CopyHMToClipBoard(h)
  PROVE  Branch(net, h) \in SUBSET HM /\ clip' \in Clip(Branch(net, h)) /\ ClipTree(clip')
<1> DEFINE B == Branch(net, h)
<1>1. h \in HM /\ h \in B /\ B \subseteq HM /\ B \subseteq Exists(net)
  BY Tabling, BranchClosed, BranchNested, InNetworkExists DEF InNetwork, Tree
<1>2. clip' \in Clip(B)
  BY <1>1, NetType DEF CopyHMToClipBoard, Clip, Net
<1>3. /\ clip'.root = h /\ DOMAIN clip'.kind = B
      /\ \A x \in B : clip'.kind[x] = net.kind[x] /\ clip'.parent[x] = net.parent[x]
  BY DEF CopyHMToClipBoard
<1>4. \A x \in B \ {h} : net.parent[x] \in B
  BY <1>1, Tabling, BranchUp
<1>5. \A x \in B : net.kind[x] # "none"
  BY <1>1 DEF Exists
<1>6. \A x \in B \ {h} : net.kind[net.parent[x]] = "module"
  BY <1>1, <1>4, Tabling DEF Tree, InModules, IsaModule
<1>7. ASSUME NEW S \in SUBSET B, h \in S, \A x \in B \ {h} : net.parent[x] \in S => x \in S
      PROVE  S = B
  <2>1. \A x \in HM : net.parent[x] \in S => x \in S
    BY <1>1, <1>7, Tabling, BranchDown
  <2>2. Closed(net, S \cup {h})
    BY <1>7, <2>1 DEF Closed
  <2>3. B \subseteq S \cup {h}
    BY <1>1, <1>7, <2>2, BranchLeast
  <2>4. QED
    BY <1>7, <2>3
<1>8. ClipTree(clip')
  BY <1>1, <1>3, <1>4, <1>5, <1>6, <1>7 DEF ClipTree
<1>9. QED
  BY <1>1, <1>2, <1>8

\* The copy of what is in the clipboard.
LEMMA CreateCopyTree ==
  ASSUME net \in Net, Tree(net), NEW D \in SUBSET HM, clip \in Clip(D), ClipTree(clip),
         NEW copy \in FreshCopies,
         NEW t \in {Network} \cup {x \in InNetwork(net) : IsaModule(net, x)},
         NEW h, h = copy[clip.root],
         NEW n, n = CreateCopyHM(net, copy, t),
         NEW m, m = SetHMLevel(n, h, ChildLevel(net, t))
  PROVE  /\ m \in Net /\ Tree(m) /\ Apart(m) \subseteq Apart(net)
         /\ h \in HM \ Exists(net) /\ h \in Exists(m)
         /\ copy \in [D -> HM \ Exists(net)] /\ clip.root \in D /\ m.parent[h] = t
         /\ Exists(m) = Exists(net) \cup {copy[x] : x \in D}
         /\ \A x \in Exists(net) : /\ m.parent[x] = net.parent[x] /\ m.pos[x] = net.pos[x]
                                   /\ m.name[x] = net.name[x]
         /\ \A x \in D : m.name[copy[x]] = clip.name[x] /\ copy[x] \in Branch(m, h)
         /\ \A x, y \in D : copy[x] = copy[y] => x = y
         /\ \A x \in D : m.pos[copy[x]] = clip.pos[x]
         /\ \A x \in D \ {clip.root} :
               clip.parent[x] \in D /\ m.parent[copy[x]] = copy[clip.parent[x]]
<1> DEFINE E == Exists(net)
           new == {copy[x] : x \in D}
           Source(y) == CHOOSE x \in D : copy[x] = y
<1>1. /\ DOMAIN clip.kind = D /\ clip.root \in D
      /\ clip.kind \in [D -> Kind] /\ clip.parent \in [D -> Tables \cup {NULL}]
      /\ clip.pos \in [D -> Nat] /\ clip.name \in [D -> Name \cup {NULL}]
  BY DEF Clip
<1>2. /\ copy \in [D -> HM \ E]
      /\ \A x, y \in D : copy[x] = copy[y] => x = y
  BY <1>1 DEF FreshCopies
<1>3. \A x \in D : Source(copy[x]) = x
  BY <1>2
<1>4. /\ new \subseteq HM \ E /\ DOMAIN copy = D
      /\ \A y \in new : Source(y) \in D /\ copy[Source(y)] = y
  BY <1>2
<1>5. /\ t \in Tables /\ InNetwork(net) \subseteq E /\ E \subseteq HM
      /\ \A x \in HM \ E : net.parent[x] = NULL
  BY Tabling, InNetworkExists, NetType DEF Tree, Bare
<1>6. \A x \in D : x # clip.root => /\ clip.parent[x] \in D
                                   /\ clip.kind[clip.parent[x]] = "module"
  BY <1>1 DEF ClipTree
<1>7. n = [net EXCEPT
             !.kind = [y \in HM |-> IF y \in new THEN clip.kind[Source(y)] ELSE net.kind[y]],
             !.name = [y \in HM |-> IF y \in new THEN clip.name[Source(y)] ELSE net.name[y]],
             !.pos = [y \in HM |-> IF y \in new THEN clip.pos[Source(y)] ELSE net.pos[y]],
             !.parent = [y \in HM |-> IF y \notin new THEN net.parent[y]
                                      ELSE IF y = h THEN t
                                      ELSE copy[clip.parent[Source(y)]]]]
  BY <1>4 DEF CreateCopyHM, Net
<1> HIDE DEF new, Source
<1>8. PICK kind : kind = [y \in HM |-> IF y \in new THEN clip.kind[Source(y)]
                                       ELSE net.kind[y]]
  OBVIOUS
<1>9. PICK name : name = [y \in HM |-> IF y \in new THEN clip.name[Source(y)]
                                       ELSE net.name[y]]
  OBVIOUS
<1>10. PICK pos : pos = [y \in HM |-> IF y \in new THEN clip.pos[Source(y)] ELSE net.pos[y]]
  OBVIOUS
<1>11. PICK parent : parent = [y \in HM |-> IF y \notin new THEN net.parent[y]
                                            ELSE IF y = h THEN t
                                            ELSE copy[clip.parent[Source(y)]]]
  OBVIOUS
<1>12. n = [net EXCEPT !.kind = kind, !.name = name, !.pos = pos, !.parent = parent]
  BY <1>7, <1>8, <1>9, <1>10, <1>11
<1>13. /\ kind \in [HM -> Kind] /\ name \in [HM -> Name \cup {NULL}] /\ pos \in [HM -> Nat]
       /\ parent \in [HM -> Tables \cup {NULL}]
  <2>1. kind \in [HM -> Kind]
    BY <1>1, <1>4, <1>8, NetType
  <2>2. name \in [HM -> Name \cup {NULL}]
    BY <1>1, <1>4, <1>9 DEF Net
  <2>3. pos \in [HM -> Nat]
    BY <1>1, <1>4, <1>10, NetType
  <2>4. \A y \in new : y # h => copy[clip.parent[Source(y)]] \in HM
    BY <1>2, <1>4, <1>6
  <2>5. parent \in [HM -> Tables \cup {NULL}]
    BY <1>5, <1>11, <2>4, Tabling, NetType
  <2>6. QED
    BY <2>1, <2>2, <2>3, <2>5
<1>14. /\ n \in Net /\ n.kind = kind /\ n.name = name /\ n.pos = pos /\ n.parent = parent
       /\ n.level = net.level
  BY <1>12, <1>13 DEF Net
<1>15. /\ \A y \in HM \ new : /\ n.kind[y] = net.kind[y] /\ n.name[y] = net.name[y]
                              /\ n.pos[y] = net.pos[y] /\ n.parent[y] = net.parent[y]
       /\ \A x \in D : /\ n.kind[copy[x]] = clip.kind[x] /\ n.name[copy[x]] = clip.name[x]
                       /\ n.pos[copy[x]] = clip.pos[x]
                       /\ n.parent[copy[x]] = IF x = clip.root THEN t
                                              ELSE copy[clip.parent[x]]
  <2>1. \A y \in HM \ new : /\ n.kind[y] = net.kind[y] /\ n.name[y] = net.name[y]
                            /\ n.pos[y] = net.pos[y] /\ n.parent[y] = net.parent[y]
    BY <1>8, <1>9, <1>10, <1>11, <1>14
  <2>2. ASSUME NEW x \in D
        PROVE  /\ n.kind[copy[x]] = clip.kind[x] /\ n.name[copy[x]] = clip.name[x]
               /\ n.pos[copy[x]] = clip.pos[x]
               /\ n.parent[copy[x]] = IF x = clip.root THEN t ELSE copy[clip.parent[x]]
    <3>1. copy[x] \in new /\ copy[x] \in HM /\ Source(copy[x]) = x
      BY <1>2, <1>3 DEF new
    <3>2. copy[x] = h <=> x = clip.root
      BY <1>1, <1>2
    <3>3. QED
      BY <1>8, <1>9, <1>10, <1>11, <1>14, <3>1, <3>2
  <2>3. QED
    BY <2>1, <2>2
<1>16. h \in HM \ E /\ h \in new
  BY <1>1, <1>2 DEF new
<1>17. Exists(n) = E \cup new
  <2>1. \A y \in new : n.kind[y] # "none"
    BY <1>1, <1>15 DEF new, ClipTree
  <2>2. QED
    BY <1>4, <1>15, <2>1 DEF Exists
<1>18. /\ \A x \in E : n.parent[x] = net.parent[x] /\ net.parent[x] \in Tables \ new
       /\ n.parent[h] = t /\ t \notin new
       /\ \A x \in D : x # clip.root => n.parent[copy[x]] \in new
  <2>1. \A x \in E : n.parent[x] = net.parent[x] /\ net.parent[x] \in Tables \ new
    BY <1>4, <1>5, <1>15, Tabling DEF Tree, InModules, IsaModule, Exists
  <2>2. n.parent[h] = t /\ t \notin new
    BY <1>1, <1>4, <1>5, <1>15, Tabling
  <2>3. \A x \in D : x # clip.root => n.parent[copy[x]] \in new
    BY <1>6, <1>15 DEF new
  <2>4. QED
    BY <2>1, <2>2, <2>3
<1>19. InNetwork(net) \subseteq InNetwork(n)
  <2>1. /\ Closed(net, {})
        /\ \A x \in HM : net.parent[x] \in Tables => n.parent[x] = net.parent[x]
    BY <1>5, <1>18, Tabling DEF Closed
  <2>2. QED
    BY <1>14, <2>1, StillThere
<1>20. h \in InNetwork(n)
  BY <1>5, <1>14, <1>16, <1>18, <1>19, Tabling, BranchDown DEF InNetwork
<1>21. new \subseteq Branch(n, h) /\ Branch(n, h) \subseteq InNetwork(n)
  <2> DEFINE S == {x \in D : copy[x] \in Branch(n, h)}
  <2>1. clip.root \in S
    BY <1>1, <1>14, <1>16, Tabling, BranchClosed
  <2>2. ASSUME NEW x \in D, x # clip.root, clip.parent[x] \in S
        PROVE  x \in S
    <3>1. n.parent[copy[x]] \in Branch(n, h)
      BY <1>15, <2>2
    <3>2. copy[x] \in HM /\ h \in Tables
      BY <1>2, <1>16, Tabling
    <3>3. copy[x] \in Branch(n, h)
      BY <1>14, <3>1, <3>2, BranchDown
    <3>4. QED
      BY <3>3
  <2>3. S = D
    <3>1. S \in SUBSET D /\ \A x \in D \ {clip.root} : clip.parent[x] \in S => x \in S
      BY <2>2
    <3> HIDE DEF S
    <3>2. QED
      BY <1>1, <2>1, <3>1 DEF ClipTree
  <2>4. Branch(n, h) \subseteq InNetwork(n)
    BY <1>14, <1>20, Tabling, BranchNested DEF InNetwork
  <2>5. QED
    BY <2>3, <2>4 DEF new
<1>22. /\ Bare(n) /\ Apart(n) \subseteq Apart(net)
       /\ InNetwork(n) \subseteq InNetwork(net) \cup Branch(n, h)
  <2>1. Bare(n)
    BY <1>5, <1>15, <1>17 DEF Bare
  <2>2. Apart(n) \subseteq Apart(net)
    BY <1>17, <1>19, <1>21 DEF Apart
  <2>3. \A x \in HM \ new : n.parent[x] \notin new /\ n.parent[x] = net.parent[x]
    BY <1>4, <1>5, <1>15, <1>18, Tabling
  <2>4. Closed(n, new) /\ new \in SUBSET HM
    BY <1>4, <2>3 DEF Closed
  <2>5. InNetwork(n) \subseteq InNetwork(net) \cup new
    BY <1>14, <2>3, <2>4, StillThere
  <2>6. QED
    BY <1>21, <2>1, <2>2, <2>5
<1>23. /\ \A x \in Exists(n) : n.parent[x] \in Tables
       /\ \A x \in Tables \ new : ChildLevel(n, x) = ChildLevel(net, x)
  <2>1. ASSUME NEW x \in Exists(n)
        PROVE  n.parent[x] \in Tables
    <3>1. CASE x \in E
      BY <1>18, <3>1
    <3>2. CASE x \in new
      <4>1. PICK y \in D : x = copy[y]
        BY <3>2 DEF new
      <4>2. CASE y = clip.root
        BY <1>5, <1>15, <4>1, <4>2
      <4>3. CASE y # clip.root
        BY <1>4, <1>18, <4>1, <4>3, Tabling
      <4>4. QED
        BY <4>2, <4>3
    <3>3. QED
      BY <1>17, <3>1, <3>2
  <2>2. \A x \in Tables \ new : ChildLevel(n, x) = ChildLevel(net, x)
    BY <1>14 DEF ChildLevel
  <2>3. QED
    BY <2>1, <2>2
<1>24. \A x \in InNetwork(n) \ Branch(n, h) : n.level[x] = ChildLevel(n, n.parent[x])
  <2>1. ASSUME NEW x \in InNetwork(net)
        PROVE  n.level[x] = ChildLevel(n, n.parent[x])
    BY <1>5, <1>14, <1>18, <1>23 DEF Tree, Levels
  <2>2. QED
    BY <1>22, <2>1
<1>25. m = SetHMLevel(n, h, ChildLevel(n, n.parent[h])) /\ h \in Exists(n)
  BY <1>5, <1>16, <1>17, <1>18, <1>23
<1>26. /\ m \in Net /\ m.kind = n.kind /\ m.parent = n.parent /\ m.pos = n.pos
       /\ m.name = n.name /\ Bare(m) /\ Levels(m)
  BY <1>14, <1>20, <1>22, <1>23, <1>24, <1>25, SetHMLevelLevels
<1>27. InModules(m)
  <2>1. ASSUME NEW x \in Exists(n)
        PROVE  n.parent[x] \in {Network} \cup {p \in HM : n.kind[p] = "module"}
    <3>1. CASE x \in E
      <4>1. net.parent[x] \in {Network} \cup {p \in HM : net.kind[p] = "module"}
        BY <3>1 DEF Tree, InModules, IsaModule
      <4>2. QED
        BY <1>15, <1>18, <3>1, <4>1
    <3>2. CASE x \in new
      <4>1. PICK y \in D : x = copy[y]
        BY <3>2 DEF new
      <4>2. CASE y = clip.root
        BY <1>4, <1>5, <1>15, <4>1, <4>2 DEF IsaModule
      <4>3. CASE y # clip.root
        BY <1>2, <1>6, <1>15, <4>1, <4>3
      <4>4. QED
        BY <4>2, <4>3
    <3>3. QED
      BY <1>17, <3>1, <3>2
  <2>2. QED
    BY <1>26, <2>1 DEF InModules, IsaModule, Exists
<1>28. Exists(m) = Exists(n) /\ Apart(m) \subseteq Apart(net)
  BY <1>14, <1>22, <1>26, SameShape DEF Exists, Apart, InNetwork
<1>29. \A x \in E : x \in HM \ new
  BY <1>4, <1>5
<1>30. QED
  <2>1. \A x \in E : m.parent[x] = net.parent[x] /\ m.pos[x] = net.pos[x]
                     /\ m.name[x] = net.name[x]
    BY <1>15, <1>26, <1>29
  <2>2. m.parent[h] = t /\ \A x \in D : m.name[copy[x]] = clip.name[x]
    BY <1>15, <1>18, <1>26
  <2>3. Exists(m) = E \cup {copy[x] : x \in D}
    BY <1>17, <1>28 DEF new
  <2>4. \A x \in D : copy[x] \in Branch(m, h)
    BY <1>14, <1>21, <1>26, SameShape DEF new
  <2>5. /\ m \in Net /\ Tree(m) /\ Apart(m) \subseteq Apart(net)
        /\ h \in HM \ Exists(net) /\ h \in Exists(m)
    BY <1>16, <1>17, <1>26, <1>27, <1>28 DEF Tree
  <2>6. /\ \A x \in D : m.pos[copy[x]] = clip.pos[x]
        /\ \A x \in D \ {clip.root} :
              clip.parent[x] \in D /\ m.parent[copy[x]] = copy[clip.parent[x]]
    BY <1>6, <1>15, <1>26
  <2>7. QED
    BY <1>1, <1>2, <2>1, <2>2, <2>3, <2>4, <2>5, <2>6
-----------------------------------------------------------------------------
(* The invariant.                                                          *)

\* While items are marked, the clipboard holds the copy of a branch that is
\* still the same.
Marked ==
    cut # {} =>
        /\ lastOp = "cut"
        /\ clip.root \in InNetwork(net) /\ DOMAIN clip.kind = Branch(net, clip.root)
        /\ \A x \in DOMAIN clip.kind : clip.name[x] = net.name[x]

IInv ==
    /\ TypeOK
    /\ failure = "none" => Tree(net)
    /\ clip # NULL => ClipTree(clip)
    /\ Marked

\* It holds of the empty network.
LEMMA InitIInv == Init => IInv
<1> SUFFICES ASSUME Init PROVE IInv
  OBVIOUS
<1>1. net \in Net
  BY ProjectTreeAssumption DEF Init, Net, Kind
<1>2. Exists(net) = {} /\ Bare(net)
  BY DEF Init, Exists, Bare
<1>3. InNetwork(net) = {}
  BY <1>1, <1>2, InNetworkExists
<1>4. QED
  BY <1>1, <1>2, <1>3 DEF Init, IInv, TypeOK, Tree, InModules, Levels, Marked

\* The table an object of the network is in.
LEMMA ParentIs ==
  ASSUME NEW n \in Net, Tree(n), NEW h \in InNetwork(n)
  PROVE  /\ n.parent[h] \in {Network} \cup {x \in InNetwork(n) : IsaModule(n, x)}
         /\ n.parent[h] \in Tables /\ n.parent[h] \notin Branch(n, h) /\ h \in HM
         /\ h \in Branch(n, h) /\ h \in Exists(n) /\ InNetwork(n) \subseteq Exists(n)
         /\ n.level[h] = ChildLevel(n, n.parent[h])
<1>1. /\ h \in Exists(n) /\ h \in HM /\ h # Network /\ h \in Branch(n, h)
      /\ InNetwork(n) \subseteq Exists(n)
  BY InNetworkExists, Tabling, BranchClosed DEF InNetwork, Tree
<1>2. n.parent[h] \in {Network} \cup {x \in HM : IsaModule(n, x)}
  BY <1>1 DEF Tree, InModules
<1>3. n.parent[h] \in InNetwork(n) \cup {Network}
  BY <1>1, Tabling, BranchUp DEF InNetwork
<1>4. n.parent[h] \notin Branch(n, h)
  <2>1. SUFFICES ASSUME n.parent[h] \in Branch(n, h) PROVE FALSE
    OBVIOUS
  <2>2. n.parent[h] \in HM /\ h \in Branch(n, n.parent[h])
    BY <1>1, <1>2, <2>1, Tabling, BranchDown, BranchClosed
  <2>3. n.parent[h] = h
    BY <2>1, <2>2, NoCircle
  <2>4. QED
    BY <2>2, <2>3, AncestorsOf
<1>5. QED
  BY <1>1, <1>2, <1>3, <1>4, Tabling DEF Tree, Levels

\* What a command leaves of the network n: a tree, whose siblings have kept
\* their order.
Ordered(n, m) ==
    \A x, y \in Exists(n) \cap Exists(m) :
        n.parent[x] = n.parent[y] /\ m.parent[x] = m.parent[y] /\ n.pos[x] < n.pos[y]
        => m.pos[x] <= m.pos[y]

\* And has lost nothing.
Kept(n, m) == Apart(m) \subseteq Apart(n)

\* A new module or circuit, at a position that has been verified in a table.
LEMMA CreateStep ==
  ASSUME net \in Net, Tree(net), NEW at, NEW pos \in Nat,
         NEW h \in HM \ Exists(net), NEW name \in Name, NEW kind \in {"module", "circuit"},
         NEW t \in Modules \cup {Network},
         NEW m, m = Create(VerifyNewPos(net, at, pos), h, t, pos, kind, name)
  PROVE  m \in Net /\ Tree(m) /\ Ordered(net, m) /\ Kept(net, m)
<1>1. PICK n : n = VerifyNewPos(net, at, pos)
  OBVIOUS
<1>2. /\ n \in Net /\ n.kind = net.kind /\ n.parent = net.parent /\ n.level = net.level
      /\ n.name = net.name
  BY <1>1, VerifyNewPosIs
<1>3. \A x, y \in HM : net.parent[x] = net.parent[y] /\ net.pos[x] < net.pos[y]
                       => n.pos[x] < n.pos[y]
  BY <1>1, VerifyNewPosIs
<1>4. /\ Tree(n) /\ Exists(n) = Exists(net) /\ InNetwork(n) = InNetwork(net)
      /\ Apart(n) = Apart(net)
  BY <1>2, SameTree DEF Exists
<1>5. t \in {Network} \cup {x \in InNetwork(n) : IsaModule(n, x)}
  BY <1>2, <1>4 DEF Modules, IsaModule
<1>6. m = Create(n, h, t, pos, kind, name)
  BY <1>1
<1>7. m \in Net /\ Tree(m) /\ Kept(net, m)
  BY <1>2, <1>4, <1>5, <1>6, CreateTree DEF Kept
<1>8. \A x \in HM \ {h} : m.pos[x] = n.pos[x]
  <2>1. n.pos \in [HM -> Nat]
    BY <1>2 DEF Net
  <2>2. m.pos = [n.pos EXCEPT ![h] = pos]
    BY <1>2, <1>6 DEF Create, Insert, Net
  <2>3. QED
    BY <2>1, <2>2
<1>9. Ordered(net, m)
  <2>1. \A x \in HM : m.pos[x] \in Nat /\ n.pos[x] \in Nat
    BY <1>2, <1>7, NetType
  <2>2. Exists(net) \subseteq HM \ {h}
    BY NetType
  <2>3. QED
    BY <1>3, <1>8, <2>1, <2>2 DEF Ordered
<1>10. QED
  BY <1>7, <1>9

\* The end of a paste.
LEMMA PasteDoneIs ==
  ASSUME NEW n \in Net, Tree(n), NEW t, PasteDone(n, t)
  PROVE  /\ net' \in Net /\ Tree(net') /\ Exists(net') \subseteq Exists(n) /\ Kept(n, net')
         /\ \A x \in Exists(net') : net'.parent[x] = n.parent[x]
         /\ \A x, y \in Exists(net') : n.parent[x] = n.parent[y] /\ n.pos[x] < n.pos[y]
                                       => net'.pos[x] <= net'.pos[y]
         /\ clip' = clip \/ clip' = NULL
         /\ lastOp' \in {"undefined", lastOp} /\ failure' \in {"freedTableUsed", failure}
         /\ cut' = {}
<1>1. CASE lastOp = "cut" /\ RemoveCut(n, t)
  <2>1. PICK x \in InNetwork(n) : net' = DeleteHM(n, x)
    BY <1>1 DEF RemoveCut, FindHydroMod
  <2>2. QED
    BY <1>1, <2>1, DeleteHMTree DEF PasteDone, RemoveCut, Kept
<1>2. CASE lastOp # "cut" /\ net' = n /\ UNCHANGED <<clip, lastOp, failure>>
  <2>1. \A x \in HM : n.pos[x] \in Nat
    BY NetType
  <2>2. QED
    BY <1>2, <2>1, NetType DEF PasteDone, Kept
<1>3. QED
  BY <1>1, <1>2 DEF PasteDone

\* What there is before the cut branch is removed, when pasting in a table.
LEMMA PasteInIs ==
  ASSUME net \in Net, Tree(net), NEW D \in SUBSET HM, clip \in Clip(D), ClipTree(clip),
         NEW t \in Modules \cup {Network},
         NEW copy \in FreshCopies, NEW h, h = copy[clip.root],
         NEW n, n = SetPos(SetHMLevel(CreateCopyHM(net, copy, t), h, ChildLevel(net, t)),
                           h, GetCount(net, t) + 1)
  PROVE  /\ n \in Net /\ Tree(n) /\ Kept(net, n)
         /\ \A x \in Exists(net) : n.pos[x] = net.pos[x]
         /\ \E m \in Net :
              /\ m = SetHMLevel(CreateCopyHM(net, copy, t), h, ChildLevel(net, t))
              /\ n.parent = m.parent /\ n.kind = m.kind /\ n.name = m.name
<1>1. PICK m : m = SetHMLevel(CreateCopyHM(net, copy, t), h, ChildLevel(net, t))
  OBVIOUS
<1>2. /\ m \in Net /\ Tree(m) /\ h \in HM \ Exists(net) /\ Kept(net, m)
      /\ \A x \in Exists(net) : m.pos[x] = net.pos[x]
  <2>1. t \in {Network} \cup {x \in InNetwork(net) : IsaModule(net, x)}
    BY DEF Modules
  <2>2. PICK c : c = CreateCopyHM(net, copy, t)
    OBVIOUS
  <2>3. m = SetHMLevel(c, h, ChildLevel(net, t))
    BY <1>1, <2>2
  <2>4. QED
    BY <2>1, <2>2, <2>3, CreateCopyTree DEF Kept
<1>3. GetCount(net, t) + 1 \in Nat
  <2>1. Children(net, t) \subseteq HM
    BY DEF Children
  <2>2. QED
    BY <2>1, ProjectTreeAssumption, FS_Subset, FS_CardinalityType DEF GetCount
<1>4. /\ n.kind = m.kind /\ n.parent = m.parent /\ n.name = m.name
      /\ \A x \in HM \ {h} : n.pos[x] = m.pos[x]
      /\ n \in Net /\ Tree(n) /\ Kept(net, n)
  <2>1. PICK pos \in Nat : pos = GetCount(net, t) + 1
    BY <1>3
  <2>2. n = SetPos(m, h, pos)
    BY <1>1, <2>1
  <2>3. QED
    <3>1. /\ n.kind = m.kind /\ n.parent = m.parent /\ n.name = m.name
          /\ \A x \in HM \ {h} : n.pos[x] = m.pos[x]
          /\ n \in Net /\ Tree(n)
      BY <1>2, <2>2, SetPosIs
    <3>2. Apart(n) = Apart(m)
      BY <1>2, <2>2, SetPosIs
    <3>3. QED
      BY <1>2, <3>1, <3>2 DEF Kept
<1>6. \A x \in Exists(net) : n.pos[x] = net.pos[x]
  BY <1>2, <1>4, NetType
<1>7. QED
  BY <1>1, <1>2, <1>4, <1>6

\* Pasted before an object, the copy goes to the level and the table of this one.
LEMMA PasteBeforeIs ==
  ASSUME net \in Net, Tree(net), NEW D \in SUBSET HM, clip \in Clip(D), ClipTree(clip),
         NEW x0 \in InNetwork(net), NEW copy \in FreshCopies, NEW h, h = copy[clip.root],
         NEW t, t = net.parent[x0],
         NEW m, m = SetHMLevel(CreateCopyHM(net, copy, t), h, net.level[x0]),
         NEW n, n = SetPos(VerifyNewPos(SetPos(m, h, 0), t, net.pos[x0]), h, net.pos[x0])
  PROVE  /\ n \in Net /\ Tree(n) /\ m \in Net /\ Kept(net, n)
         /\ n.parent = m.parent /\ n.kind = m.kind /\ n.name = m.name
         /\ m = SetHMLevel(CreateCopyHM(net, copy, t), h, ChildLevel(net, t))
         /\ \A x, y \in Exists(net) : net.parent[x] = net.parent[y] /\ net.pos[x] < net.pos[y]
                                      => n.pos[x] < n.pos[y]
<1>1. /\ t \in {Network} \cup {x \in InNetwork(net) : IsaModule(net, x)} /\ x0 \in HM
      /\ net.level[x0] = ChildLevel(net, t)
  BY ParentIs
<1>2. PICK c : c = CreateCopyHM(net, copy, t)
  OBVIOUS
<1>3. m = SetHMLevel(c, h, ChildLevel(net, t))
  BY <1>1, <1>2
<1>4. /\ m \in Net /\ Tree(m) /\ Kept(net, m) /\ h \in HM \ Exists(net)
      /\ \A x \in Exists(net) : m.pos[x] = net.pos[x] /\ m.parent[x] = net.parent[x]
  BY <1>1, <1>2, <1>3, CreateCopyTree DEF Kept
<1>5. PICK a : a = SetPos(m, h, 0)
  OBVIOUS
<1>6. /\ a \in Net /\ a.kind = m.kind /\ a.parent = m.parent /\ a.level = m.level
      /\ a.name = m.name /\ \A x \in HM \ {h} : a.pos[x] = m.pos[x]
  BY <1>4, <1>5, SetPosIs
<1>7. PICK pos \in Nat : pos = net.pos[x0]
  BY <1>1, NetType
<1>8. PICK b : b = VerifyNewPos(a, t, pos)
  OBVIOUS
<1>9. /\ b \in Net /\ b.kind = a.kind /\ b.parent = a.parent /\ b.level = a.level
      /\ b.name = a.name
  BY <1>6, <1>8, VerifyNewPosIs
<1>10. \A x, y \in HM : a.parent[x] = a.parent[y] /\ a.pos[x] < a.pos[y]
                        => b.pos[x] < b.pos[y]
  BY <1>6, <1>8, VerifyNewPosIs
<1>11. n = SetPos(b, h, pos)
  BY <1>5, <1>7, <1>8
<1>12. Tree(b) /\ Kept(net, b)
  <2>1. b.parent = m.parent /\ b.kind = m.kind /\ b.level = m.level
    BY <1>6, <1>9
  <2>2. QED
    BY <1>4, <1>9, <2>1, SameTree DEF Kept
<1>13. /\ n \in Net /\ n.kind = b.kind /\ n.parent = b.parent /\ n.name = b.name
       /\ Tree(n) /\ Kept(net, n) /\ \A x \in HM \ {h} : n.pos[x] = b.pos[x]
  <2>1. h \in HM /\ b \in Net /\ Tree(b)
    BY <1>4, <1>9, <1>12
  <2>2. /\ n \in Net /\ n.kind = b.kind /\ n.parent = b.parent /\ n.name = b.name
        /\ \A x \in HM \ {h} : n.pos[x] = b.pos[x]
    BY <1>11, <2>1, SetPosIs
  <2>3. Tree(n) /\ Apart(n) = Apart(b)
    BY <1>11, <2>1, SetPosIs
  <2>4. QED
    BY <1>12, <2>2, <2>3 DEF Kept
<1>14. n.kind = m.kind /\ n.parent = m.parent /\ n.name = m.name
  BY <1>6, <1>9, <1>13
<1>15. ASSUME NEW x \in Exists(net), NEW y \in Exists(net),
              net.parent[x] = net.parent[y], net.pos[x] < net.pos[y]
       PROVE  n.pos[x] < n.pos[y]
  <2>1. x \in HM \ {h} /\ y \in HM \ {h}
    BY <1>4, NetType
  <2>2. a.parent[x] = a.parent[y] /\ a.pos[x] < a.pos[y]
    BY <1>4, <1>6, <1>15, <2>1
  <2>3. QED
    BY <1>10, <1>13, <2>1, <2>2
<1>16. QED
  BY <1>2, <1>3, <1>4, <1>13, <1>14, <1>15
-----------------------------------------------------------------------------
(* Every command keeps the invariant, and what it leaves of the siblings is *)
(* ordered as before.                                                      *)

\* All commands but Copy and Cut leave the clipboard or empty it, and unmark.
LEMMA IInvFrom ==
  ASSUME IInv, net' \in Net, failure' = "none" => Tree(net'), clip' = clip \/ clip' = NULL,
         lastOp' \in {"undefined", lastOp}, cut' = {},
         failure' \in {"stackOverflow", "freedTableUsed", failure}
  PROVE  IInv'
<1>1. TypeOK'
  BY DEF IInv, TypeOK, Clip, Net
<1>2. (clip # NULL => ClipTree(clip))'
  <2>1. CASE clip' = NULL
    BY <2>1
  <2>2. CASE clip' = clip /\ clip' # NULL
    BY <2>2 DEF IInv, ClipTree
  <2>3. QED
    BY <2>1, <2>2
<1>3. (failure = "none" => Tree(net))'
  BY DEF Tree, Bare, InModules, Levels, Exists, InNetwork, IsaModule, ChildLevel,
         Branch, Closed
<1>4. QED
  BY <1>1, <1>2, <1>3 DEF IInv, Marked

\* A module or a circuit is created.
LEMMA AddStep ==
  ASSUME IInv, failure = "none", NEW at \in Tables, NEW t \in Tables,
         AddModule(at, t) \/ AddValve(at, t)
  PROVE  IInv' /\ Ordered(net, net') /\ Kept(net, net')
<1>1. net \in Net /\ Tree(net)
  BY DEF IInv, TypeOK
<1>2. net' \in Net /\ Tree(net') /\ Ordered(net, net') /\ Kept(net, net')
  <2>1. CASE AddModule(at, t)
    <3>1. PICK h \in HM \ Exists(net), name \in FreeNames, pos \in Offered(at, t) :
             net' = Create(VerifyNewPos(net, at, pos), h, t, pos, "module", name)
      BY <2>1 DEF AddModule
    <3>2. pos \in Nat /\ name \in Name /\ t \in Modules \cup {Network}
      BY <2>1, ProjectTreeAssumption DEF AddModule, Offered, FreeNames
    <3>3. QED
      BY <1>1, <3>1, <3>2, CreateStep
  <2>2. CASE AddValve(at, t)
    <3>1. PICK h \in HM \ Exists(net), name \in FreeNames, pos \in Offered(at, t) :
             net' = Create(VerifyNewPos(net, t, pos), h, t, pos, "circuit", name)
      BY <2>2 DEF AddValve
    <3>2. pos \in Nat /\ name \in Name /\ t \in Modules \cup {Network}
      BY <2>2, ProjectTreeAssumption DEF AddValve, Offered, FreeNames
    <3>3. QED
      BY <1>1, <3>1, <3>2, CreateStep
  <2>3. QED
    BY <2>1, <2>2
<1>3. clip' = NULL /\ cut' = {} /\ lastOp' = lastOp /\ failure' = failure
  BY DEF AddModule, AddValve, CleanClipboard
<1>4. QED
  BY <1>2, <1>3, IInvFrom

\* A position is edited.
LEMMA EditPositionStep ==
  ASSUME IInv, failure = "none", NEW h \in HM, NEW t \in Tables, NEW pos \in 1 .. MaxPos,
         EditPosition(h, t, pos)
  PROVE  IInv' /\ Kept(net, net')
<1>1. net \in Net /\ Tree(net) /\ pos \in Nat
  BY ProjectTreeAssumption DEF IInv, TypeOK
<1>2. net' \in Net /\ Tree(net') /\ Kept(net, net')
  <2>1. CASE net' = SetPos(net, h, pos)
    BY <1>1, <2>1, SetPosIs DEF Kept
  <2>2. ASSUME NEW x \in HM, net' = SetPos(SetPos(net, x, net.pos[h]), h, pos)
        PROVE  net' \in Net /\ Tree(net') /\ Kept(net, net')
    <3>1. PICK p \in Nat : p = net.pos[h]
      BY <1>1, NetType
    <3>2. PICK n : n = SetPos(net, x, p)
      OBVIOUS
    <3>3. n \in Net /\ Tree(n) /\ Apart(n) = Apart(net)
      BY <1>1, <3>2, SetPosIs
    <3>4. net' = SetPos(n, h, pos)
      BY <2>2, <3>1, <3>2
    <3>5. QED
      BY <1>1, <3>3, <3>4, SetPosIs DEF Kept
  <2>3. QED
    BY <2>1, <2>2 DEF EditPosition, Children
<1>3. clip' = NULL /\ cut' = {} /\ lastOp' = lastOp /\ failure' = failure
  BY DEF EditPosition, CleanClipboard
<1>4. QED
  BY <1>2, <1>3, IInvFrom

\* A row is dragged in the sheet.
LEMMA ChangePositionStep ==
  ASSUME IInv, failure = "none", NEW h \in HM, NEW pos \in 1 .. MaxPos, ChangePosition(h, pos)
  PROVE  IInv' /\ Kept(net, net')
<1>1. net \in Net /\ Tree(net) /\ pos \in Nat /\ \A x \in HM : net.pos[x] \in Nat
  BY ProjectTreeAssumption, NetType DEF IInv, TypeOK
<1> DEFINE old == net.pos[h]
           Shifted(x) == IF net.pos[x] \in old + 1 .. pos THEN net.pos[x] - 1
                         ELSE IF net.pos[x] \in pos .. old - 1 THEN net.pos[x] + 1
                         ELSE net.pos[x]
           new == [x \in HM |-> IF x = h THEN pos
                                ELSE IF x \in Children(net, net.parent[h]) THEN Shifted(x)
                                ELSE net.pos[x]]
<1>2. net' = [net EXCEPT !.pos = new]
  BY <1>1 DEF ChangePosition, Net
<1>3. new \in [HM -> Nat]
  <2>1. \A x \in HM : Shifted(x) \in Nat
    BY <1>1
  <2> HIDE DEF Shifted
  <2>2. QED
    BY <1>1, <2>1
<1> HIDE DEF new
<1>4. /\ net' \in Net /\ net'.parent = net.parent /\ net'.kind = net.kind
      /\ net'.level = net.level
  BY <1>1, <1>2, <1>3 DEF Net
<1>5. Tree(net') /\ Kept(net, net')
  BY <1>1, <1>4, SameTree DEF Kept
<1>6. clip' = clip /\ cut' = {} /\ lastOp' = lastOp /\ failure' = failure
  BY DEF ChangePosition
<1>7. QED
  BY <1>4, <1>5, <1>6, IInvFrom

\* A branch is deleted.
LEMMA DeleteStep ==
  ASSUME IInv, failure = "none", NEW h \in HM, Delete(h)
  PROVE  IInv' /\ Ordered(net, net') /\ Kept(net, net')
<1>1. net \in Net /\ Tree(net)
  BY DEF IInv, TypeOK
<1>2. PICK x \in InNetwork(net) : net' = DeleteHM(net, x)
  BY DEF Delete, FindHydroMod
<1>3. net' \in Net /\ Tree(net') /\ Ordered(net, net') /\ Kept(net, net')
  BY <1>1, <1>2, DeleteHMTree DEF Ordered, Kept
<1>4. clip' = NULL /\ cut' = {} /\ lastOp' = lastOp /\ failure' = failure
  BY DEF Delete, CleanClipboard
<1>5. QED
  BY <1>3, <1>4, IInvFrom

\* A branch is copied or cut.
LEMMA CopyCutStep ==
  ASSUME IInv, failure = "none", NEW h \in HM, Copy(h) \/ Cut(h)
  PROVE  IInv' /\ net' = net
<1>1. net \in Net /\ Tree(net) /\ h \in InNetwork(net) /\ CopyHMToClipBoard(h)
  BY DEF IInv, TypeOK, Copy, Cut
<1>2. /\ Branch(net, h) \in SUBSET HM /\ clip' \in Clip(Branch(net, h)) /\ ClipTree(clip')
  BY <1>1, CopyIsClip
<1>3. /\ net' = net /\ failure' = failure /\ lastOp' \in {"copy", "cut"}
      /\ cut' # {} => lastOp' = "cut"
      /\ cut' \subseteq HM
  BY <1>2 DEF Copy, Cut
<1>4. TypeOK'
  BY <1>1, <1>2, <1>3 DEF IInv, TypeOK, Net, Clip
<1>5. (failure = "none" => Tree(net))'
  BY <1>1, <1>3 DEF Tree, Bare, InModules, Levels, Exists, InNetwork, IsaModule,
                    ChildLevel, Branch, Closed
<1>6. (clip # NULL => ClipTree(clip))'
  BY <1>2 DEF ClipTree
<1>7. Marked'
  <2>1. /\ clip'.root = h /\ DOMAIN clip'.kind = Branch(net, h)
        /\ \A x \in Branch(net, h) : clip'.name[x] = net.name[x]
    BY <1>1 DEF CopyHMToClipBoard
  <2>2. QED
    BY <1>1, <1>3, <2>1 DEF Marked, InNetwork, Branch, Closed
<1>8. QED
  BY <1>3, <1>4, <1>5, <1>6, <1>7 DEF IInv

\* The clipboard is pasted in a table.
LEMMA PasteInStep ==
  ASSUME IInv, failure = "none", NEW t \in Tables, PasteIn(t)
  PROVE  IInv' /\ Ordered(net, net') /\ Kept(net, net')
<1>1. net \in Net /\ Tree(net) /\ ClipTree(clip) /\ t \in Modules \cup {Network}
  BY DEF IInv, TypeOK, PasteIn
<1>2. PICK D \in SUBSET HM : clip \in Clip(D)
  BY DEF IInv, TypeOK, PasteIn
<1>3. PICK copy \in FreshCopies :
         PasteDone(SetPos(SetHMLevel(CreateCopyHM(net, copy, t), copy[clip.root],
                                     ChildLevel(net, t)),
                          copy[clip.root], GetCount(net, t) + 1), t)
  BY DEF PasteIn
<1>4. PICK h : h = copy[clip.root]
  OBVIOUS
<1>5. PICK n : n = SetPos(SetHMLevel(CreateCopyHM(net, copy, t), h, ChildLevel(net, t)),
                          h, GetCount(net, t) + 1)
  OBVIOUS
<1>6. PasteDone(n, t)
  BY <1>3, <1>4, <1>5
<1>7. /\ n \in Net /\ Tree(n) /\ Kept(net, n) /\ \A x \in Exists(net) : n.pos[x] = net.pos[x]
  BY <1>1, <1>2, <1>4, <1>5, PasteInIs
<1>8. PICK m \in Net : /\ m = SetHMLevel(CreateCopyHM(net, copy, t), h, ChildLevel(net, t))
                       /\ n.parent = m.parent
  BY <1>1, <1>2, <1>4, <1>5, PasteInIs
<1>9. \A x \in Exists(net) : n.parent[x] = net.parent[x]
  <2>1. t \in {Network} \cup {x \in InNetwork(net) : IsaModule(net, x)}
    BY <1>1 DEF Modules
  <2>2. PICK c : c = CreateCopyHM(net, copy, t)
    OBVIOUS
  <2>3. m = SetHMLevel(c, h, ChildLevel(net, t))
    BY <1>8, <2>2
  <2>4. \A x \in Exists(net) : m.parent[x] = net.parent[x]
    BY <1>1, <1>2, <1>4, <2>1, <2>2, <2>3, CreateCopyTree
  <2>5. QED
    BY <1>8, <2>4
<1>10. Ordered(net, net') /\ Kept(net, net')
  BY <1>6, <1>7, <1>9, PasteDoneIs DEF Ordered, Kept
<1>11. IInv'
  BY <1>6, <1>7, PasteDoneIs, IInvFrom
<1>12. QED
  BY <1>10, <1>11

\* The clipboard is pasted before an object.
LEMMA PasteBeforeStep ==
  ASSUME IInv, failure = "none", NEW x0 \in HM, PasteBefore(x0)
  PROVE  IInv' /\ Ordered(net, net') /\ Kept(net, net')
<1>1. net \in Net /\ Tree(net) /\ ClipTree(clip) /\ x0 \in InNetwork(net)
  BY DEF IInv, TypeOK, PasteBefore
<1>2. PICK D \in SUBSET HM : clip \in Clip(D)
  BY DEF IInv, TypeOK, PasteBefore
<1>3. PICK t : t = net.parent[x0]
  OBVIOUS
<1>4. PICK copy \in FreshCopies :
         PasteDone(SetPos(VerifyNewPos(
           SetPos(SetHMLevel(CreateCopyHM(net, copy, t), copy[clip.root], net.level[x0]),
                  copy[clip.root], 0), t, net.pos[x0]), copy[clip.root], net.pos[x0]), t)
  BY <1>3 DEF PasteBefore
<1>5. PICK h : h = copy[clip.root]
  OBVIOUS
<1>6. PICK m : m = SetHMLevel(CreateCopyHM(net, copy, t), h, net.level[x0])
  OBVIOUS
<1>7. PICK n : n = SetPos(VerifyNewPos(SetPos(m, h, 0), t, net.pos[x0]), h, net.pos[x0])
  OBVIOUS
<1>8. PasteDone(n, t)
  BY <1>4, <1>5, <1>6, <1>7
<1>9. /\ n \in Net /\ Tree(n) /\ Kept(net, n) /\ n.parent = m.parent /\ m \in Net
      /\ m = SetHMLevel(CreateCopyHM(net, copy, t), h, ChildLevel(net, t))
      /\ \A x, y \in Exists(net) : net.parent[x] = net.parent[y] /\ net.pos[x] < net.pos[y]
                                   => n.pos[x] < n.pos[y]
  BY <1>1, <1>2, <1>3, <1>5, <1>6, <1>7, PasteBeforeIs
<1>10. \A x \in Exists(net) : n.parent[x] = net.parent[x]
  <2>1. t \in {Network} \cup {x \in InNetwork(net) : IsaModule(net, x)}
    BY <1>1, <1>3, ParentIs
  <2>2. PICK c : c = CreateCopyHM(net, copy, t)
    OBVIOUS
  <2>3. m = SetHMLevel(c, h, ChildLevel(net, t))
    BY <1>9, <2>2
  <2>4. \A x \in Exists(net) : m.parent[x] = net.parent[x]
    BY <1>1, <1>2, <1>5, <2>1, <2>2, <2>3, CreateCopyTree
  <2>5. QED
    BY <1>9, <2>4
<1>11. Ordered(net, net') /\ Kept(net, net')
  BY <1>8, <1>9, <1>10, PasteDoneIs DEF Ordered, Kept
<1>12. IInv'
  BY <1>8, <1>9, PasteDoneIs, IInvFrom
<1>13. QED
  BY <1>11, <1>12

\* A branch is dropped.  It is lost, without a failure, when it is connected
\* below itself.
LEMMA OnLButtonUpStep ==
  ASSUME IInv, failure = "none", NEW h \in HM, NEW t \in Tables, OnLButtonUp(h, t)
  PROVE  /\ IInv' /\ Ordered(net, net')
         /\ \/ Kept(net, net') \/ failure' # "none"
            \/ ConnectedBelow(h) /\ Apart(net') \subseteq Apart(net) \cup Branch(net, h)
<1>1. /\ net \in Net /\ Tree(net) /\ h \in InNetwork(net)
      /\ \A x \in HM : net.pos[x] \in Nat
  BY NetType DEF IInv, TypeOK, OnLButtonUp
<1>2. /\ net.parent[h] \in Tables /\ h \in Exists(net) /\ h \in Branch(net, h)
      /\ Exists(net) \subseteq HM
  BY <1>1, ParentIs, NetType
<1>3. /\ t # h /\ t # net.parent[h]
      /\ t # Network => t \in InNetwork(net) /\ IsaModule(net, t)
  BY DEF OnLButtonUp, DropTargets, Modules
<1>4. cut' = {} /\ clip' = clip /\ lastOp' = lastOp
  BY DEF OnLButtonUp
<1>5. CASE UNCHANGED <<net, failure>>
  <2>1. Ordered(net, net') /\ Kept(net, net')
    BY <1>1, <1>2, <1>5 DEF Ordered, Kept
  <2>2. net' \in Net /\ (failure' = "none" => Tree(net'))
    BY <1>1, <1>5
  <2>3. QED
    BY <1>4, <1>5, <2>1, <2>2, IInvFrom
<1>6. ASSUME NEW pos \in Nat, Moved(h, t, pos)
      PROVE  IInv' /\ Ordered(net, net') /\ (Kept(net, net') \/ failure' # "none")
  <2>1. /\ net' = MoveBranch(net, h, t, pos) /\ failure' \in {"stackOverflow", failure}
        /\ failure' = "none" => t \notin Branch(net, h)
    BY <1>6 DEF Moved
  <2>2. /\ net' \in Net /\ net'.parent[h] = t
        /\ \A x \in HM \ {h} : net'.parent[x] = net.parent[x]
        /\ failure' = "none" => Tree(net') /\ Kept(net, net')
        /\ \A x, y \in HM \ {h} : net.parent[x] = net.parent[y] /\ net.pos[x] < net.pos[y]
                                  => net'.pos[x] <= net'.pos[y]
    BY <1>1, <1>2, <1>3, <2>1, MoveBranchIs DEF Kept
  <2>3. ASSUME NEW x \in Exists(net), NEW y \in Exists(net),
               net.parent[x] = net.parent[y], net'.parent[x] = net'.parent[y],
               net.pos[x] < net.pos[y]
        PROVE  net'.pos[x] <= net'.pos[y]
    <3>1. x # h /\ y # h /\ x \in HM /\ y \in HM
      BY <1>1, <1>2, <1>3, <2>2, <2>3
    <3>2. QED
      BY <2>2, <2>3, <3>1
  <2>4. Ordered(net, net')
    BY <2>3 DEF Ordered
  <2>5. QED
    BY <1>4, <2>1, <2>2, <2>4, IInvFrom
<1>7. ASSUME NEW valve \in Children(net, t), Connected(h, valve)
      PROVE  /\ IInv' /\ Ordered(net, net')
             /\ \/ Kept(net, net')
                \/ ConnectedBelow(h) /\ Apart(net') \subseteq Apart(net) \cup Branch(net, h)
  <2>1. /\ net' = ConnectBranch(net, h, valve) /\ failure' = failure
        /\ net.kind[h] = "module" /\ net.kind[valve] = "circuit"
    BY <1>7 DEF Connected, IsaModule
  <2>2. valve \in HM /\ net.parent[valve] = t
    BY <1>7 DEF Children
  <2>3. valve # h /\ valve \in InNetwork(net)
    BY <1>1, <1>3, <2>1, <2>2, Tabling, BranchDown DEF InNetwork
  <2>4. /\ net' \in Net /\ Tree(net') /\ Apart(net') \subseteq Apart(net) \cup Branch(net, h)
        /\ valve \notin Branch(net, h) => Apart(net') \subseteq Apart(net)
    BY <1>1, <1>2, <2>1, <2>2, <2>3, ConnectBranchIs
  <2>5. /\ net'.kind[h] = "none"
        /\ \A x, y \in HM \ {h} : net.parent[x] = net.parent[y] /\ net.pos[x] < net.pos[y]
                                  => net'.pos[x] <= net'.pos[y]
    BY <1>1, <1>2, <2>1, <2>2, <2>3, ConnectBranchIs
  <2>6. ASSUME valve \in Branch(net, h)
        PROVE  ConnectedBelow(h)
    <3>1. t \in Branch(net, h)
      BY <1>1, <1>2, <1>3, <2>2, <2>3, <2>6, BranchUp, Tabling
    <3>2. QED
      BY <1>7, <3>1 DEF ConnectedBelow
  <2>7. Ordered(net, net')
    BY <1>2, <2>5 DEF Ordered, Exists
  <2>8. IInv'
    BY <1>4, <2>1, <2>4, IInvFrom
  <2>9. QED
    BY <2>4, <2>6, <2>7, <2>8 DEF Kept
<1>8. GetLastBranchPos(net, t) + 1 \in Nat /\ 1 .. GetLastBranchPos(net, t) + 1 \subseteq Nat
  BY <1>1, GetLastBranchPosType
<1>9. QED
  BY <1>5, <1>6, <1>7, <1>8 DEF OnLButtonUp
-----------------------------------------------------------------------------
(* A cut branch that is pasted.                                            *)

\* What is found by the name of the cut branch is this branch or its copy, the
\* table pasted in is in neither, and the names left are the same ones.
LEMMA CutPasted ==
  ASSUME net \in Net, Tree(net), NEW D \in SUBSET HM, clip \in Clip(D), ClipTree(clip),
         Marked, cut # {}, NamesDiffer(net), failure = "none",
         NEW copy \in FreshCopies, NEW h, h = copy[clip.root],
         NEW t \in Modules \cup {Network}, t \notin D,
         NEW m, m = SetHMLevel(CreateCopyHM(net, copy, t), h, ChildLevel(net, t)),
         NEW n \in Net, Tree(n), n.parent = m.parent, n.kind = m.kind, n.name = m.name,
         PasteDone(n, t)
  PROVE  /\ failure' = "none" /\ NamesDiffer(net')
         /\ {net'.name[x] : x \in Exists(net')} = {net.name[x] : x \in Exists(net)}
<1>1. PICK r : r = clip.root
  OBVIOUS
<1>2. /\ lastOp = "cut" /\ r \in InNetwork(net) /\ D = Branch(net, r)
      /\ \A x \in D : clip.name[x] = net.name[x]
  BY <1>1 DEF Marked, Clip
<1>3. t \in {Network} \cup {x \in InNetwork(net) : IsaModule(net, x)}
  BY DEF Modules
<1>4. /\ m \in Net /\ h \in HM \ Exists(net) /\ r \in D /\ m.parent[h] = t
      /\ copy \in [D -> HM \ Exists(net)] /\ \A x, y \in D : copy[x] = copy[y] => x = y
      /\ Exists(m) = Exists(net) \cup {copy[x] : x \in D}
      /\ \A x \in Exists(net) : m.parent[x] = net.parent[x] /\ m.name[x] = net.name[x]
      /\ \A x \in D : m.name[copy[x]] = clip.name[x] /\ copy[x] \in Branch(m, h)
  <2>1. PICK c : c = CreateCopyHM(net, copy, t)
    OBVIOUS
  <2>2. m = SetHMLevel(c, h, ChildLevel(net, t))
    BY <2>1
  <2>3. QED
    BY <1>1, <1>3, <2>1, <2>2, CreateCopyTree
<1>5. /\ Exists(net) \subseteq HM /\ r \in Exists(net) /\ r \in HM
      /\ D \subseteq Exists(net) /\ t \in Exists(net) \cup {Network}
  BY <1>2, <1>3, Tabling, BranchNested, InNetworkExists, NetType
     DEF Tree, InNetwork
<1> DEFINE new == {copy[x] : x \in D}
<1>6. new \subseteq HM \ Exists(net) /\ t \notin new /\ h \in new
  BY <1>1, <1>4, <1>5, Tabling
<1>7. /\ Exists(n) = Exists(net) \cup new
      /\ \A x \in Exists(net) : n.parent[x] = net.parent[x] /\ n.name[x] = net.name[x]
      /\ \A x \in D : n.name[copy[x]] = net.name[x] /\ copy[x] \in Branch(n, h)
      /\ n.parent[h] = t
  <2>1. Exists(n) = Exists(m)
    BY DEF Exists
  <2>2. Branch(n, h) = Branch(m, h)
    BY <1>4, SameShape
  <2>3. QED
    BY <1>2, <1>4, <2>1, <2>2
<1>8. new \subseteq Branch(n, h)
  BY <1>7
<1>9. \A x \in Exists(net) : n.parent[x] \notin new
  BY <1>6, <1>7, Tabling, ParentExists
<1>10. \A x \in new : n.parent[x] \notin D
  <2>1. SUFFICES ASSUME NEW x \in new, n.parent[x] \in D PROVE FALSE
    OBVIOUS
  <2>2. x # h
    BY <1>7, <2>1
  <2>3. n.parent[x] \in Branch(n, h) \cup {h}
    BY <1>4, <1>8, <2>1, <2>2, Tabling, BranchUp
  <2>4. PICK y : y = n.parent[x]
    OBVIOUS
  <2>5. y \in Branch(n, h) /\ y \in Exists(net) /\ y \in HM
    BY <1>5, <1>6, <2>1, <2>3, <2>4
  <2>6. Branch(n, h) \subseteq new \cup {h}
    <3>1. \A z \in HM : n.parent[z] \in new \cup {h} => z \in new \cup {h}
      <4>1. \A z \in HM : n.parent[z] \in new => z \in new
        <5>1. \A z \in HM : n.parent[z] \in new => z \in Exists(n)
          BY <1>6, ProjectTreeAssumption DEF Tree, Bare
        <5>2. QED
          BY <1>7, <1>9, <5>1
      <4>2. QED
        BY <1>6, <4>1
    <3>2. Closed(n, new \cup {h}) /\ new \in SUBSET HM
      BY <1>6, <3>1 DEF Closed
    <3> HIDE DEF new
    <3>3. QED
      BY <3>2, BranchLeast
  <2>7. QED
    BY <1>6, <2>5, <2>6
<1> HIDE DEF new
<1>11. \A z \in HM \ Exists(n) : n.parent[z] = NULL
  BY DEF Tree, Bare
<1>12. Branch(n, h) = new
  <2>1. \A z \in HM : n.parent[z] \in new => z \in new
    BY <1>6, <1>7, <1>9, <1>11, ProjectTreeAssumption
  <2>2. Closed(n, new \cup {h}) /\ new \in SUBSET HM
    BY <1>6, <2>1 DEF Closed
  <2>3. Branch(n, h) \subseteq new \cup {h}
    BY <2>2, BranchLeast
  <2>4. QED
    BY <1>6, <1>8, <2>3
<1>13. Branch(n, r) = D
  <2>1. \A z \in HM : n.parent[z] \in D => z \in D
    <3>1. ASSUME NEW z \in HM, n.parent[z] \in D
          PROVE  z \in D
      <4>1. z \in Exists(net) /\ net.parent[z] \in D
        BY <1>5, <1>7, <1>10, <1>11, <3>1, ProjectTreeAssumption
      <4>2. QED
        BY <1>2, <1>5, <4>1, Tabling, BranchDown
    <3>2. QED
      BY <3>1
  <2>2. Closed(n, D \cup {r})
    BY <1>4, <2>1 DEF Closed
  <2>3. Branch(n, r) \subseteq D
    BY <1>4, <2>2, BranchLeast
  <2>4. \A z \in HM : net.parent[z] \in Branch(n, r) => z \in Branch(n, r)
    <3>1. ASSUME NEW z \in HM, net.parent[z] \in Branch(n, r)
          PROVE  z \in Branch(n, r)
      <4>1. z \in Exists(net)
        BY <1>5, <2>3, <3>1, ProjectTreeAssumption DEF Tree, Bare
      <4>2. n.parent[z] \in Branch(n, r)
        BY <1>7, <3>1, <4>1
      <4>3. QED
        BY <1>5, <3>1, <4>2, Tabling, BranchDown
    <3>2. QED
      BY <3>1
  <2>5. Closed(net, Branch(n, r) \cup {r}) /\ Branch(n, r) \in SUBSET HM /\ r \in Branch(n, r)
    BY <1>5, <2>3, <2>4, Tabling, BranchClosed DEF Closed
  <2>6. Branch(net, r) \subseteq Branch(n, r) \cup {r}
    BY <2>5, BranchLeast
  <2>7. QED
    BY <1>2, <2>3, <2>5, <2>6
<1>14. PICK x \in FindHydroMod(n, net.name[r]) :
          /\ net' = DeleteHM(n, x)
          /\ failure' = IF t \in Branch(n, x) THEN "freedTableUsed" ELSE failure
  BY <1>1, <1>2, <1>4 DEF PasteDone, RemoveCut
<1>15. x \in InNetwork(n) /\ n.name[x] = net.name[r]
  BY <1>14 DEF FindHydroMod
<1>16. /\ Tree(net') /\ net' \in Net /\ Exists(net') = Exists(n) \ Branch(n, x)
       /\ \A y \in Exists(net') : net'.name[y] = n.name[y]
  BY <1>14, <1>15, DeleteHMTree
<1>17. x \in {r, h}
  <2>1. x \in Exists(net) \cup new
    BY <1>7, <1>15, InNetworkExists DEF Tree
  <2>2. CASE x \in Exists(net)
    BY <1>4, <1>5, <1>7, <1>15, <2>2 DEF NamesDiffer
  <2>3. CASE x \in new
    <3>1. PICK y \in D : x = copy[y]
      BY <2>3 DEF new
    <3>2. net.name[y] = net.name[r]
      BY <1>7, <1>15, <3>1
    <3>3. y = r
      BY <1>4, <1>5, <3>2 DEF NamesDiffer
    <3>4. QED
      BY <1>1, <3>1, <3>3
  <2>4. QED
    BY <2>1, <2>2, <2>3
<1>18. CASE x = h
  <2>1. Exists(net') = Exists(net)
    BY <1>6, <1>7, <1>12, <1>16, <1>18
  <2>2. \A y \in Exists(net) : net'.name[y] = net.name[y]
    BY <1>7, <1>16, <2>1
  <2>3. failure' = "none"
    BY <1>6, <1>12, <1>14, <1>18
  <2>4. QED
    BY <2>1, <2>2, <2>3 DEF NamesDiffer
<1>19. CASE x = r
  <2>1. Exists(net') = (Exists(net) \ D) \cup new
    BY <1>5, <1>6, <1>7, <1>13, <1>16, <1>19
  <2>2. /\ \A y \in Exists(net) \ D : net'.name[y] = net.name[y]
        /\ \A y \in D : copy[y] \in Exists(net') /\ net'.name[copy[y]] = net.name[y]
    BY <1>7, <1>16, <2>1 DEF new
  <2>3. failure' = "none"
    BY <1>13, <1>14, <1>19
  <2>4. ASSUME NEW y \in Exists(net'), NEW z \in Exists(net'), net'.name[y] = net'.name[z]
        PROVE  y = z
    <3>1. PICK v \in Exists(net) : /\ net.name[v] = net'.name[y]
                                   /\ IF v \in D THEN y = copy[v] ELSE y = v
      BY <1>5, <2>1, <2>2 DEF new
    <3>2. PICK w \in Exists(net) : /\ net.name[w] = net'.name[z]
                                   /\ IF w \in D THEN z = copy[w] ELSE z = w
      BY <1>5, <2>1, <2>2 DEF new
    <3>3. v = w
      BY <2>4, <3>1, <3>2 DEF NamesDiffer
    <3>4. QED
      BY <3>1, <3>2, <3>3
  <2>5. {net'.name[y] : y \in Exists(net')} = {net.name[y] : y \in Exists(net)}
    <3>1. ASSUME NEW y \in Exists(net')
          PROVE  \E v \in Exists(net) : net.name[v] = net'.name[y]
      BY <1>5, <2>1, <2>2 DEF new
    <3>2. ASSUME NEW v \in Exists(net)
          PROVE  \E y \in Exists(net') : net'.name[y] = net.name[v]
      <4>1. CASE v \in D
        BY <2>2, <4>1
      <4>2. CASE v \notin D
        BY <2>1, <2>2, <4>2
      <4>3. QED
        BY <4>1, <4>2
    <3>3. QED
      BY <3>1, <3>2
  <2>6. QED
    BY <2>3, <2>4, <2>5 DEF NamesDiffer
<1>20. QED
  BY <1>17, <1>18, <1>19

\* A table in the cut branch is the branch itself or below it.
LEMMA InCutBranch ==
  ASSUME net \in Net, Tree(net), Marked, cut # {}, NEW D \in SUBSET HM, clip \in Clip(D),
         NEW t \in D
  PROVE  /\ t # Network /\ ItselfOrBelow(t)
         /\ clip.root \in InNetwork(net) /\ D = Branch(net, clip.root)
<1>1. PICK r : r = clip.root
  OBVIOUS
<1>2. /\ r \in InNetwork(net) /\ D = Branch(net, r) /\ clip.name[r] = net.name[r]
      /\ r \in HM /\ r \in D
  <2>1. r \in InNetwork(net) /\ DOMAIN clip.kind = Branch(net, r)
        /\ \A x \in DOMAIN clip.kind : clip.name[x] = net.name[x]
    BY <1>1 DEF Marked
  <2>2. r \in D /\ DOMAIN clip.kind = D
    BY <1>1 DEF Clip
  <2>3. QED
    BY <2>1, <2>2
<1>3. t \in HM /\ t # Network
  BY Tabling
<1>4. r \in {t} \cup Ancestors(net, t) /\ r # Network
  BY <1>2, <1>3, Tabling DEF Ancestors
<1>5. QED
  BY <1>1, <1>2, <1>3, <1>4 DEF ItselfOrBelow

\* Both ways to paste end so.
LEMMA PasteCut ==
  ASSUME IInv, failure = "none", Pasted, cut # {}, NamesDiffer(net),
         \/ \E t \in Tables : PasteIn(t)
         \/ \E x \in HM : PasteBefore(x)
  PROVE  /\ failure' = "none" /\ NamesDiffer(net')
         /\ {net'.name[x] : x \in Exists(net')} = {net.name[x] : x \in Exists(net)}
<1>1. net \in Net /\ Tree(net) /\ Marked
  BY DEF IInv, TypeOK
<1>2. ASSUME NEW t \in Tables, PasteIn(t)
      PROVE  /\ failure' = "none" /\ NamesDiffer(net')
             /\ {net'.name[x] : x \in Exists(net')} = {net.name[x] : x \in Exists(net)}
  <2>1. /\ ClipTree(clip) /\ t \in Modules \cup {Network}
        /\ \E D \in SUBSET HM : clip \in Clip(D)
    BY <1>2 DEF IInv, TypeOK, PasteIn
  <2>2. PICK D \in SUBSET HM : clip \in Clip(D)
    BY <2>1
  <2>3. t \notin D
    BY <1>1, <1>2, <2>2, InCutBranch DEF PasteIn
  <2>4. PICK copy \in FreshCopies :
           PasteDone(SetPos(SetHMLevel(CreateCopyHM(net, copy, t), copy[clip.root],
                                       ChildLevel(net, t)),
                            copy[clip.root], GetCount(net, t) + 1), t)
    BY <1>2 DEF PasteIn
  <2>5. PICK h : h = copy[clip.root]
    OBVIOUS
  <2>6. PICK n : n = SetPos(SetHMLevel(CreateCopyHM(net, copy, t), h, ChildLevel(net, t)),
                            h, GetCount(net, t) + 1)
    OBVIOUS
  <2>7. PasteDone(n, t)
    BY <2>4, <2>5, <2>6
  <2>8. /\ n \in Net /\ Tree(n)
        /\ \E m \in Net : /\ m = SetHMLevel(CreateCopyHM(net, copy, t), h, ChildLevel(net, t))
                          /\ n.parent = m.parent /\ n.kind = m.kind /\ n.name = m.name
    BY <1>1, <2>1, <2>2, <2>5, <2>6, PasteInIs
  <2>9. QED
    BY <1>1, <2>1, <2>2, <2>3, <2>5, <2>7, <2>8, CutPasted
<1>3. ASSUME NEW x0 \in HM, PasteBefore(x0)
      PROVE  /\ failure' = "none" /\ NamesDiffer(net')
             /\ {net'.name[x] : x \in Exists(net')} = {net.name[x] : x \in Exists(net)}
  <2>1. /\ ClipTree(clip) /\ x0 \in InNetwork(net) /\ ~BelowItself(x0)
        /\ \E D \in SUBSET HM : clip \in Clip(D)
    BY <1>3 DEF IInv, TypeOK, PasteBefore
  <2>2. PICK D \in SUBSET HM : clip \in Clip(D)
    BY <2>1
  <2>3. PICK t : t = net.parent[x0]
    OBVIOUS
  <2>4. t \in Modules \cup {Network} /\ x0 \in Exists(net)
    BY <1>1, <2>1, <2>3, ParentIs DEF Modules
  <2>5. t \notin D
    <3>1. SUFFICES ASSUME t \in D PROVE FALSE
      OBVIOUS
    <3>2. PICK r : r = clip.root
      OBVIOUS
    <3>3. r \in InNetwork(net) /\ D = Branch(net, r) /\ clip.name[r] = net.name[r]
      <4>1. r \in D /\ DOMAIN clip.kind = D
        BY <2>2, <3>2 DEF Clip
      <4>2. r \in InNetwork(net) /\ D = Branch(net, r)
        BY <1>1, <2>2, <3>1, <3>2, InCutBranch
      <4>3. QED
        BY <1>1, <3>2, <4>1, <4>2 DEF Marked
    <3>4. r \in Exists(net) /\ r \in HM /\ net.parent[r] \notin D
      BY <1>1, <3>3, ParentIs
    <3>5. x0 \in D
      BY <1>1, <2>3, <3>1, <3>3, <3>4, Tabling, BranchDown
    <3>6. x0 # r
      BY <2>3, <3>1, <3>4
    <3>7. net.name[x0] # clip.name[r]
      BY <2>4, <3>3, <3>4, <3>6 DEF NamesDiffer
    <3>8. ItselfOrBelow(x0)
      BY <1>1, <2>2, <3>5, InCutBranch
    <3>9. QED
      BY <2>1, <3>2, <3>7, <3>8 DEF BelowItself
  <2>6. PICK copy \in FreshCopies :
         PasteDone(SetPos(VerifyNewPos(
           SetPos(SetHMLevel(CreateCopyHM(net, copy, t), copy[clip.root], net.level[x0]),
                  copy[clip.root], 0), t, net.pos[x0]), copy[clip.root], net.pos[x0]), t)
    BY <1>3, <2>3 DEF PasteBefore
  <2>7. PICK h : h = copy[clip.root]
    OBVIOUS
  <2>8. PICK m : m = SetHMLevel(CreateCopyHM(net, copy, t), h, net.level[x0])
    OBVIOUS
  <2>9. PICK n : n = SetPos(VerifyNewPos(SetPos(m, h, 0), t, net.pos[x0]), h, net.pos[x0])
    OBVIOUS
  <2>10. PasteDone(n, t)
    BY <2>6, <2>7, <2>8, <2>9
  <2>11. /\ n \in Net /\ Tree(n) /\ n.parent = m.parent /\ m \in Net
         /\ n.kind = m.kind /\ n.name = m.name
         /\ m = SetHMLevel(CreateCopyHM(net, copy, t), h, ChildLevel(net, t))
    BY <1>1, <2>1, <2>2, <2>3, <2>7, <2>8, <2>9, PasteBeforeIs
  <2>12. QED
    BY <1>1, <2>1, <2>2, <2>4, <2>5, <2>7, <2>10, <2>11, CutPasted
<1>4. QED
  BY <1>2, <1>3

\* While names differ, the branch deleted is the one asked for.
LEMMA DeleteSelected ==
  ASSUME IInv, failure = "none", NamesDiffer(net), NEW h \in HM, Delete(h)
  PROVE  Lost = Branch(net, h)
<1>1. net \in Net /\ Tree(net) /\ h \in InNetwork(net)
  BY DEF IInv, TypeOK, Delete
<1>2. PICK x \in FindHydroMod(net, net.name[h]) : net' = DeleteHM(net, x)
  BY DEF Delete
<1>3. x \in InNetwork(net) /\ net.name[x] = net.name[h]
  BY <1>2 DEF FindHydroMod
<1>4. x = h
  BY <1>1, <1>3, InNetworkExists DEF NamesDiffer, Tree
<1>5. Exists(net') = Exists(net) \ Branch(net, h)
  BY <1>1, <1>2, <1>4, DeleteHMTree
<1>6. Branch(net, h) \subseteq Exists(net)
  BY <1>1, BranchNested, Tabling, InNetworkExists DEF InNetwork, Tree
<1>7. QED
  BY <1>5, <1>6 DEF Lost
-----------------------------------------------------------------------------
(* The theorems.                                                           *)

\* Each command keeps the invariant.
LEMMA NextIInv == IInv /\ [Next]_vars => IInv'
<1> SUFFICES ASSUME IInv, [Next]_vars PROVE IInv'
  OBVIOUS
<1>1. CASE UNCHANGED vars
  BY <1>1 DEF vars, IInv, TypeOK, Net, Clip, Tree, Bare, InModules, Levels, Exists,
              InNetwork, IsaModule, ChildLevel, Branch, Closed, ClipTree, Marked
<1>2. CASE Next
  <2>1. failure = "none" /\ Command
    BY <1>2 DEF Next
  <2>2. ASSUME NEW at \in Tables, NEW t \in Tables, AddModule(at, t) \/ AddValve(at, t)
        PROVE  IInv'
    BY <2>1, <2>2, AddStep
  <2>3. ASSUME NEW h \in HM, NEW t \in Tables, NEW pos \in 1 .. MaxPos,
               EditPosition(h, t, pos)
        PROVE  IInv'
    BY <2>1, <2>3, EditPositionStep
  <2>4. ASSUME NEW h \in HM, NEW pos \in 1 .. MaxPos, ChangePosition(h, pos)
        PROVE  IInv'
    BY <2>1, <2>4, ChangePositionStep
  <2>5. ASSUME NEW h \in HM, Delete(h) \/ Copy(h) \/ Cut(h) \/ PasteBefore(h)
        PROVE  IInv'
    BY <2>1, <2>5, DeleteStep, CopyCutStep, PasteBeforeStep
  <2>6. CASE Escape
    <3>1. /\ net' = net /\ clip' = NULL /\ cut' = {} /\ lastOp' = "undefined"
          /\ failure' = failure
      BY <2>6 DEF Escape, CleanClipboard
    <3>2. net' \in Net /\ (failure' = "none" => Tree(net'))
      BY <3>1 DEF IInv, TypeOK
    <3>3. QED
      BY <3>1, <3>2, IInvFrom
  <2>7. ASSUME NEW t \in Tables, PasteIn(t)
        PROVE  IInv'
    BY <2>1, <2>7, PasteInStep
  <2>8. ASSUME NEW h \in HM, NEW t \in Tables, OnLButtonUp(h, t)
        PROVE  IInv'
    BY <2>1, <2>8, OnLButtonUpStep
  <2>9. QED
    BY <2>1, <2>2, <2>3, <2>4, <2>5, <2>6, <2>7, <2>8 DEF Command
<1>3. QED
  BY <1>1, <1>2

\* The invariant of the project tree.
THEOREM ProjectTreeInvariance == Spec => []IInv
BY InitIInv, NextIInv, PTL DEF Spec

\* The types of the tree, of the clipboard and of the marks.
THEOREM ProjectTreeTypeCorrect == Spec => []TypeOK
<1>1. IInv => TypeOK
  BY DEF IInv
<1>2. QED
  BY <1>1, ProjectTreeInvariance, PTL

\* Whatever is moved, connected, pasted or removed, what is left and was found
\* from the hydraulic network, through modules, still is, as long as the program
\* runs; but for what is in a module that is connected below itself.
THEOREM ProjectTreeNothingLost == Spec => NothingLost
<1> DEFINE Lossless ==
             failure' = "none" =>
                \A x \in Detached(net') \ Detached(net) :
                   \E h \in HM : x \in Branch(net, h) /\ ConnectedBelow(h)
<1>1. ASSUME IInv, Next
      PROVE  Lossless
  <2>1. SUFFICES ASSUME failure' = "none",
                        NEW x \in Detached(net'), x \notin Detached(net)
                 PROVE  \E h \in HM : x \in Branch(net, h) /\ ConnectedBelow(h)
    OBVIOUS
  <2>2. failure = "none" /\ Command
    BY <1>1 DEF Next
  <2>3. IInv'
    BY <1>1, NextIInv
  <2>4. net \in Net /\ Tree(net) /\ net' \in Net /\ Tree(net')
    BY <1>1, <2>1, <2>2, <2>3 DEF IInv, TypeOK, Tree, Bare, InModules, Levels, Exists, InNetwork,
                             IsaModule, ChildLevel, Branch, Closed, Net
  <2>5. x \in Apart(net') /\ x \notin Apart(net)
    BY <2>1, <2>4, DetachedIs
  <2>6. ~Kept(net, net')
    BY <2>5 DEF Kept
  <2>7. net' # net
    BY <2>6 DEF Kept
  <2>8. ~ \E at, u \in Tables : AddModule(at, u) \/ AddValve(at, u)
    BY <1>1, <2>2, <2>6, AddStep
  <2>9. ~ \E h \in HM, u \in Tables, pos \in 1 .. MaxPos : EditPosition(h, u, pos)
    BY <1>1, <2>2, <2>6, EditPositionStep
  <2>10. ~ \E h \in HM, pos \in 1 .. MaxPos : ChangePosition(h, pos)
    BY <1>1, <2>2, <2>6, ChangePositionStep
  <2>11. ~ \E h \in HM : Delete(h) \/ Copy(h) \/ Cut(h) \/ PasteBefore(h)
    BY <1>1, <2>2, <2>6, <2>7, DeleteStep, CopyCutStep, PasteBeforeStep
  <2>12. ~Escape /\ ~ \E u \in Tables : PasteIn(u)
    BY <1>1, <2>2, <2>6, <2>7, PasteInStep DEF Escape
  <2>13. PICK h \in HM, u \in Tables : OnLButtonUp(h, u)
    BY <2>2, <2>8, <2>9, <2>10, <2>11, <2>12 DEF Command
  <2>14. ConnectedBelow(h) /\ Apart(net') \subseteq Apart(net) \cup Branch(net, h)
    BY <1>1, <2>1, <2>2, <2>6, <2>13, OnLButtonUpStep
  <2>15. QED
    BY <2>5, <2>14
<1> HIDE DEF Lossless
<1>2. ASSUME IInv, [Next]_vars
      PROVE  [Lossless]_vars
  BY <1>1, <1>2
<1>3. QED
  BY <1>2, ProjectTreeInvariance, PTL DEF Spec, NothingLost, Lossless

\* The level kept in an object is its depth, after every move and insertion.
THEOREM ProjectTreeLevelIsDepth == Spec => []LevelIsDepth
<1>1. IInv => LevelIsDepth
  BY TreeLevels DEF IInv, TypeOK, LevelIsDepth
<1>2. QED
  BY <1>1, ProjectTreeInvariance, PTL

\* Siblings keep their order, but for an edition and a drag in the sheet.
THEOREM ProjectTreeSiblingsKeepOrder == Spec => SiblingsKeepOrder
<1>1. ASSUME IInv, Next, ~Reordered
      PROVE  ~ \E x, y \in Exists(net) \cap Exists(net') : Reversed(x, y)
  <2>1. failure = "none" /\ Command
    BY <1>1 DEF Next
  <2>2. IInv'
    BY <1>1, NextIInv
  <2>3. Ordered(net, net')
    <3>1. ASSUME NEW at \in Tables, NEW t \in Tables, AddModule(at, t) \/ AddValve(at, t)
          PROVE  Ordered(net, net')
      BY <1>1, <2>1, <3>1, AddStep
    <3>2. ASSUME net' = net
          PROVE  Ordered(net, net')
      <4>1. \A x \in HM : net.pos[x] \in Nat
        BY <1>1, NetType DEF IInv, TypeOK
      <4>2. QED
        BY <3>2, <4>1 DEF Ordered, Exists
    <3>3. ASSUME NEW h \in HM, Delete(h) \/ Copy(h) \/ Cut(h) \/ PasteBefore(h)
          PROVE  Ordered(net, net')
      BY <1>1, <2>1, <3>2, <3>3, DeleteStep, CopyCutStep, PasteBeforeStep
    <3>4. ASSUME NEW t \in Tables, PasteIn(t)
          PROVE  Ordered(net, net')
      BY <1>1, <2>1, <3>4, PasteInStep
    <3>5. ASSUME NEW h \in HM, NEW t \in Tables, OnLButtonUp(h, t)
          PROVE  Ordered(net, net')
      BY <1>1, <2>1, <3>5, OnLButtonUpStep
    <3>6. CASE Escape
      BY <3>2, <3>6 DEF Escape
    <3>7. QED
      BY <1>1, <2>1, <3>1, <3>3, <3>4, <3>5, <3>6 DEF Command, Reordered
  <2>4. \A x \in HM : net'.pos[x] \in Nat
    BY <2>2, NetType DEF IInv, TypeOK
  <2>5. ASSUME NEW x \in Exists(net) \cap Exists(net'),
               NEW y \in Exists(net) \cap Exists(net'),
               Reversed(x, y)
        PROVE  FALSE
    <3>1. net'.pos[x] <= net'.pos[y]
      BY <2>3, <2>5 DEF Ordered, Reversed
    <3>2. net'.pos[x] > net'.pos[y] /\ x \in HM /\ y \in HM
      BY <2>5 DEF Reversed, Exists
    <3>3. QED
      BY <2>4, <3>1, <3>2
  <2>6. QED
    BY <2>5
<1>2. ASSUME IInv, [Next]_vars
      PROVE  [(\E x, y \in Exists(net) \cap Exists(net') : Reversed(x, y)) => Reordered]_vars
  BY <1>1, <1>2
<1>3. QED
  BY <1>2, ProjectTreeInvariance, PTL DEF Spec, SiblingsKeepOrder

\* A cut branch that is pasted is still there, once, if names differ and its
\* items were still marked.
THEOREM ProjectTreeCutLosesNothing == Spec => CutLosesNothing
<1> DEFINE Same == /\ failure' = "none" /\ NamesDiffer(net')
                   /\ {net'.name[h] : h \in Exists(net')} = {net.name[h] : h \in Exists(net)}
<1>1. ASSUME IInv, Next, Pasted, cut # {}, NamesDiffer(net)
      PROVE  Same
  <2>1. failure = "none" /\ Command
    BY <1>1 DEF Next
  <2>2. ~ \E at, t \in Tables : AddModule(at, t) \/ AddValve(at, t)
    BY <1>1 DEF AddModule, AddValve, Pasted
  <2>3. ~ \E h \in HM, t \in Tables, pos \in 1 .. MaxPos : EditPosition(h, t, pos)
    BY <1>1 DEF EditPosition, Pasted
  <2>4. ~ \E h \in HM, pos \in 1 .. MaxPos : ChangePosition(h, pos)
    BY <1>1 DEF ChangePosition, Pasted
  <2>5. ~ \E h \in HM : Delete(h) \/ Copy(h) \/ Cut(h)
    BY <1>1 DEF Delete, Copy, Cut, Pasted
  <2>6. ~Escape /\ ~ \E h \in HM, t \in Tables : OnLButtonUp(h, t)
    BY <1>1 DEF Escape, OnLButtonUp, Pasted
  <2>7. (\E t \in Tables : PasteIn(t)) \/ \E x \in HM : PasteBefore(x)
    BY <2>1, <2>2, <2>3, <2>4, <2>5, <2>6 DEF Command
  <2>8. QED
    BY <1>1, <2>1, <2>7, PasteCut
<1> HIDE DEF Same
<1>2. ASSUME IInv, [Next]_vars
      PROVE  [Pasted /\ cut # {} /\ NamesDiffer(net) => Same]_vars
  BY <1>1, <1>2
<1>3. QED
  BY <1>2, ProjectTreeInvariance, PTL DEF Spec, CutLosesNothing, Same

\* A deletion, by name, takes the selected branch if names differ.
THEOREM ProjectTreeDeleteTakesTheSelected == Spec => DeleteTakesTheSelected
<1>1. ASSUME IInv, Next, NamesDiffer(net), NEW h \in HM, Delete(h)
      PROVE  Lost = Branch(net, h)
  BY <1>1, DeleteSelected DEF Next
<1>2. ASSUME IInv, [Next]_vars
      PROVE  [Lost # {} /\ NamesDiffer(net)
                => \A h \in HM : Delete(h) => Lost = Branch(net, h)]_vars
  BY <1>1, <1>2
<1>3. QED
  BY <1>2, ProjectTreeInvariance, PTL DEF Spec, DeleteTakesTheSelected
-----------------------------------------------------------------------------
(* Positions.                                                              *)

\* The positions p of the objects of C are 1 to k.
Filled(C, p, k) ==
    /\ \A x, y \in C : p[x] = p[y] => x = y
    /\ \A x \in C : p[x] \in 1 .. k
    /\ \A i \in 1 .. k : \E x \in C : p[x] = i

\* Which is Fill, with the number of objects for k.
LEMMA FillIsFilled ==
  ASSUME NEW C \in SUBSET HM, NEW p
  PROVE  /\ Cardinality(C) \in Nat
         /\ Fill(C, p) => Filled(C, p, Cardinality(C))
         /\ \A k \in Nat : Filled(C, p, k) => Fill(C, p) /\ k = Cardinality(C)
<1> DEFINE c == Cardinality(C)
           f == [x \in C |-> p[x]]
<1>1. IsFiniteSet(C) /\ c \in Nat
  BY ProjectTreeAssumption, FS_Subset, FS_CardinalityType
<1>2. \A k \in Nat : IsFiniteSet(1 .. k) /\ Cardinality(1 .. k) = k
  BY FS_Interval
<1>3. ASSUME Fill(C, p)
      PROVE  Filled(C, p, c)
  <2>1. {p[x] : x \in C} = 1 .. c
    BY <1>3 DEF Fill
  <2>2. f \in Surjection(C, 1 .. c)
    BY <2>1 DEF Surjection
  <2>3. f \in Injection(C, 1 .. c)
    <3> HIDE DEF f
    <3>1. Cardinality(1 .. c) = Cardinality(C)
      BY <1>1, <1>2
    <3>2. QED
      BY <1>1, <2>2, <3>1, FS_Surjection
  <2>4. \A x, y \in C : p[x] = p[y] => x = y
    BY <2>3 DEF Injection, IsInjective
  <2>5. QED
    BY <2>1, <2>4 DEF Filled
<1>4. ASSUME NEW k \in Nat, Filled(C, p, k)
      PROVE  Fill(C, p) /\ k = c
  <2>1. {p[x] : x \in C} = 1 .. k
    BY <1>4 DEF Filled
  <2>2. f \in Surjection(C, 1 .. k)
    BY <2>1 DEF Surjection
  <2>3. f \in Injection(C, 1 .. k)
    BY <1>4, <2>2 DEF Filled, Injection, IsInjective, Surjection
  <2>4. ExistsBijection(C, 1 .. k)
    BY <2>2, <2>3 DEF ExistsBijection, Bijection
  <2>5. k = c
    BY <1>1, <1>2, <2>4, FS_Bijection
  <2>6. QED
    BY <2>1, <2>5 DEF Fill
<1>5. QED
  BY <1>1, <1>3, <1>4

\* Where the positions are the same.
LEMMA FilledSame ==
  ASSUME NEW C, NEW p, NEW k \in Nat, Filled(C, p, k), NEW q, \A x \in C : q[x] = p[x]
  PROVE  Filled(C, q, k)
BY DEF Filled

\* Copies at the positions of what they are copies of.
LEMMA FilledCopy ==
  ASSUME NEW C, NEW p, NEW k \in Nat, Filled(C, p, k), NEW copy, NEW q,
         \A x, y \in C : copy[x] = copy[y] => x = y,
         \A x \in C : q[copy[x]] = p[x]
  PROVE  Filled({copy[x] : x \in C}, q, k)
BY DEF Filled

\* An object put at a position that has been freed.
LEMMA FilledOpen ==
  ASSUME NEW C, NEW p, NEW k \in Nat, Filled(C, p, k), NEW h, h \notin C,
         NEW pos \in 1 .. k + 1, NEW q, q[h] = pos,
         \A x \in C : /\ p[x] >= pos => q[x] = p[x] + 1
                      /\ p[x] < pos => q[x] = p[x]
  PROVE  Filled(C \cup {h}, q, k + 1)
<1>1. \A x \in C : /\ p[x] \in 1 .. k /\ q[x] \in 1 .. k + 1 /\ q[x] # pos
  BY DEF Filled
<1>2. \A x, y \in C : q[x] = q[y] => x = y
  BY <1>1 DEF Filled
<1>3. ASSUME NEW i \in 1 .. k + 1
      PROVE  \E x \in C \cup {h} : q[x] = i
  <2>1. CASE i = pos
    BY <2>1
  <2>2. CASE i < pos
    <3>1. PICK x \in C : p[x] = i
      BY <2>2 DEF Filled
    <3>2. QED
      BY <2>2, <3>1
  <2>3. CASE i > pos
    <3>1. PICK x \in C : p[x] = i - 1
      BY <2>3 DEF Filled
    <3>2. QED
      BY <2>3, <3>1
  <2>4. QED
    BY <2>1, <2>2, <2>3
<1>4. QED
  BY <1>1, <1>2, <1>3 DEF Filled

\* An object taken away, and the hole filled.
LEMMA FilledClose ==
  ASSUME NEW C, NEW p, NEW k \in Nat, Filled(C, p, k), NEW h \in C, NEW q,
         \A x \in C \ {h} : /\ p[x] > p[h] => q[x] = p[x] - 1
                            /\ p[x] <= p[h] => q[x] = p[x]
  PROVE  k - 1 \in Nat /\ Filled(C \ {h}, q, k - 1)
<1>1. /\ \A x \in C : p[x] \in 1 .. k
      /\ \A x \in C \ {h} : p[x] # p[h] /\ q[x] \in 1 .. k - 1
  BY DEF Filled
<1>2. \A x, y \in C \ {h} : q[x] = q[y] => x = y
  BY <1>1 DEF Filled
<1>3. ASSUME NEW i \in 1 .. k - 1
      PROVE  \E x \in C \ {h} : q[x] = i
  <2>1. CASE i < p[h]
    <3>1. PICK x \in C : p[x] = i
      BY DEF Filled
    <3>2. QED
      BY <1>1, <2>1, <3>1
  <2>2. CASE i >= p[h]
    <3>1. PICK x \in C : p[x] = i + 1
      BY DEF Filled
    <3>2. QED
      BY <1>1, <2>2, <3>1
  <2>3. QED
    BY <1>1, <2>1, <2>2
<1>4. QED
  BY <1>1, <1>2, <1>3 DEF Filled

\* Two objects that exchange their positions.
LEMMA FilledSwap ==
  ASSUME NEW C, NEW p, NEW k \in Nat, Filled(C, p, k), NEW h \in C, NEW z \in C, NEW q,
         q[h] = p[z], q[z] = p[h], \A x \in C \ {h, z} : q[x] = p[x]
  PROVE  Filled(C, q, k)
<1>1. \A x \in C : q[x] \in 1 .. k
  BY DEF Filled
<1>2. \A x, y \in C : q[x] = q[y] => x = y
  BY DEF Filled
<1>3. ASSUME NEW i \in 1 .. k
      PROVE  \E x \in C : q[x] = i
  <2>1. PICK x \in C : p[x] = i
    BY DEF Filled
  <2>2. QED
    BY <2>1
<1>4. QED
  BY <1>1, <1>2, <1>3 DEF Filled

\* An object moved to a position, those in between shifted.
LEMMA FilledShift ==
  ASSUME NEW C, NEW p, NEW k \in Nat, Filled(C, p, k), NEW h \in C, NEW pos \in 1 .. k, NEW q,
         q[h] = pos,
         \A x \in C \ {h} : /\ p[h] < p[x] /\ p[x] <= pos => q[x] = p[x] - 1
                            /\ pos <= p[x] /\ p[x] < p[h] => q[x] = p[x] + 1
                            /\ ~(p[h] < p[x] /\ p[x] <= pos) /\ ~(pos <= p[x] /\ p[x] < p[h])
                                  => q[x] = p[x]
  PROVE  Filled(C, q, k)
<1>1. /\ \A x \in C : p[x] \in 1 .. k /\ q[x] \in 1 .. k
      /\ \A x \in C \ {h} : p[x] # p[h] /\ q[x] # pos
  BY DEF Filled
<1>2. \A x, y \in C : q[x] = q[y] => x = y
  <2>1. \A x, y \in C \ {h} : q[x] = q[y] => p[x] = p[y]
    BY <1>1
  <2>2. QED
    BY <1>1, <2>1 DEF Filled
<1>3. ASSUME NEW i \in 1 .. k
      PROVE  \E x \in C : q[x] = i
  <2>1. CASE i = pos
    BY <2>1
  <2>2. CASE p[h] <= i /\ i < pos
    <3>1. PICK x \in C : p[x] = i + 1
      BY <2>2 DEF Filled
    <3>2. QED
      BY <1>1, <2>2, <3>1
  <2>3. CASE pos < i /\ i <= p[h]
    <3>1. PICK x \in C : p[x] = i - 1
      BY <2>3 DEF Filled
    <3>2. QED
      BY <1>1, <2>3, <3>1
  <2>4. CASE i # pos /\ ~(p[h] <= i /\ i < pos) /\ ~(pos < i /\ i <= p[h])
    <3>1. PICK x \in C : p[x] = i
      BY DEF Filled
    <3>2. QED
      BY <1>1, <2>4, <3>1
  <2>5. QED
    BY <2>1, <2>2, <2>3, <2>4
<1>4. QED
  BY <1>1, <1>2, <1>3 DEF Filled

\* The tables of n are filled.
Fills(n) == \A t \in Tables : Fill(Children(n, t), n.pos)

\* One table of a network whose tables are filled.
LEMMA FillsIs ==
  ASSUME NEW n \in Net, Fills(n), NEW t \in Tables
  PROVE  \E k \in Nat : Filled(Children(n, t), n.pos, k) /\ k = GetCount(n, t)
BY FillIsFilled DEF Fills, Children, GetCount

\* And the other way round.
LEMMA FillsFrom ==
  ASSUME NEW n \in Net, \A t \in Tables : \E k \in Nat : Filled(Children(n, t), n.pos, k)
  PROVE  Fills(n)
<1>1. ASSUME NEW t \in Tables
      PROVE  Fill(Children(n, t), n.pos)
  <2>1. PICK C \in SUBSET HM : C = Children(n, t)
    BY DEF Children
  <2>2. PICK k \in Nat : Filled(C, n.pos, k)
    BY <2>1
  <2>3. Fill(C, n.pos)
    BY <2>2, FillIsFilled
  <2>4. QED
    BY <2>1, <2>3
<1>2. QED
  BY <1>1 DEF Fills

\* The last position is the number of objects.
LEMMA LastIs ==
  ASSUME NEW n \in Net, NEW t, NEW k \in Nat, Filled(Children(n, t), n.pos, k)
  PROVE  GetLastBranchPos(n, t) = k
<1> DEFINE S == {0} \cup {n.pos[h] : h \in Children(n, t)}
<1>1. S = 0 .. k
  <2>1. \A r \in S : r \in 0 .. k
    BY DEF Filled
  <2>2. \A r \in 0 .. k : r \in S
    <3>1. ASSUME NEW r \in 1 .. k
          PROVE  r \in S
      BY DEF Filled
    <3>2. QED
      BY <3>1
  <2>3. QED
    BY <2>1, <2>2
<1>2. k \in S /\ \A r \in S : k >= r
  <2> HIDE DEF S
  <2> QED BY <1>1
<1>3. \A s \in S : (\A r \in S : s >= r) => s = k
  <2> HIDE DEF S
  <2> QED BY <1>1, <1>2
<1>4. Max(S) \in S /\ \A r \in S : Max(S) >= r
  <2> HIDE DEF S
  <2> QED BY <1>2 DEF Max
<1>5. QED
  BY <1>3, <1>4 DEF GetLastBranchPos

\* Where no object has position pos, pos comes after the last.
LEMMA FilledNone ==
  ASSUME NEW C, NEW p, NEW k \in Nat, Filled(C, p, k), NEW pos \in 1 .. k + 1,
         \A x \in C : p[x] # pos
  PROVE  \A x \in C : p[x] < pos
<1>1. pos = k + 1
  <2>1. SUFFICES ASSUME pos \in 1 .. k PROVE FALSE
    OBVIOUS
  <2>2. QED
    BY <2>1 DEF Filled
<1>2. QED
  BY <1>1 DEF Filled

\* VerifyNewPos where it finds the position free.
LEMMA VerifyNewPosSame ==
  ASSUME NEW n \in Net, NEW t, NEW pos \in Nat, NEW m, m = VerifyNewPos(n, t, pos),
         \A x \in Children(n, t) : n.pos[x] # pos
  PROVE  m = n
BY DEF VerifyNewPos

\* And where it does not.
LEMMA VerifyNewPosShifts ==
  ASSUME NEW n \in Net, NEW t, NEW pos \in Nat, NEW m, m = VerifyNewPos(n, t, pos),
         NEW z \in Children(n, t), n.pos[z] = pos
  PROVE  /\ \A x \in Children(n, t) : /\ n.pos[x] >= pos => m.pos[x] = n.pos[x] + 1
                                      /\ n.pos[x] < pos => m.pos[x] = n.pos[x]
         /\ \A x \in HM : x \notin Children(n, t) => m.pos[x] = n.pos[x]
<1>1. m = [n EXCEPT !.pos = [x \in HM |-> IF x \in Children(n, t) /\ n.pos[x] >= pos
                                          THEN n.pos[x] + 1 ELSE n.pos[x]]]
  BY DEF VerifyNewPos, Net
<1>2. \A x \in HM : m.pos[x] = IF x \in Children(n, t) /\ n.pos[x] >= pos
                               THEN n.pos[x] + 1 ELSE n.pos[x]
  BY <1>1 DEF Net
<1>3. \A x \in Children(n, t) : n.pos[x] \in Nat /\ x \in HM
  BY NetType DEF Children
<1>4. QED
  BY <1>2, <1>3

\* How a hole is closed.
LEMMA RemoveIndexHoleCloses ==
  ASSUME NEW n \in Net, NEW t, NEW pos \in Nat, NEW m, m = RemoveIndexHole(n, t, pos)
  PROVE  /\ \A x \in Children(n, t) : /\ n.pos[x] > pos => m.pos[x] = n.pos[x] - 1
                                      /\ n.pos[x] <= pos => m.pos[x] = n.pos[x]
         /\ \A x \in HM \ Children(n, t) : m.pos[x] = n.pos[x]
<1>1. m = [n EXCEPT !.pos = [h \in HM |-> IF h \in Children(n, t) /\ n.pos[h] > pos
                                          THEN n.pos[h] - 1 ELSE n.pos[h]]]
  BY DEF RemoveIndexHole, Net
<1>2. \A h \in HM : m.pos[h] = IF h \in Children(n, t) /\ n.pos[h] > pos
                               THEN n.pos[h] - 1 ELSE n.pos[h]
  BY <1>1 DEF Net
<1>3. \A x \in Children(n, t) : n.pos[x] \in Nat /\ x \in HM
  BY NetType DEF Children
<1>4. QED
  BY <1>2, <1>3

\* An object put in a table, others as they were.
LEMMA PutFills ==
  ASSUME NEW n \in Net, Fills(n), NEW m \in Net, NEW h \in HM, n.parent[h] = NULL,
         NEW t \in Tables, m.parent[h] = t, \A x \in HM \ {h} : m.parent[x] = n.parent[x],
         NEW pos \in 1 .. GetCount(n, t) + 1, m.pos[h] = pos,
         \A x \in Children(n, t) : /\ n.pos[x] >= pos => m.pos[x] = n.pos[x] + 1
                                   /\ n.pos[x] < pos => m.pos[x] = n.pos[x],
         \A x \in HM \ ({h} \cup Children(n, t)) : m.pos[x] = n.pos[x]
  PROVE  Fills(m)
<1>1. ASSUME NEW s \in Tables
      PROVE  \E k \in Nat : Filled(Children(m, s), m.pos, k)
  <2>1. PICK k \in Nat : Filled(Children(n, s), n.pos, k) /\ k = GetCount(n, s)
    BY FillsIs
  <2>2. CASE s = t
    <3>1. Children(m, t) = Children(n, t) \cup {h} /\ h \notin Children(n, t)
      BY Tabling DEF Children
    <3>2. Filled(Children(n, t) \cup {h}, m.pos, k + 1)
      <4>1. PICK C : C = Children(n, t)
        OBVIOUS
      <4>2. PICK p : p = n.pos
        OBVIOUS
      <4>3. PICK q : q = m.pos
        OBVIOUS
      <4>4. Filled(C, p, k) /\ h \notin C /\ pos \in 1 .. k + 1 /\ q[h] = pos
        BY <2>1, <2>2, <3>1, <4>1, <4>2, <4>3
      <4>5. \A x \in C : /\ p[x] >= pos => q[x] = p[x] + 1
                         /\ p[x] < pos => q[x] = p[x]
        BY <4>1, <4>2, <4>3
      <4>6. Filled(C \cup {h}, q, k + 1)
        BY <4>4, <4>5, FilledOpen
      <4>7. QED
        BY <4>1, <4>3, <4>6
    <3>3. QED
      BY <2>2, <3>1, <3>2
  <2>3. CASE s # t
    <3>1. Children(m, s) = Children(n, s)
      BY <2>3, Tabling DEF Children
    <3>2. \A x \in Children(n, s) : m.pos[x] = n.pos[x]
      BY <2>3, Tabling DEF Children
    <3>3. Filled(Children(n, s), m.pos, k)
      BY <2>1, <3>2, FilledSame
    <3>4. QED
      BY <3>1, <3>3
  <2>4. QED
    BY <2>2, <2>3
<1>2. QED
  BY <1>1, FillsFrom

\* A branch taken away.
LEMMA DeleteFills ==
  ASSUME NEW n \in Net, Tree(n), Fills(n), NEW h \in InNetwork(n), NEW m, m = DeleteHM(n, h)
  PROVE  Fills(m)
<1>1. /\ n.parent[h] \in Tables /\ n.parent[h] \notin Branch(n, h) /\ h \in HM
      /\ h \in Branch(n, h)
  BY ParentIs
<1>2. PICK B : B = Branch(n, h)
  OBVIOUS
<1>3. PICK t \in Tables : t = n.parent[h]
  BY <1>1
<1>4. PICK pos \in Nat : pos = n.pos[h]
  BY <1>1, NetType
<1>5. PICK f : f = Freed(n, B)
  OBVIOUS
<1>6. f \in Net
  BY <1>5, NetType, ProjectTreeAssumption DEF Freed, Net, Kind
<1>7. \A x \in HM : /\ x \in B => f.parent[x] = NULL
                    /\ x \notin B => f.parent[x] = n.parent[x] /\ f.pos[x] = n.pos[x]
  BY <1>5 DEF Freed
<1>8. m = RemoveIndexHole(f, t, pos)
  BY <1>2, <1>3, <1>4, <1>5 DEF DeleteHM
<1>9. m \in Net /\ m.parent = f.parent
  BY <1>6, <1>8, RemoveIndexHoleIs
<1>10. B \subseteq HM /\ \A x \in HM : n.parent[x] \in B => x \in B
  BY <1>1, <1>2, Tabling, BranchClosed DEF Closed
<1>11. \A x \in B : x # h => n.parent[x] \in B
  BY <1>1, <1>2, Tabling, BranchUp
<1>12. ASSUME NEW s \in Tables
       PROVE  \E k \in Nat : Filled(Children(m, s), m.pos, k)
  <2>1. PICK k \in Nat : Filled(Children(n, s), n.pos, k)
    BY FillsIs
  <2>2. CASE s \in B
    <3>1. Children(m, s) = {}
      BY <1>7, <1>9, <1>10, <2>2, Tabling DEF Children
    <3>2. Filled({}, m.pos, 0)
      BY DEF Filled
    <3>3. QED
      BY <3>1, <3>2
  <2>3. CASE s = t
    <3>1. Children(f, s) = Children(n, s) \ {h} /\ Children(m, s) = Children(f, s)
          /\ h \in Children(n, s)
      BY <1>1, <1>2, <1>3, <1>7, <1>9, <1>11, <2>3, Tabling DEF Children
    <3>2. \A x \in Children(n, s) \ {h} : f.pos[x] = n.pos[x]
      BY <1>7, <1>11, <1>1, <1>2, <1>3, <2>3 DEF Children
    <3>3. \A x \in Children(n, s) \ {h} : /\ n.pos[x] > pos => m.pos[x] = n.pos[x] - 1
                                          /\ n.pos[x] <= pos => m.pos[x] = n.pos[x]
      <4>1. \A x \in Children(f, t) : /\ f.pos[x] > pos => m.pos[x] = f.pos[x] - 1
                                      /\ f.pos[x] <= pos => m.pos[x] = f.pos[x]
        BY <1>6, <1>8, RemoveIndexHoleCloses
      <4>2. QED
        BY <2>3, <3>1, <3>2, <4>1
    <3>4. PICK C : C = Children(n, s)
      OBVIOUS
    <3>5. PICK p : p = n.pos
      OBVIOUS
    <3>6. PICK q : q = m.pos
      OBVIOUS
    <3>7. \A x \in C \ {h} : /\ p[x] > p[h] => q[x] = p[x] - 1
                             /\ p[x] <= p[h] => q[x] = p[x]
      BY <1>4, <3>3, <3>4, <3>5, <3>6
    <3>8. Filled(C, p, k) /\ h \in C
      BY <2>1, <3>1, <3>4, <3>5
    <3>9. k - 1 \in Nat /\ Filled(C \ {h}, q, k - 1)
      BY <3>7, <3>8, FilledClose
    <3>10. QED
      BY <3>1, <3>4, <3>6, <3>9
  <2>4. CASE s \notin B /\ s # t
    <3>1. Children(m, s) = Children(n, s) /\ Children(f, s) = Children(n, s)
          /\ Children(n, s) \cap B = {}
      BY <1>3, <1>7, <1>9, <1>11, <2>4, Tabling DEF Children
    <3>2. \A x \in Children(n, s) : m.pos[x] = f.pos[x] /\ f.pos[x] = n.pos[x]
      <4>1. \A x \in HM \ Children(f, t) : m.pos[x] = f.pos[x]
        BY <1>6, <1>8, RemoveIndexHoleCloses
      <4>2. \A x \in Children(n, s) : x \in HM \ Children(f, t) /\ x \notin B
        BY <1>7, <2>4, <3>1 DEF Children
      <4>3. QED
        BY <1>7, <4>1, <4>2
    <3>3. Filled(Children(n, s), m.pos, k)
      BY <2>1, <3>2, FilledSame
    <3>4. QED
      BY <3>1, <3>3
  <2>5. QED
    BY <2>2, <2>3, <2>4
<1>13. QED
  BY <1>9, <1>12, FillsFrom

\* A new object at a position verified in the table it goes to.
LEMMA CreateFills ==
  ASSUME NEW n \in Net, Tree(n), Fills(n), NEW h \in HM \ Exists(n), NEW t \in Tables,
         NEW pos \in 1 .. GetLastBranchPos(n, t) + 1, NEW kind, NEW name,
         NEW m \in Net, m = Create(VerifyNewPos(n, t, pos), h, t, pos, kind, name)
  PROVE  Fills(m)
<1>1. PICK k \in Nat : Filled(Children(n, t), n.pos, k) /\ k = GetCount(n, t)
  BY FillsIs
<1>2. pos \in 1 .. k + 1 /\ pos \in 1 .. GetCount(n, t) + 1 /\ pos \in Nat
  BY <1>1, LastIs
<1>3. n.parent[h] = NULL /\ h \notin Children(n, t)
  BY Tabling DEF Tree, Bare, Children
<1>4. PICK a : a = VerifyNewPos(n, t, pos)
  OBVIOUS
<1>5. a \in Net /\ a.parent = n.parent
  BY <1>2, <1>4, VerifyNewPosIs
<1>6. /\ \A x \in Children(n, t) : /\ n.pos[x] >= pos => a.pos[x] = n.pos[x] + 1
                                   /\ n.pos[x] < pos => a.pos[x] = n.pos[x]
      /\ \A x \in HM \ Children(n, t) : a.pos[x] = n.pos[x]
  <2>1. PICK C : C = Children(n, t)
    OBVIOUS
  <2>2. C = Children(n, t) \ {h} /\ Filled(C, n.pos, k)
    BY <1>1, <1>3, <2>1
  <2>3. /\ \A x \in C : /\ n.pos[x] >= pos => a.pos[x] = n.pos[x] + 1
                        /\ n.pos[x] < pos => a.pos[x] = n.pos[x]
        /\ \A x \in HM \ Children(n, t) : a.pos[x] = n.pos[x]
    <3>1. CASE \A x \in Children(n, t) : n.pos[x] # pos
      <4>1. a = n
        BY <1>2, <1>4, <3>1, VerifyNewPosSame
      <4>2. \A x \in C : n.pos[x] < pos /\ n.pos[x] \in Nat
        BY <1>2, <2>1, <2>2, <3>1, FilledNone, NetType DEF Children
      <4>3. QED
        BY <1>2, <4>1, <4>2
    <3>2. CASE \E x \in Children(n, t) : n.pos[x] = pos
      BY <1>2, <1>4, <2>1, <3>2, VerifyNewPosShifts
    <3>3. QED
      BY <3>1, <3>2
  <2>4. QED
    BY <2>1, <2>3
<1>7. /\ m.parent[h] = t /\ m.pos[h] = pos
      /\ \A x \in HM \ {h} : m.parent[x] = n.parent[x] /\ m.pos[x] = a.pos[x]
  <2>1. m = Create(a, h, t, pos, kind, name)
    BY <1>4
  <2>2. m.parent = [a.parent EXCEPT ![h] = t] /\ m.pos = [a.pos EXCEPT ![h] = pos]
    BY <1>5, <2>1 DEF Create, Insert, Net
  <2>3. a.parent \in [HM -> Tables \cup {NULL}] /\ a.pos \in [HM -> Nat]
    BY <1>5 DEF Net
  <2>4. QED
    BY <1>5, <2>2, <2>3
<1>8. Children(n, t) \subseteq HM \ {h}
  BY <1>3 DEF Children
<1>9. QED
  BY <1>2, <1>3, <1>6, <1>7, <1>8, PutFills

\* A branch moved.
LEMMA MoveFills ==
  ASSUME NEW n \in Net, Tree(n), Fills(n), NEW h \in InNetwork(n), NEW t \in Tables,
         t # n.parent[h], NEW pos \in 1 .. GetLastBranchPos(n, t) + 1,
         NEW m \in Net, m = MoveBranch(n, h, t, pos)
  PROVE  Fills(m)
<1>1. h \in HM /\ n.parent[h] \in Tables
  BY ParentIs
<1>2. PICK p \in Tables : p = n.parent[h]
  BY <1>1
<1>3. PICK old \in Nat : old = n.pos[h]
  BY <1>1, NetType
<1>4. PICK k \in Nat : Filled(Children(n, t), n.pos, k)
  BY FillsIs
<1>5. pos \in 1 .. k + 1 /\ pos \in Nat
  BY <1>4, LastIs
<1>6. PICK a : a = [n EXCEPT !.parent[h] = t]
  OBVIOUS
<1>7. PICK b : b = VerifyNewPos(a, t, pos)
  OBVIOUS
<1>8. PICK c : c = Insert(b, h, t, pos)
  OBVIOUS
<1>9. PICK d : d = RemoveIndexHole(c, p, old)
  OBVIOUS
<1>10. m = SetHMLevel(d, h, ChildLevel(n, t))
  BY <1>2, <1>3, <1>6, <1>7, <1>8, <1>9 DEF MoveBranch
<1>11. /\ a \in Net /\ a.pos = n.pos /\ a.parent[h] = t
       /\ \A x \in HM \ {h} : a.parent[x] = n.parent[x]
  <2>1. a \in Net /\ a.pos = n.pos /\ a.parent = [n.parent EXCEPT ![h] = t]
    BY <1>6 DEF Net
  <2>2. n.parent \in [HM -> Tables \cup {NULL}]
    BY DEF Net
  <2>3. QED
    BY <1>1, <2>1, <2>2
<1>12. /\ Children(a, t) \ {h} = Children(n, t) /\ h \notin Children(n, t)
       /\ Children(n, t) \subseteq HM
  BY <1>11 DEF Children
<1>13. b \in Net /\ b.parent = a.parent
  BY <1>5, <1>7, <1>11, VerifyNewPosIs
<1>14. /\ \A x \in Children(n, t) : /\ n.pos[x] >= pos => b.pos[x] = n.pos[x] + 1
                                    /\ n.pos[x] < pos => b.pos[x] = n.pos[x]
       /\ \A x \in HM \ ({h} \cup Children(n, t)) : b.pos[x] = n.pos[x]
  <2>1. PICK C : C = Children(n, t)
    OBVIOUS
  <2>2. C = Children(a, t) \ {h} /\ Filled(C, a.pos, k)
    BY <1>4, <1>11, <1>12, <2>1
  <2>3. /\ \A x \in C : /\ a.pos[x] >= pos => b.pos[x] = a.pos[x] + 1
                        /\ a.pos[x] < pos => b.pos[x] = a.pos[x]
        /\ \A x \in HM \ Children(a, t) : b.pos[x] = a.pos[x]
    <3>1. CASE \A x \in Children(a, t) : a.pos[x] # pos
      <4>1. b = a
        BY <1>5, <1>7, <1>11, <3>1, VerifyNewPosSame
      <4>2. \A x \in C : a.pos[x] < pos /\ a.pos[x] \in Nat
        <5>1. \A x \in C : a.pos[x] # pos /\ x \in HM
          BY <2>2, <3>1 DEF Children
        <5>2. \A x \in C : a.pos[x] < pos
          BY <1>5, <2>2, <5>1, FilledNone
        <5>3. QED
          BY <1>11, <5>1, <5>2, NetType
      <4>3. QED
        BY <1>5, <4>1, <4>2
    <3>2. CASE \E x \in Children(a, t) : a.pos[x] = pos
      BY <1>5, <1>7, <1>11, <2>2, <3>2, VerifyNewPosShifts
    <3>3. QED
      BY <3>1, <3>2
  <2>4. \A x \in HM \ ({h} \cup Children(n, t)) : x \notin Children(a, t)
    BY <1>12
  <2>5. QED
    BY <1>11, <2>1, <2>3, <2>4
<1>15. /\ c \in Net /\ c.parent = a.parent /\ c.pos[h] = pos
       /\ \A x \in HM \ {h} : c.pos[x] = b.pos[x]
  <2>1. /\ c \in Net /\ c.parent = [b.parent EXCEPT ![h] = t]
        /\ c.pos = [b.pos EXCEPT ![h] = pos]
    BY <1>1, <1>5, <1>8, <1>13 DEF Insert, Net
  <2>2. a.parent \in [HM -> Tables \cup {NULL}] /\ b.pos \in [HM -> Nat]
    BY <1>11, <1>13 DEF Net
  <2>3. c.parent = a.parent
    BY <1>1, <1>11, <1>13, <2>1, <2>2
  <2>4. QED
    BY <1>1, <2>1, <2>2, <2>3
<1>16. d \in Net /\ d.parent = a.parent
  BY <1>9, <1>15, RemoveIndexHoleIs
<1>17. /\ \A x \in Children(c, p) : /\ c.pos[x] > old => d.pos[x] = c.pos[x] - 1
                                    /\ c.pos[x] <= old => d.pos[x] = c.pos[x]
       /\ \A x \in HM \ Children(c, p) : d.pos[x] = c.pos[x]
  BY <1>9, <1>15, RemoveIndexHoleCloses
<1>18. m.parent = a.parent /\ m.pos = d.pos
  <2>1. ChildLevel(n, t) \in Nat
    BY ChildLevelType
  <2>2. QED
    BY <1>1, <1>10, <1>16, <2>1, SetHMLevelIs
<1>19. /\ Children(c, p) = Children(n, p) \ {h} /\ h \in Children(n, p)
       /\ Children(n, p) \cap Children(n, t) = {} /\ Children(n, p) \subseteq HM
       /\ \A s \in Tables : Children(m, s) = Children(c, s)
       /\ \A s \in Tables \ {p, t} : Children(c, s) = Children(n, s)
       /\ Children(c, t) = Children(n, t) \cup {h}
  BY <1>1, <1>2, <1>11, <1>15, <1>18 DEF Children
<1>20. ASSUME NEW s \in Tables
       PROVE  \E j \in Nat : Filled(Children(m, s), m.pos, j)
  <2>1. PICK j \in Nat : Filled(Children(n, s), n.pos, j)
    BY FillsIs
  <2>2. CASE s = p
    <3>1. \A x \in Children(n, p) \ {h} : /\ n.pos[x] > old => m.pos[x] = n.pos[x] - 1
                                          /\ n.pos[x] <= old => m.pos[x] = n.pos[x]
      BY <1>14, <1>15, <1>17, <1>18, <1>19
    <3>2. PICK C : C = Children(n, p)
      OBVIOUS
    <3>3. PICK f : f = n.pos
      OBVIOUS
    <3>4. PICK q : q = m.pos
      OBVIOUS
    <3>5. \A x \in C \ {h} : /\ f[x] > f[h] => q[x] = f[x] - 1
                             /\ f[x] <= f[h] => q[x] = f[x]
      BY <1>3, <3>1, <3>2, <3>3, <3>4
    <3>6. Filled(C, f, j) /\ h \in C
      BY <1>19, <2>1, <2>2, <3>2, <3>3
    <3>7. j - 1 \in Nat /\ Filled(C \ {h}, q, j - 1)
      BY <3>5, <3>6, FilledClose
    <3>8. QED
      BY <1>19, <2>2, <3>2, <3>4, <3>7
  <2>3. CASE s = t
    <3>1. /\ \A x \in Children(n, t) : x # h /\ x \in HM /\ x \notin Children(c, p)
          /\ h \notin Children(c, p)
      BY <1>12, <1>19
    <3>2. \A x \in Children(n, t) : m.pos[x] = b.pos[x]
      BY <1>15, <1>17, <1>18, <3>1
    <3>3. m.pos[h] = pos
      BY <1>1, <1>15, <1>17, <1>18, <3>1
    <3>4. PICK C : C = Children(n, t)
      OBVIOUS
    <3>5. PICK f : f = n.pos
      OBVIOUS
    <3>6. PICK q : q = m.pos
      OBVIOUS
    <3>7. \A x \in C : /\ f[x] >= pos => q[x] = f[x] + 1
                       /\ f[x] < pos => q[x] = f[x]
      BY <1>14, <3>2, <3>4, <3>5, <3>6
    <3>8. Filled(C, f, k) /\ h \notin C /\ q[h] = pos
      BY <1>4, <1>12, <3>3, <3>4, <3>5, <3>6
    <3>9. Filled(C \cup {h}, q, k + 1)
      BY <1>5, <3>7, <3>8, FilledOpen
    <3>10. QED
      BY <1>19, <2>3, <3>4, <3>6, <3>9
  <2>4. CASE s \notin {p, t}
    <3>1. Children(m, s) = Children(n, s)
      BY <1>19, <2>4
    <3>2. \A x \in Children(n, s) : /\ x \in HM \ ({h} \cup Children(n, t))
                                    /\ x \notin Children(c, p)
      BY <1>2, <1>19, <2>4 DEF Children
    <3>3. \A x \in Children(n, s) : m.pos[x] = n.pos[x]
      BY <1>14, <1>15, <1>17, <1>18, <3>2
    <3>4. Filled(Children(n, s), m.pos, j)
      BY <2>1, <3>3, FilledSame
    <3>5. QED
      BY <3>1, <3>4
  <2>5. QED
    BY <2>2, <2>3, <2>4
<1>21. QED
  BY <1>20, FillsFrom

\* A branch connected to a circuit.
LEMMA ConnectFills ==
  ASSUME NEW n \in Net, Tree(n), Fills(n), NEW h \in InNetwork(n), NEW valve \in HM,
         valve # h, n.kind[valve] = "circuit", NEW m \in Net, m = ConnectBranch(n, h, valve)
  PROVE  Fills(m)
<1>1. h \in HM /\ n.parent[h] \in Tables /\ n.parent[h] # valve /\ n.parent[h] # h
  BY ParentIs, Tabling DEF IsaModule
<1>2. \A x \in HM : n.parent[x] # valve
  <2>1. ASSUME NEW x \in HM
        PROVE  n.parent[x] # valve
    <3>1. CASE x \in Exists(n)
      BY <3>1, Tabling DEF Tree, InModules, IsaModule
    <3>2. CASE x \notin Exists(n)
      BY <3>2, Tabling DEF Tree, Bare
    <3>3. QED
      BY <3>1, <3>2
  <2>2. QED
    BY <2>1
<1>3. PICK p \in Tables : p = n.parent[h]
  BY <1>1
<1>4. PICK old \in Nat : old = n.pos[h]
  BY <1>1, NetType
<1>5. PICK e : e = SetHMLevel(n, h, n.level[valve])
  OBVIOUS
<1>6. PICK a : a = [e EXCEPT !.parent = [x \in HM |-> IF n.parent[x] = h THEN valve
                                                     ELSE n.parent[x]]]
  OBVIOUS
<1>7. PICK b : b = Freed(a, {h})
  OBVIOUS
<1>8. PICK d : d = RemoveIndexHole(b, p, old)
  OBVIOUS
<1>9. e \in Net /\ e.parent = n.parent /\ e.pos = n.pos
  <2>1. PICK level \in Nat : level = n.level[valve]
    BY NetType
  <2>2. e = SetHMLevel(n, h, level)
    BY <1>5, <2>1
  <2>3. QED
    BY <1>1, <2>2, SetHMLevelIs
<1>10. /\ a \in Net /\ a.pos = n.pos
       /\ \A x \in HM : a.parent[x] = IF n.parent[x] = h THEN valve ELSE n.parent[x]
  <2>1. \A x \in HM : n.parent[x] \in Tables \cup {NULL}
    BY NetType
  <2>2. QED
    BY <1>6, <1>9, <2>1, Tabling DEF Net
<1>11. /\ b \in Net
       /\ \A x \in HM : /\ x = h => b.parent[x] = NULL
                        /\ x # h => b.pos[x] = n.pos[x] /\ b.parent[x] = a.parent[x]
  <2>1. b \in Net
    BY <1>7, <1>10 DEF Freed, Net, Kind
  <2>2. QED
    BY <1>7, <1>10, <2>1 DEF Freed
<1>12. d \in Net /\ d.parent = b.parent
  BY <1>8, <1>11, RemoveIndexHoleIs
<1>13. /\ \A x \in Children(b, p) : /\ b.pos[x] > old => d.pos[x] = b.pos[x] - 1
                                    /\ b.pos[x] <= old => d.pos[x] = b.pos[x]
       /\ \A x \in HM \ Children(b, p) : d.pos[x] = b.pos[x]
  BY <1>8, <1>11, RemoveIndexHoleCloses
<1>14. m.parent = b.parent /\ m.pos = d.pos
  <2>1. a = [e EXCEPT !.parent = [x \in HM |-> IF e.parent[x] = h THEN valve ELSE e.parent[x]]]
    BY <1>6, <1>9
  <2>2. m = [d EXCEPT !.kind[valve] = "module"]
    BY <1>3, <1>4, <1>5, <1>7, <1>8, <2>1 DEF ConnectBranch, Net
  <2>3. QED
    BY <1>12, <2>2 DEF Net
<1>15. /\ \A s \in Tables :
            Children(m, s) = Children(b, s) /\ Children(b, s) \subseteq HM \ {h}
       /\ Children(b, h) = {} /\ Children(b, valve) = Children(n, h)
       /\ Children(b, p) = Children(n, p) \ {h} /\ h \in Children(n, p)
       /\ \A s \in Tables \ {h, valve, p} : Children(b, s) = Children(n, s)
  <2>1. \A s \in Tables : Children(m, s) = Children(b, s) /\ Children(b, s) \subseteq HM \ {h}
    BY <1>11, <1>14, Tabling DEF Children
  <2>2. Children(b, h) = {} /\ Children(b, valve) = Children(n, h)
    BY <1>1, <1>2, <1>3, <1>10, <1>11, Tabling DEF Children
  <2>3. /\ Children(b, p) = Children(n, p) \ {h} /\ h \in Children(n, p)
        /\ \A s \in Tables \ {h, valve, p} : Children(b, s) = Children(n, s)
    BY <1>1, <1>2, <1>3, <1>10, <1>11, Tabling DEF Children
  <2>4. QED
    BY <2>1, <2>2, <2>3
<1>16. ASSUME NEW s \in Tables
       PROVE  \E j \in Nat : Filled(Children(m, s), m.pos, j)
  <2>1. \A r \in Tables : \E j \in Nat : Filled(Children(n, r), n.pos, j)
    BY FillsIs
  <2>2. ASSUME s # p, NEW r \in Tables, Children(b, s) = Children(n, r)
        PROVE  \E j \in Nat : Filled(Children(m, s), m.pos, j)
    <3>1. PICK j \in Nat : Filled(Children(n, r), n.pos, j)
      BY <2>1
    <3>2. \A x \in Children(b, s) : x \in HM \ {h} /\ x \notin Children(b, p)
      BY <1>15, <2>2 DEF Children
    <3>3. \A x \in Children(n, r) : m.pos[x] = n.pos[x]
      BY <1>11, <1>13, <1>14, <2>2, <3>2
    <3>4. Filled(Children(n, r), m.pos, j)
      BY <3>1, <3>3, FilledSame
    <3>5. QED
      BY <1>15, <2>2, <3>4
  <2>3. CASE s = h
    <3>1. Filled({}, m.pos, 0)
      BY DEF Filled
    <3>2. QED
      BY <1>15, <2>3, <3>1
  <2>4. CASE s = p
    <3>1. PICK j \in Nat : Filled(Children(n, p), n.pos, j)
      BY <2>1
    <3>2. \A x \in Children(n, p) \ {h} : /\ n.pos[x] > old => m.pos[x] = n.pos[x] - 1
                                          /\ n.pos[x] <= old => m.pos[x] = n.pos[x]
      <4>1. \A x \in Children(n, p) \ {h} : x \in Children(b, p) /\ b.pos[x] = n.pos[x]
        BY <1>11, <1>15 DEF Children
      <4>2. QED
        BY <1>13, <1>14, <4>1
    <3>3. PICK C : C = Children(n, p)
      OBVIOUS
    <3>4. PICK f : f = n.pos
      OBVIOUS
    <3>5. PICK q : q = m.pos
      OBVIOUS
    <3>6. \A x \in C \ {h} : /\ f[x] > f[h] => q[x] = f[x] - 1
                             /\ f[x] <= f[h] => q[x] = f[x]
      BY <1>4, <3>2, <3>3, <3>4, <3>5
    <3>7. Filled(C, f, j) /\ h \in C
      BY <1>15, <3>1, <3>3, <3>4
    <3>8. j - 1 \in Nat /\ Filled(C \ {h}, q, j - 1)
      BY <3>6, <3>7, FilledClose
    <3>9. QED
      BY <1>15, <2>4, <3>3, <3>5, <3>8
  <2>5. CASE s = valve
    BY <1>1, <1>3, <1>15, <2>2, <2>5, Tabling
  <2>6. CASE s \notin {h, p, valve}
    BY <1>15, <2>2, <2>6
  <2>7. QED
    BY <2>3, <2>4, <2>5, <2>6
<1>17. QED
  BY <1>16, FillsFrom

\* A table that takes one more object.
LEMMA TableOpens ==
  ASSUME NEW n \in Net, Fills(n), NEW m \in Net, NEW h \in HM, NEW t \in Tables,
         n.parent[h] # t, \A x \in HM : m.parent[x] = t <=> n.parent[x] = t \/ x = h,
         NEW pos \in 1 .. GetCount(n, t) + 1, m.pos[h] = pos,
         \A x \in Children(n, t) : /\ n.pos[x] >= pos => m.pos[x] = n.pos[x] + 1
                                   /\ n.pos[x] < pos => m.pos[x] = n.pos[x]
  PROVE  \E k \in Nat : Filled(Children(m, t), m.pos, k)
<1>1. PICK k \in Nat : Filled(Children(n, t), n.pos, k) /\ k = GetCount(n, t)
  BY FillsIs
<1>2. Children(m, t) = Children(n, t) \cup {h} /\ h \notin Children(n, t)
  BY DEF Children
<1>3. PICK C : C = Children(n, t)
  OBVIOUS
<1>4. PICK p : p = n.pos
  OBVIOUS
<1>5. PICK q : q = m.pos
  OBVIOUS
<1>6. Filled(C, p, k) /\ h \notin C /\ pos \in 1 .. k + 1 /\ q[h] = pos
  BY <1>1, <1>2, <1>3, <1>4, <1>5
<1>7. \A x \in C : /\ p[x] >= pos => q[x] = p[x] + 1
                   /\ p[x] < pos => q[x] = p[x]
  BY <1>3, <1>4, <1>5
<1>8. Filled(C \cup {h}, q, k + 1)
  BY <1>6, <1>7, FilledOpen
<1>9. QED
  BY <1>2, <1>3, <1>5, <1>8

\* The copies, put in a table.
LEMMA CopyFills ==
  ASSUME net \in Net, Tree(net), Fills(net), NEW D \in SUBSET HM, clip \in Clip(D),
         ClipTree(clip), clip # NULL, ClipboardFills,
         NEW copy \in FreshCopies, NEW h, h = copy[clip.root],
         NEW t \in Modules \cup {Network},
         NEW m, m = SetHMLevel(CreateCopyHM(net, copy, t), h, ChildLevel(net, t)),
         NEW n \in Net, n.parent = m.parent, NEW pos, n.pos[h] = pos,
         pos \in 1 .. GetCount(net, t) + 1,
         \A x \in Children(net, t) : /\ net.pos[x] >= pos => n.pos[x] = net.pos[x] + 1
                                     /\ net.pos[x] < pos => n.pos[x] = net.pos[x],
         \A x \in HM : x # h /\ x \notin Children(net, t) => n.pos[x] = m.pos[x]
  PROVE  Fills(n)
<1> DEFINE E == Exists(net)
           new == {copy[x] : x \in D}
<1>1. PICK r : r = clip.root
  OBVIOUS
<1>2. /\ t \in {Network} \cup {x \in InNetwork(net) : IsaModule(net, x)} /\ t \in Tables
      /\ InNetwork(net) \subseteq E /\ E \subseteq HM
      /\ \A x \in HM \ E : net.parent[x] = NULL
  BY Tabling, InNetworkExists, NetType DEF Tree, Bare, Modules
<1>3. /\ m \in Net /\ Tree(m) /\ r \in D /\ h = copy[r] /\ m.parent[h] = t
      /\ copy \in [D -> HM \ E] /\ \A x, y \in D : copy[x] = copy[y] => x = y
      /\ Exists(m) = E \cup new
      /\ \A x \in E : m.parent[x] = net.parent[x] /\ m.pos[x] = net.pos[x]
      /\ \A x \in D : m.pos[copy[x]] = clip.pos[x]
      /\ \A x \in D \ {r} : clip.parent[x] \in D /\ m.parent[copy[x]] = copy[clip.parent[x]]
  <2>1. PICK c : c = CreateCopyHM(net, copy, t)
    OBVIOUS
  <2>2. m = SetHMLevel(c, h, ChildLevel(net, t))
    BY <2>1
  <2>3. QED
    BY <1>1, <1>2, <2>1, <2>2, CreateCopyTree
<1>4. /\ new \subseteq HM \ E /\ h \in new /\ t \notin new /\ h \notin E
  BY <1>2, <1>3, Tabling
<1>5. \A x \in E : n.parent[x] = net.parent[x] /\ net.parent[x] \in Tables \ new
  BY <1>2, <1>3, <1>4, ParentExists, Tabling
<1>6. \A x \in HM : x \notin E /\ x \notin new => n.parent[x] = NULL /\ net.parent[x] = NULL
  BY <1>2, <1>3 DEF Tree, Bare
<1>7. n.parent[h] = t /\ \A x \in new : net.parent[x] = NULL
  BY <1>2, <1>3, <1>4
<1>8. \A x \in new : x # h => n.parent[x] \in new
  <2>1. ASSUME NEW x \in new, x # h
        PROVE  n.parent[x] \in new
    <3>1. PICK y \in D : x = copy[y]
      OBVIOUS
    <3>2. y \in D \ {r}
      BY <1>3, <2>1, <3>1
    <3>3. QED
      BY <1>3, <3>1, <3>2
  <2>2. QED
    BY <2>1
<1> HIDE DEF new
<1>9. ASSUME NEW s \in Tables
      PROVE  \E k \in Nat : Filled(Children(n, s), n.pos, k)
  <2>1. PICK k \in Nat : Filled(Children(net, s), net.pos, k) /\ k = GetCount(net, s)
    BY FillsIs
  <2>2. Children(net, s) \subseteq E /\ Children(net, s) \subseteq HM
    BY <1>2, Tabling DEF Children
  <2>3. CASE s = t
    <3>1. \A x \in HM : n.parent[x] = t <=> net.parent[x] = t \/ x = h
      BY <1>2, <1>4, <1>5, <1>6, <1>7, <1>8, Tabling
    <3>2. h \in HM /\ net.parent[h] # t
      BY <1>2, <1>4, <1>7, Tabling
    <3>3. \E j \in Nat : Filled(Children(n, t), n.pos, j)
      BY <1>2, <3>1, <3>2, TableOpens
    <3>4. QED
      BY <2>3, <3>3
  <2>4. CASE s \in new
    <3>1. PICK u \in D : s = copy[u]
      BY <2>4 DEF new
    <3>2. PICK K \in SUBSET HM : K = {x \in D \ {r} : clip.parent[x] = u}
      OBVIOUS
    <3>3. PICK p : p = clip.pos
      OBVIOUS
    <3>4. PICK q : q = n.pos
      OBVIOUS
    <3>5. Fill(K, p)
      <4>1. DOMAIN clip.kind = D
        BY DEF Clip
      <4>2. QED
        BY <1>1, <3>1, <3>2, <3>3, <4>1 DEF ClipboardFills
    <3>6. PICK j \in Nat : Filled(K, p, j)
      BY <3>5, FillIsFilled
    <3>7. \A x \in K : copy[x] # h /\ copy[x] \in HM /\ copy[x] \notin Children(net, t)
      <4>1. \A x \in K : copy[x] \in new /\ x \in D /\ x # r
        BY <3>2 DEF new
      <4>2. \A x \in new : x \in HM /\ x \notin Children(net, t)
        BY <1>2, <1>4, <1>7, Tabling DEF Children
      <4>3. QED
        BY <1>3, <4>1, <4>2
    <3>8. \A x \in K : q[copy[x]] = p[x]
      BY <1>3, <3>2, <3>3, <3>4, <3>7
    <3>9. \A x, y \in K : copy[x] = copy[y] => x = y
      BY <1>3, <3>2
    <3>10. Filled({copy[x] : x \in K}, q, j)
      BY <3>6, <3>8, <3>9, FilledCopy
    <3>11. Children(n, s) = {copy[x] : x \in K}
      <4>1. ASSUME NEW y \in Children(n, s)
            PROVE  \E x \in K : y = copy[x]
        <5>1. y \in HM /\ n.parent[y] = s /\ s # t /\ s # NULL
          BY <1>4, <2>4, Tabling DEF Children
        <5>2. y \in new /\ y # h
          BY <1>5, <1>6, <1>7, <2>4, <5>1
        <5>3. PICK x \in D : y = copy[x]
          BY <5>2 DEF new
        <5>4. x \in D \ {r} /\ copy[clip.parent[x]] = copy[u] /\ clip.parent[x] \in D
          BY <1>3, <3>1, <5>1, <5>2, <5>3
        <5>5. clip.parent[x] = u
          BY <1>3, <5>4
        <5>6. QED
          BY <3>2, <5>3, <5>4, <5>5
      <4>2. ASSUME NEW x \in K
            PROVE  copy[x] \in Children(n, s)
        <5>1. x \in D \ {r} /\ clip.parent[x] = u
          BY <3>2
        <5>2. n.parent[copy[x]] = s
          BY <1>3, <3>1, <5>1
        <5>3. QED
          BY <3>7, <5>2 DEF Children
      <4>3. QED
        BY <4>1, <4>2
    <3>12. QED
      BY <3>4, <3>10, <3>11
  <2>5. CASE s # t /\ s \notin new
    <3>1. \A x \in HM : n.parent[x] = s <=> net.parent[x] = s
      BY <1>5, <1>6, <1>7, <1>8, <2>5, Tabling
    <3>2. Children(n, s) = Children(net, s)
      BY <3>1 DEF Children
    <3>3. \A x \in Children(net, s) : n.pos[x] = net.pos[x]
      <4>1. \A x \in Children(net, s) : /\ x \in HM /\ x \in E /\ x # h
                                        /\ x \notin Children(net, t)
        BY <1>4, <2>2, <2>5 DEF Children
      <4>2. QED
        BY <1>3, <4>1
    <3>4. Filled(Children(net, s), n.pos, k)
      BY <2>1, <3>3, FilledSame
    <3>5. QED
      BY <3>2, <3>4
  <2>6. QED
    BY <2>3, <2>4, <2>5
<1>10. QED
  BY <1>9, FillsFrom

\* The end of a paste.
LEMMA PasteDoneFills ==
  ASSUME NEW n \in Net, Tree(n), Fills(n), NEW t, PasteDone(n, t)
  PROVE  Fills(net') /\ (clip' = clip \/ clip' = NULL)
<1>1. CASE lastOp = "cut" /\ RemoveCut(n, t)
  <2>1. PICK x \in InNetwork(n) : net' = DeleteHM(n, x)
    BY <1>1 DEF RemoveCut, FindHydroMod
  <2>2. QED
    BY <1>1, <2>1, DeleteFills DEF RemoveCut
<1>2. CASE lastOp # "cut" /\ net' = n /\ UNCHANGED <<clip, lastOp, failure>>
  BY <1>2
<1>3. QED
  BY <1>1, <1>2 DEF PasteDone

\* The clipboard pasted in a table.
LEMMA PasteInFills ==
  ASSUME IInv, failure = "none", PositionsFill, NEW t \in Tables, PasteIn(t)
  PROVE  Fills(net') /\ (clip' = clip \/ clip' = NULL)
<1>1. /\ net \in Net /\ Tree(net) /\ ClipTree(clip) /\ t \in Modules \cup {Network}
      /\ Fills(net) /\ ClipboardFills /\ clip # NULL
  BY DEF IInv, TypeOK, PasteIn, PositionsFill, NetworkFills, Fills
<1>2. PICK D \in SUBSET HM : clip \in Clip(D)
  BY DEF IInv, TypeOK, PasteIn
<1>3. PICK copy \in FreshCopies :
         PasteDone(SetPos(SetHMLevel(CreateCopyHM(net, copy, t), copy[clip.root],
                                     ChildLevel(net, t)),
                          copy[clip.root], GetCount(net, t) + 1), t)
  BY DEF PasteIn
<1>4. PICK h : h = copy[clip.root]
  OBVIOUS
<1>5. PICK m : m = SetHMLevel(CreateCopyHM(net, copy, t), h, ChildLevel(net, t))
  OBVIOUS
<1>6. PICK pos : pos = GetCount(net, t) + 1
  OBVIOUS
<1>7. PICK n : n = SetPos(m, h, pos)
  OBVIOUS
<1>8. PasteDone(n, t)
  BY <1>3, <1>4, <1>5, <1>6, <1>7
<1>9. n \in Net /\ Tree(n)
  BY <1>1, <1>2, <1>4, <1>5, <1>6, <1>7, PasteInIs
<1>10. /\ m \in Net /\ h \in HM \ Exists(net)
       /\ \A x \in Exists(net) : m.pos[x] = net.pos[x]
  <2>1. t \in {Network} \cup {x \in InNetwork(net) : IsaModule(net, x)}
    BY <1>1 DEF Modules
  <2>2. PICK c : c = CreateCopyHM(net, copy, t)
    OBVIOUS
  <2>3. m = SetHMLevel(c, h, ChildLevel(net, t))
    BY <1>5, <2>2
  <2>4. QED
    BY <1>1, <1>2, <1>4, <2>1, <2>2, <2>3, CreateCopyTree
<1>11. PICK k \in Nat : Filled(Children(net, t), net.pos, k) /\ k = GetCount(net, t)
  BY <1>1, FillsIs
<1>12. pos \in Nat /\ pos \in 1 .. GetCount(net, t) + 1
  BY <1>6, <1>11
<1>13. /\ n.parent = m.parent /\ n.pos[h] = pos
       /\ \A x \in HM : x # h => n.pos[x] = m.pos[x]
  <2>1. n.parent = m.parent /\ n.pos = [m.pos EXCEPT ![h] = pos]
    BY <1>7, <1>10, <1>12 DEF SetPos, Net
  <2>2. m.pos \in [HM -> Nat]
    BY <1>10 DEF Net
  <2>3. QED
    BY <1>10, <2>1, <2>2
<1>14. Children(net, t) \subseteq Exists(net) /\ Exists(net) \subseteq HM /\ t # NULL
  <2>1. Exists(net) \subseteq HM /\ t # NULL
    BY Tabling DEF Exists
  <2>2. QED
    BY <1>1, <2>1 DEF Children, Tree, Bare
<1>15. \A x \in Children(net, t) : /\ net.pos[x] >= pos => n.pos[x] = net.pos[x] + 1
                                   /\ net.pos[x] < pos => n.pos[x] = net.pos[x]
  <2>1. \A x \in Children(net, t) : net.pos[x] \in 1 .. k
    BY <1>11 DEF Filled
  <2>2. \A x \in Children(net, t) : n.pos[x] = net.pos[x]
    BY <1>10, <1>13, <1>14
  <2>3. QED
    BY <1>6, <1>11, <2>1, <2>2
<1>16. Fills(n)
  <2>1. \A x \in HM : x # h /\ x \notin Children(net, t) => n.pos[x] = m.pos[x]
    BY <1>13
  <2>2. QED
    BY <1>1, <1>2, <1>4, <1>5, <1>9, <1>12, <1>13, <1>15, <2>1, CopyFills
<1>17. QED
  BY <1>8, <1>9, <1>16, PasteDoneFills

\* The clipboard pasted before an object.
LEMMA PasteBeforeFills ==
  ASSUME IInv, failure = "none", PositionsFill, NEW x0 \in HM, PasteBefore(x0)
  PROVE  Fills(net') /\ (clip' = clip \/ clip' = NULL)
<1>1. /\ net \in Net /\ Tree(net) /\ ClipTree(clip) /\ x0 \in InNetwork(net)
      /\ Fills(net) /\ ClipboardFills /\ clip # NULL
  BY DEF IInv, TypeOK, PasteBefore, PositionsFill, NetworkFills, Fills
<1>2. PICK D \in SUBSET HM : clip \in Clip(D)
  BY DEF IInv, TypeOK, PasteBefore
<1>3. PICK t : t = net.parent[x0]
  OBVIOUS
<1>4. PICK copy \in FreshCopies :
         PasteDone(SetPos(VerifyNewPos(
           SetPos(SetHMLevel(CreateCopyHM(net, copy, t), copy[clip.root], net.level[x0]),
                  copy[clip.root], 0), t, net.pos[x0]), copy[clip.root], net.pos[x0]), t)
  BY <1>3 DEF PasteBefore
<1>5. PICK h : h = copy[clip.root]
  OBVIOUS
<1>6. PICK m : m = SetHMLevel(CreateCopyHM(net, copy, t), h, net.level[x0])
  OBVIOUS
<1>7. PICK a : a = SetPos(m, h, 0)
  OBVIOUS
<1>8. /\ x0 \in HM /\ t \in Modules \cup {Network} /\ t \in Tables
      /\ t \in {Network} \cup {x \in InNetwork(net) : IsaModule(net, x)}
  BY <1>1, <1>3, ParentIs DEF Modules
<1>9. PICK pos \in Nat : pos = net.pos[x0]
  BY <1>1, <1>8, NetType
<1>10. PICK b : b = VerifyNewPos(a, t, pos)
  OBVIOUS
<1>11. PICK n : n = SetPos(b, h, pos)
  OBVIOUS
<1>12. PasteDone(n, t)
  BY <1>4, <1>5, <1>6, <1>7, <1>9, <1>10, <1>11
<1>13. /\ n \in Net /\ Tree(n) /\ n.parent = m.parent /\ m \in Net
       /\ m = SetHMLevel(CreateCopyHM(net, copy, t), h, ChildLevel(net, t))
  <2>1. n = SetPos(VerifyNewPos(SetPos(m, h, 0), t, net.pos[x0]), h, net.pos[x0])
    BY <1>7, <1>9, <1>10, <1>11
  <2>2. QED
    BY <1>1, <1>2, <1>3, <1>5, <1>6, <2>1, PasteBeforeIs
<1>14. /\ h \in HM \ Exists(net) /\ m.parent[h] = t
       /\ \A x \in Exists(net) : m.pos[x] = net.pos[x] /\ m.parent[x] = net.parent[x]
       /\ \A x \in HM : m.parent[x] = t => x = h \/ x \in Exists(net)
  <2>1. PICK c : c = CreateCopyHM(net, copy, t)
    OBVIOUS
  <2>2. m = SetHMLevel(c, h, ChildLevel(net, t))
    BY <1>13, <2>1
  <2>3. /\ h \in HM \ Exists(net) /\ m.parent[h] = t /\ Tree(m)
        /\ \A x \in Exists(net) : m.pos[x] = net.pos[x] /\ m.parent[x] = net.parent[x]
        /\ Exists(m) = Exists(net) \cup {copy[x] : x \in D}
        /\ copy \in [D -> HM \ Exists(net)]
        /\ \A x \in D \ {clip.root} :
              clip.parent[x] \in D /\ m.parent[copy[x]] = copy[clip.parent[x]]
    BY <1>1, <1>2, <1>5, <1>8, <2>1, <2>2, CreateCopyTree
  <2>4. t \notin HM \ Exists(net) /\ t # NULL
    BY <1>1, <1>8, Tabling, InNetworkExists DEF Tree
  <2>5. ASSUME NEW x \in HM, m.parent[x] = t
        PROVE  x = h \/ x \in Exists(net)
    <3>1. x \in Exists(m)
      BY <2>3, <2>4, <2>5 DEF Tree, Bare
    <3>2. CASE x \in Exists(net)
      BY <3>2
    <3>3. ASSUME NEW y \in D, x = copy[y]
          PROVE  x = h
      <4>1. CASE y = clip.root
        BY <1>5, <3>3, <4>1
      <4>2. CASE y # clip.root
        <5>1. clip.parent[y] \in D /\ m.parent[x] = copy[clip.parent[y]]
          BY <2>3, <3>3, <4>2
        <5>2. t \in HM \ Exists(net)
          BY <2>3, <2>5, <5>1
        <5>3. QED
          BY <2>4, <5>2
      <4>3. QED
        BY <4>1, <4>2
    <3>4. QED
      BY <2>3, <3>1, <3>2, <3>3
  <2>6. QED
    BY <2>3, <2>5
<1>15. /\ a \in Net /\ a.parent = m.parent /\ a.pos[h] = 0
       /\ \A x \in HM : x # h => a.pos[x] = m.pos[x]
  <2>1. a \in Net /\ a.parent = m.parent /\ a.pos = [m.pos EXCEPT ![h] = 0]
    BY <1>7, <1>13, <1>14 DEF SetPos, Net
  <2>2. m.pos \in [HM -> Nat]
    BY <1>13 DEF Net
  <2>3. QED
    BY <1>14, <2>1, <2>2
<1>16. /\ Children(net, t) \subseteq Exists(net) /\ Exists(net) \subseteq HM
       /\ Children(a, t) = Children(net, t) \cup {h} /\ x0 \in Children(net, t)
  <2>1. Exists(net) \subseteq HM /\ t # NULL
    BY <1>8, Tabling DEF Exists
  <2>2. Children(net, t) \subseteq Exists(net) /\ x0 \in Children(net, t)
    BY <1>1, <1>3, <1>8, <2>1 DEF Children, Tree, Bare
  <2>3. \A x \in HM : a.parent[x] = t <=> net.parent[x] = t \/ x = h
    BY <1>14, <1>15, <2>1, <2>2 DEF Children
  <2>4. QED
    BY <1>14, <2>1, <2>2, <2>3 DEF Children
<1>17. PICK k \in Nat : Filled(Children(net, t), net.pos, k) /\ k = GetCount(net, t)
  BY <1>1, <1>8, FillsIs
<1>18. pos \in 1 .. GetCount(net, t) + 1
  BY <1>9, <1>16, <1>17 DEF Filled
<1>19. /\ \A x \in Children(a, t) : /\ a.pos[x] >= pos => b.pos[x] = a.pos[x] + 1
                                    /\ a.pos[x] < pos => b.pos[x] = a.pos[x]
       /\ \A x \in HM : x \notin Children(a, t) => b.pos[x] = a.pos[x]
  <2>1. a.pos[x0] = pos /\ x0 \in Children(a, t)
    BY <1>8, <1>9, <1>14, <1>15, <1>16
  <2>2. QED
    BY <1>10, <1>15, <2>1, VerifyNewPosShifts
<1>20. /\ n.pos[h] = pos /\ \A x \in HM : x # h => n.pos[x] = b.pos[x]
  <2>1. b \in Net
    BY <1>10, <1>15, VerifyNewPosIs
  <2>2. n.pos = [b.pos EXCEPT ![h] = pos] /\ b.pos \in [HM -> Nat]
    BY <1>11, <2>1 DEF SetPos, Net
  <2>3. QED
    BY <1>14, <2>2
<1>21. \A x \in Children(net, t) : /\ net.pos[x] >= pos => n.pos[x] = net.pos[x] + 1
                                   /\ net.pos[x] < pos => n.pos[x] = net.pos[x]
  <2>1. \A x \in Children(net, t) : /\ x \in HM /\ x # h /\ a.pos[x] = net.pos[x]
                                    /\ x \in Children(a, t)
    BY <1>14, <1>15, <1>16
  <2>2. QED
    BY <1>19, <1>20, <2>1
<1>22. \A x \in HM : x # h /\ x \notin Children(net, t) => n.pos[x] = m.pos[x]
  BY <1>15, <1>16, <1>19, <1>20
<1>23. Fills(n)
  BY <1>1, <1>2, <1>5, <1>8, <1>13, <1>18, <1>20, <1>21, <1>22, CopyFills
<1>24. QED
  BY <1>12, <1>13, <1>23, PasteDoneFills

\* An object at another position, with that of its sibling exchanged.
LEMMA EditPositionFills ==
  ASSUME IInv, failure = "none", PositionsFill, NEW h \in HM, NEW t \in Tables,
         NEW pos \in 1 .. MaxPos, EditPosition(h, t, pos), t = net.parent[h]
  PROVE  Fills(net')
<1>1. net \in Net /\ Tree(net) /\ Fills(net) /\ h \in Children(net, t)
  BY DEF IInv, TypeOK, PositionsFill, NetworkFills, Fills, Children
<1>2. PICK k \in Nat : Filled(Children(net, t), net.pos, k)
  BY <1>1, FillsIs
<1>3. pos \in 1 .. k /\ pos # net.pos[h] /\ pos \in Nat
  <2>1. pos \in 1 .. GetLastBranchPos(net, t) /\ pos # net.pos[h]
    BY DEF EditPosition
  <2>2. QED
    BY <1>1, <1>2, <2>1, LastIs
<1>4. PICK z \in Children(net, t) : net.pos[z] = pos
  BY <1>2, <1>3 DEF Filled
<1>5. PICK x \in Children(net, t) \ {h} :
         net.pos[x] = pos /\ net' = SetPos(SetPos(net, x, net.pos[h]), h, pos)
  BY <1>3, <1>4 DEF EditPosition
<1>6. PICK old \in Nat : old = net.pos[h]
  BY <1>1, NetType
<1>7. PICK n : n = SetPos(net, x, old)
  OBVIOUS
<1>8. net' = SetPos(n, h, pos) /\ x \in HM /\ x # h
  BY <1>5, <1>6, <1>7 DEF Children
<1>9. /\ n \in Net /\ n.parent = net.parent /\ n.pos[x] = old
      /\ \A y \in HM : y # x => n.pos[y] = net.pos[y]
  <2>1. n \in Net /\ n.parent = net.parent /\ n.pos = [net.pos EXCEPT ![x] = old]
    BY <1>1, <1>7, <1>8 DEF SetPos, Net
  <2>2. net.pos \in [HM -> Nat]
    BY <1>1 DEF Net
  <2>3. QED
    BY <1>8, <2>1, <2>2
<1>10. /\ net' \in Net /\ net'.parent = net.parent /\ net'.pos[h] = pos
       /\ \A y \in HM : y # h => net'.pos[y] = n.pos[y]
  <2>1. net' \in Net /\ net'.parent = net.parent /\ net'.pos = [n.pos EXCEPT ![h] = pos]
    BY <1>3, <1>8, <1>9 DEF SetPos, Net
  <2>2. n.pos \in [HM -> Nat]
    BY <1>9 DEF Net
  <2>3. QED
    BY <2>1, <2>2
<1>11. ASSUME NEW s \in Tables
       PROVE  \E j \in Nat : Filled(Children(net', s), net'.pos, j)
  <2>1. Children(net', s) = Children(net, s)
    BY <1>10 DEF Children
  <2>2. PICK j \in Nat : Filled(Children(net, s), net.pos, j)
    BY <1>1, FillsIs
  <2>3. CASE s = t
    <3>1. PICK C : C = Children(net, t)
      OBVIOUS
    <3>2. PICK p : p = net.pos
      OBVIOUS
    <3>3. PICK q : q = net'.pos
      OBVIOUS
    <3>4. Filled(C, p, k) /\ h \in C /\ x \in C /\ q[h] = p[x] /\ q[x] = p[h]
      BY <1>1, <1>2, <1>5, <1>6, <1>8, <1>9, <1>10, <3>1, <3>2, <3>3
    <3>5. \A y \in C \ {h, x} : q[y] = p[y]
      BY <1>9, <1>10, <3>1, <3>2, <3>3 DEF Children
    <3>6. Filled(C, q, k)
      BY <3>4, <3>5, FilledSwap
    <3>7. QED
      BY <2>1, <2>3, <3>1, <3>3, <3>6
  <2>4. CASE s # t
    <3>1. \A y \in Children(net, s) : net'.pos[y] = net.pos[y]
      BY <1>1, <1>5, <1>9, <1>10, <2>4 DEF Children
    <3>2. Filled(Children(net, s), net'.pos, j)
      BY <2>2, <3>1, FilledSame
    <3>3. QED
      BY <2>1, <3>2
  <2>5. QED
    BY <2>3, <2>4
<1>12. QED
  BY <1>10, <1>11, FillsFrom

\* A row dragged in the sheet.
LEMMA ChangePositionFills ==
  ASSUME IInv, failure = "none", PositionsFill, NEW h \in HM, NEW pos \in 1 .. MaxPos,
         ChangePosition(h, pos)
  PROVE  Fills(net')
<1>1. /\ net \in Net /\ Tree(net) /\ Fills(net) /\ h \in InNetwork(net)
      /\ \A x \in HM : net.pos[x] \in Nat
  BY NetType DEF IInv, TypeOK, PositionsFill, NetworkFills, Fills, ChangePosition
<1>2. PICK t \in Tables : t = net.parent[h]
  BY <1>1, ParentIs
<1>3. PICK k \in Nat : Filled(Children(net, t), net.pos, k)
  BY <1>1, FillsIs
<1>4. PICK z \in Children(net, t) : net.pos[z] = pos
  BY <1>2 DEF ChangePosition
<1>5. pos \in 1 .. k /\ pos \in Nat /\ h \in Children(net, t)
  BY <1>2, <1>3, <1>4 DEF Filled, Children
<1> DEFINE old == net.pos[h]
           Shifted(x) == IF net.pos[x] \in old + 1 .. pos THEN net.pos[x] - 1
                         ELSE IF net.pos[x] \in pos .. old - 1 THEN net.pos[x] + 1
                         ELSE net.pos[x]
           new == [x \in HM |-> IF x = h THEN pos
                                ELSE IF x \in Children(net, t) THEN Shifted(x)
                                ELSE net.pos[x]]
<1>6. net' = [net EXCEPT !.pos = new]
  BY <1>1, <1>2 DEF ChangePosition, Net
<1>7. \A x \in HM : new[x] = IF x = h THEN pos ELSE IF x \in Children(net, t) THEN Shifted(x)
                                                   ELSE net.pos[x]
  OBVIOUS
<1>8. PICK q : q = new
  OBVIOUS
<1>9. /\ net' \in Net /\ net'.parent = net.parent /\ net'.pos = q
  <2>1. \A x \in HM : Shifted(x) \in Nat
    BY <1>1, <1>5
  <2>2. new \in [HM -> Nat]
    <3> HIDE DEF Shifted
    <3> QED BY <1>1, <1>5, <2>1
  <2> HIDE DEF new
  <2>3. QED
    BY <1>1, <1>6, <1>8, <2>2 DEF Net
<1>10. \A x \in Children(net, t) : x \in HM
  BY DEF Children
<1>11. /\ q[h] = pos
       /\ \A x \in Children(net, t) : x # h => q[x] = Shifted(x)
       /\ \A x \in HM : x \notin Children(net, t) => q[x] = net.pos[x]
  <2> HIDE DEF new, Shifted
  <2> QED BY <1>5, <1>7, <1>8, <1>10
<1> HIDE DEF new
<1>12. ASSUME NEW s \in Tables
       PROVE  \E j \in Nat : Filled(Children(net', s), net'.pos, j)
  <2>1. Children(net', s) = Children(net, s)
    BY <1>9 DEF Children
  <2>2. CASE s = t
    <3>1. PICK C : C = Children(net, t)
      OBVIOUS
    <3>2. PICK p : p = net.pos
      OBVIOUS
    <3>3. \A x \in C : p[x] \in Nat
      BY <1>1, <1>10, <3>1, <3>2
    <3>4. Filled(C, p, k) /\ h \in C /\ q[h] = pos /\ pos \in 1 .. k
      BY <1>3, <1>5, <1>11, <3>1, <3>2
    <3>5. \A x \in C \ {h} :
             /\ p[h] < p[x] /\ p[x] <= pos => q[x] = p[x] - 1
             /\ pos <= p[x] /\ p[x] < p[h] => q[x] = p[x] + 1
             /\ ~(p[h] < p[x] /\ p[x] <= pos) /\ ~(pos <= p[x] /\ p[x] < p[h]) => q[x] = p[x]
      BY <1>5, <1>11, <3>1, <3>2, <3>3, <3>4
    <3>6. Filled(C, q, k)
      BY <3>4, <3>5, FilledShift
    <3>7. QED
      BY <1>9, <2>1, <2>2, <3>1, <3>6
  <2>3. CASE s # t
    <3>1. PICK j \in Nat : Filled(Children(net, s), net.pos, j)
      BY <1>1, FillsIs
    <3>2. \A x \in Children(net, s) : net'.pos[x] = net.pos[x]
      BY <1>9, <1>11, <2>3 DEF Children
    <3>3. Filled(Children(net, s), net'.pos, j)
      BY <3>1, <3>2, FilledSame
    <3>4. QED
      BY <2>1, <3>3
  <2>4. QED
    BY <2>2, <2>3
<1>13. QED
  BY <1>9, <1>12, FillsFrom

\* A copy has the positions of what it is a copy of.
LEMMA CopyKeepsPositions ==
  ASSUME IInv, failure = "none", PositionsFill, NEW h \in HM, Copy(h) \/ Cut(h)
  PROVE  PositionsFill'
<1>1. /\ net \in Net /\ Tree(net) /\ h \in InNetwork(net) /\ CopyHMToClipBoard(h)
      /\ net' = net /\ Fills(net)
  BY DEF IInv, TypeOK, Copy, Cut, PositionsFill, NetworkFills, Fills
<1>2. PICK B \in SUBSET HM : B = Branch(net, h)
  BY DEF Branch
<1>3. /\ DOMAIN clip'.kind = B /\ clip'.root = h
      /\ \A x \in B : clip'.parent[x] = net.parent[x] /\ clip'.pos[x] = net.pos[x]
  BY <1>1, <1>2 DEF CopyHMToClipBoard
<1>4. ASSUME NEW t \in B
      PROVE  Fill({x \in B \ {h} : clip'.parent[x] = t}, clip'.pos)
  <2>1. net.parent[h] \notin B /\ h \in B /\ t \in Tables
    BY <1>1, <1>2, ParentIs, Tabling
  <2>2. PICK K \in SUBSET HM : K = {x \in B \ {h} : clip'.parent[x] = t}
    OBVIOUS
  <2>3. K = Children(net, t)
    <3>1. \A x \in HM : net.parent[x] = t => x \in B /\ x # h
      BY <1>1, <1>2, <2>1, Tabling, BranchDown
    <3>2. QED
      BY <1>3, <2>2, <3>1 DEF Children
  <2>4. PICK k \in Nat : Filled(K, net.pos, k)
    BY <1>1, <2>1, <2>3, FillsIs
  <2>5. \A x \in K : clip'.pos[x] = net.pos[x]
    BY <1>3, <2>2
  <2>6. Filled(K, clip'.pos, k)
    BY <2>4, <2>5, FilledSame
  <2>7. QED
    BY <2>2, <2>6, FillIsFilled
<1>5. ClipboardFills'
  BY <1>3, <1>4 DEF ClipboardFills, Fill
<1>6. NetworkFills'
  BY <1>1 DEF Fills, NetworkFills, Children, Fill
<1>7. QED
  BY <1>5, <1>6 DEF PositionsFill

\* The clipboard left, or emptied.
LEMMA FillsIsPositionsFill ==
  ASSUME PositionsFill, Fills(net'), clip' = clip \/ clip' = NULL
  PROVE  PositionsFill'
<1>1. NetworkFills'
  BY DEF Fills, NetworkFills, Children, Fill
<1>2. ClipboardFills'
  <2>1. CASE clip' = NULL
    BY <2>1 DEF ClipboardFills
  <2>2. CASE clip' = clip
    BY <2>2 DEF PositionsFill, ClipboardFills, Fill
  <2>3. QED
    BY <2>1, <2>2
<1>3. QED
  BY <1>1, <1>2 DEF PositionsFill

\* Every command keeps positions, but for the two that "Located in" misleads.
LEMMA CommandKeepsPositions ==
  ASSUME IInv, failure = "none", Command, PositionsFill, failure' = "none", ~LocatedElsewhere
  PROVE  PositionsFill'
<1>1. net \in Net /\ Tree(net) /\ Fills(net)
  BY DEF IInv, TypeOK, PositionsFill, NetworkFills, Fills
<1>2. IInv'
  BY NextIInv DEF Next
<1>3. net' \in Net
  BY <1>2 DEF IInv, TypeOK
<1>4. ASSUME NEW at \in Tables, NEW t \in Tables, AddModule(at, t) \/ AddValve(at, t)
      PROVE  PositionsFill'
  <2>1. PICK h \in HM \ Exists(net), name \in FreeNames, pos \in Offered(at, t),
             kind \in {"module", "circuit"} :
           net' = Create(VerifyNewPos(net, t, pos), h, t, pos, kind, name)
    <3>1. CASE AddModule(at, t)
      <4>1. at = t
        BY <3>1 DEF LocatedElsewhere
      <4>2. QED
        BY <3>1, <4>1 DEF AddModule
    <3>2. CASE AddValve(at, t)
      BY <3>2 DEF AddValve
    <3>3. QED
      BY <1>4, <3>1, <3>2
  <2>2. PICK k \in Nat : Filled(Children(net, t), net.pos, k) /\ k = GetCount(net, t)
    BY <1>1, FillsIs
  <2>3. pos \in 1 .. GetLastBranchPos(net, t) + 1
    <3>1. GetLastBranchPos(net, t) = GetCount(net, t)
      BY <1>1, <2>2, LastIs
    <3>2. QED
      BY <3>1 DEF Offered
  <2>4. Fills(net')
    BY <1>1, <1>3, <2>1, <2>3, CreateFills
  <2>5. clip' = NULL
    BY <1>4 DEF AddModule, AddValve, CleanClipboard
  <2>6. QED
    BY <2>4, <2>5, FillsIsPositionsFill
<1>5. ASSUME NEW h \in HM, NEW t \in Tables, NEW pos \in 1 .. MaxPos, EditPosition(h, t, pos)
      PROVE  PositionsFill'
  <2>1. t = net.parent[h]
    BY <1>5 DEF LocatedElsewhere
  <2>2. Fills(net')
    BY <1>5, <2>1, EditPositionFills
  <2>3. clip' = NULL
    BY <1>5 DEF EditPosition, CleanClipboard
  <2>4. QED
    BY <2>2, <2>3, FillsIsPositionsFill
<1>6. ASSUME NEW h \in HM, NEW pos \in 1 .. MaxPos, ChangePosition(h, pos)
      PROVE  PositionsFill'
  <2>1. Fills(net')
    BY <1>6, ChangePositionFills
  <2>2. clip' = clip
    BY <1>6 DEF ChangePosition
  <2>3. QED
    BY <2>1, <2>2, FillsIsPositionsFill
<1>7. ASSUME NEW h \in HM, Delete(h)
      PROVE  PositionsFill'
  <2>1. PICK x \in InNetwork(net) : net' = DeleteHM(net, x)
    BY <1>7 DEF Delete, FindHydroMod
  <2>2. Fills(net')
    BY <1>1, <2>1, DeleteFills
  <2>3. clip' = NULL
    BY <1>7 DEF Delete, CleanClipboard
  <2>4. QED
    BY <2>2, <2>3, FillsIsPositionsFill
<1>8. ASSUME NEW h \in HM, Copy(h) \/ Cut(h)
      PROVE  PositionsFill'
  BY <1>8, CopyKeepsPositions
<1>9. ASSUME NEW h \in HM, PasteBefore(h)
      PROVE  PositionsFill'
  BY <1>9, PasteBeforeFills, FillsIsPositionsFill
<1>10. ASSUME NEW t \in Tables, PasteIn(t)
       PROVE  PositionsFill'
  BY <1>10, PasteInFills, FillsIsPositionsFill
<1>11. CASE Escape
  BY <1>1, <1>11, FillsIsPositionsFill DEF Escape, CleanClipboard
<1>12. ASSUME NEW h \in HM, NEW t \in Tables, OnLButtonUp(h, t)
       PROVE  PositionsFill'
  <2>1. /\ h \in InNetwork(net) /\ t # h /\ t # net.parent[h] /\ clip' = clip
    BY <1>12 DEF OnLButtonUp, DropTargets
  <2>2. CASE net' = net
    BY <1>1, <2>1, <2>2, FillsIsPositionsFill
  <2>3. ASSUME NEW pos \in 1 .. GetLastBranchPos(net, t) + 1,
               net' = MoveBranch(net, h, t, pos)
        PROVE  PositionsFill'
    BY <1>1, <1>3, <2>1, <2>3, MoveFills, FillsIsPositionsFill
  <2>4. ASSUME NEW valve \in Children(net, t), net.kind[valve] = "circuit",
               IsaModule(net, h), net' = ConnectBranch(net, h, valve)
        PROVE  PositionsFill'
    <3>1. valve \in HM /\ valve # h
      BY <2>4 DEF Children, IsaModule
    <3>2. Fills(net')
      BY <1>1, <1>3, <2>1, <2>4, <3>1, ConnectFills
    <3>3. QED
      BY <2>1, <3>2, FillsIsPositionsFill
  <2>5. GetLastBranchPos(net, t) + 1 \in 1 .. GetLastBranchPos(net, t) + 1
    BY <1>1, GetLastBranchPosType
  <2>6. QED
    BY <1>12, <2>2, <2>3, <2>4, <2>5 DEF OnLButtonUp, Moved, Connected
<1>13. QED
  BY <1>4, <1>5, <1>6, <1>7, <1>8, <1>9, <1>10, <1>11, <1>12 DEF Command

\* No command leaves a hole or a double in the positions of a table, unless there
\* was one in the network or in the clipboard, but for a module created, or an
\* object edited, with another "Located in" than its dialog was opened on.
THEOREM ProjectTreePositionsKept == Spec => PositionsKept
<1>1. ASSUME IInv, Next, PositionsFill, failure' = "none", ~PositionsFill'
      PROVE  LocatedElsewhere
  BY <1>1, CommandKeepsPositions DEF Next
<1>2. ASSUME IInv, [Next]_vars
      PROVE  [PositionsFill /\ failure' = "none" /\ ~PositionsFill' => LocatedElsewhere]_vars
  BY <1>1, <1>2
<1>3. QED
  BY <1>2, ProjectTreeInvariance, PTL DEF Spec, PositionsKept
=============================================================================
