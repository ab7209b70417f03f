---------------------------- MODULE ProjectTree ----------------------------
(***************************************************************************)
(* The hydraulic network of a project: a tree of modules and of circuits   *)
(* (CDS_HydroMod; a circuit, or terminal unit, is a valve), and the        *)
(* commands that change it: the menu of the project tree                   *)
(* (DlgLeftTabProject.cpp), drag and drop (ProjTreeCtrl.cpp), the clipboard *)
(* and the operations of CTADatastruct they call (DataStruct.cpp).         *)
(*                                                                         *)
(* Names are those the user gives: the automatic ones, that start with     *)
(* '*', are not modelled.  Objects are kept by ID and CDataList hands them *)
(* out in the order of the IDs; as other objects take and return IDs too,  *)
(* that order can be any, and so is the module a search by name meets      *)
(* first among those of a level.                                           *)
(*                                                                         *)
(* A definition placed just before another one that it resembles is that   *)
(* one with a mistake in it (VerifyNewPosSwap before VerifyNewPos): no     *)
(* action uses it, it is there to show that a property would notice.       *)
(***************************************************************************)
EXTENDS Naturals, FiniteSets, FiniteSetsExt

CONSTANTS HM,           \* hydronic modules and circuits
          Name,         \* names a user gives
          Network,      \* CTableHM, the "Hydraulic network"
          MaxPos,       \* bound on the positions
          NULL

ASSUME ProjectTreeAssumption ==
    /\ IsFiniteSet(HM) /\ Network \notin HM
    /\ NULL \notin HM \cup Name \cup {Network}
    /\ MaxPos \in Nat

VARIABLES net,          \* the objects: kind, parent, pos, level and name of each
          clip,         \* the clipboard table: a copy of a branch, or NULL
          lastOp,       \* m_eLastOperation
          cut,          \* the items of the tree control marked TVIS_CUT
          failure       \* undefined behaviour the program has run into

vars == <<net, clip, lastOp, cut, failure>>

Kind == {"none", "module", "circuit"}
Tables == HM \cup {Network}

\* A network, and a branch in the clipboard.
Net == [kind : [HM -> Kind], parent : [HM -> Tables \cup {NULL}],
        pos : [HM -> Nat], level : [HM -> Nat], name : [HM -> Name \cup {NULL}]]
Clip(D) == [root : D, kind : [D -> Kind], parent : [D -> Tables \cup {NULL}],
            pos : [D -> Nat], name : [D -> Name \cup {NULL}]]

TypeOK ==
    /\ net \in Net
    /\ clip # NULL => \E D \in SUBSET HM : clip \in Clip(D)
    /\ lastOp \in {"undefined", "copy", "cut"}
    /\ cut \subseteq HM
    /\ failure \in {"none", "stackOverflow", "freedTableUsed"}

Init ==
    /\ net = [kind |-> [h \in HM |-> "none"], parent |-> [h \in HM |-> NULL],
              pos |-> [h \in HM |-> 0], level |-> [h \in HM |-> 0],
              name |-> [h \in HM |-> NULL]]
    /\ clip = NULL /\ lastOp = "undefined" /\ cut = {}
    /\ failure = "none"
-----------------------------------------------------------------------------
(* Notions on a network n.                                                 *)

Exists(n) == {h \in HM : n.kind[h] # "none"}
Children(n, t) == {h \in HM : n.parent[h] = t}
IsaModule(n, h) == n.kind[h] = "module"

\* Branch is t, if it is an object, with what is in it at any depth.
Closed(n, S) == \A h \in HM : n.parent[h] \in S => h \in S
Branch(n, t) == {h \in HM : \A S \in SUBSET HM : Closed(n, S \cup {t}) => h \in S \cup {t}}
Ancestors(n, h) == {a \in HM \ {h} : h \in Branch(n, a)}
Between(n, h, x) == Ancestors(n, x) \cap Branch(n, h)   \* from h down to x
InNetwork(n) == Branch(n, Network)

GetLastBranchPos(n, t) == Max({0} \cup {n.pos[h] : h \in Children(n, t)})
GetCount(n, t) == Cardinality(Children(n, t))
Modules == {h \in InNetwork(net) : IsaModule(net, h)}

\* FindHydroMod: a module is looked at before what is in it.
FindHydroMod(n, name) ==
    {h \in InNetwork(n) : n.name[h] = name /\ \A a \in Ancestors(n, h) : n.name[a] # name}
-----------------------------------------------------------------------------
(* The operations of CTADatastruct, as functions of the network.           *)

\* Instead of a shift, the one in the way goes to the end.
VerifyNewPosSwap(n, t, pos) ==
    [n EXCEPT !.pos = [h \in HM |-> IF h \in Children(n, t) /\ @[h] = pos
                                    THEN GetLastBranchPos(n, t) + 1 ELSE @[h]]]

\* The position is freed, if need be, by a shift of those from it on.
VerifyNewPos(n, t, pos) ==
    IF \A h \in Children(n, t) : n.pos[h] # pos THEN n
    ELSE [n EXCEPT !.pos = [h \in HM |-> IF h \in Children(n, t) /\ @[h] >= pos
                                         THEN @[h] + 1 ELSE @[h]]]

RemoveIndexHoleNext(n, t, pos) ==
    [n EXCEPT !.pos = [h \in HM |-> IF h \in Children(n, t) /\ @[h] > pos + 1
                                    THEN @[h] - 1 ELSE @[h]]]

\* The hole that an object has left at pos is filled.
RemoveIndexHole(n, t, pos) ==
    [n EXCEPT !.pos = [h \in HM |-> IF h \in Children(n, t) /\ @[h] > pos
                                    THEN @[h] - 1 ELSE @[h]]]

SetHMLevelOnly(n, h, level) == [n EXCEPT !.level[h] = level]

\* level for h, and one more for each object in between.
SetHMLevel(n, h, level) ==
    [n EXCEPT !.level = [x \in HM |-> IF x \in Branch(n, h)
                                      THEN level + Cardinality(Between(n, h, x))
                                      ELSE @[x]]]

ChildLevel(n, t) == IF t = Network THEN 0 ELSE n.level[t] + 1

SetPos(n, h, pos) == [n EXCEPT !.pos[h] = pos]
Insert(n, h, t, pos) == [n EXCEPT !.parent[h] = t, !.pos[h] = pos]

\* Remove and DeleteObject of the objects of S.
Freed(n, S) ==
    [kind   |-> [h \in HM |-> IF h \in S THEN "none" ELSE n.kind[h]],
     parent |-> [h \in HM |-> IF h \in S THEN NULL ELSE n.parent[h]],
     pos    |-> [h \in HM |-> IF h \in S THEN 0 ELSE n.pos[h]],
     level  |-> [h \in HM |-> IF h \in S THEN 0 ELSE n.level[h]],
     name   |-> [h \in HM |-> IF h \in S THEN NULL ELSE n.name[h]]]

DeleteHMAlone(n, h) == RemoveIndexHole(Freed(n, {h}), n.parent[h], n.pos[h])

DeleteHM(n, h) == RemoveIndexHole(Freed(n, Branch(n, h)), n.parent[h], n.pos[h])

\* The branch of MoveHydroMod that moves h, with what is in it, to t.
MoveBranch(n, h, t, pos) ==
    LET moved == Insert(VerifyNewPos([n EXCEPT !.parent[h] = t], t, pos), h, t, pos)
        filled == RemoveIndexHole(moved, n.parent[h], n.pos[h])
    IN SetHMLevel(filled, h, ChildLevel(n, t))

ConnectBranchEmpty(n, h, valve) ==
    LET leveled == SetHMLevel(n, h, n.level[valve])
        filled == RemoveIndexHole(Freed(leveled, {h}), n.parent[h], n.pos[h])
    IN [filled EXCEPT !.kind[valve] = "module"]

\* The other branch: the circuit takes what is in h, h goes, and the circuit
\* becomes a module, its "partner valve".  The levels, set in the end from the
\* circuit on but not through circuits, are those of a walk from h on before:
\* the circuit is still one then, and keeps its level unless it is in h itself.
ConnectBranch(n, h, valve) ==
    LET leveled == SetHMLevel(n, h, n.level[valve])
        taken == [leveled EXCEPT !.parent = [x \in HM |-> IF @[x] = h THEN valve ELSE @[x]]]
        filled == RemoveIndexHole(Freed(taken, {h}), n.parent[h], n.pos[h])
    IN [filled EXCEPT !.kind[valve] = "module"]
-----------------------------------------------------------------------------
(* Creation and edition.                                                   *)

CleanClipboard == clip' = NULL /\ cut' = {}

Create(n, h, t, pos, kind, name) ==
    [Insert(n, h, t, pos) EXCEPT !.kind[h] = kind, !.name[h] = name,
                                 !.level[h] = ChildLevel(n, t)]

\* The positions CDlgCreateModule offers, for a dialog opened on the table at
\* and "Located in" set to t.
Offered(at, t) ==
    (1 .. (IF t = at THEN GetLastBranchPos(net, t) ELSE GetCount(net, t)) + 1) \cap (1 .. MaxPos)
FreeNames == {name \in Name : FindHydroMod(net, name) = {}}

\* "Verify if the new index is free" asks the table the dialog was opened on.
AddModule(at, t) ==
    /\ at \in Modules \cup {Network} /\ IF at = Network THEN t = Network ELSE t \in Modules
    /\ \E h \in HM \ Exists(net), name \in FreeNames, pos \in Offered(at, t) :
         net' = Create(VerifyNewPos(net, at, pos), h, t, pos, "module", name)
    /\ CleanClipboard
    /\ UNCHANGED <<lastOp, failure>>

AddValve(at, t) ==
    /\ at \in Modules /\ t \in Modules
    /\ \E h \in HM \ Exists(net), name \in FreeNames, pos \in Offered(at, t) :
         net' = Create(VerifyNewPos(net, t, pos), h, t, pos, "circuit", name)
    /\ CleanClipboard
    /\ UNCHANGED <<lastOp, failure>>

\* EditHydroMod: the position is exchanged with that of a sibling.  "Located
\* in" can be changed here too; it only changes the positions offered.
EditPosition(h, t, pos) ==
    /\ h \in InNetwork(net) /\ pos # net.pos[h] /\ pos <= MaxPos
    /\ \/ t = net.parent[h] /\ pos \in 1 .. GetLastBranchPos(net, t)
       \/ t # net.parent[h] /\ net.parent[h] # Network /\ t \in Modules
          /\ pos \in Offered(net.parent[h], t)
    /\ LET same == {x \in Children(net, net.parent[h]) \ {h} : net.pos[x] = pos}
       IN \/ same = {} /\ net' = SetPos(net, h, pos)
          \/ \E x \in same : net' = SetPos(SetPos(net, x, net.pos[h]), h, pos)
    /\ CleanClipboard
    /\ UNCHANGED <<lastOp, failure>>

\* A row dragged in the sheet: those in between are shifted.
ChangePosition(h, pos) ==
    /\ h \in InNetwork(net) /\ pos # net.pos[h]
    /\ \E x \in Children(net, net.parent[h]) : pos = net.pos[x]
    /\ LET old == net.pos[h]
           Shifted(x) == IF net.pos[x] \in old + 1 .. pos THEN net.pos[x] - 1
                         ELSE IF net.pos[x] \in pos .. old - 1 THEN net.pos[x] + 1
                         ELSE net.pos[x]
       IN net' = [net EXCEPT !.pos = [x \in HM |-> IF x = h THEN pos
                                        ELSE IF x \in Children(net, net.parent[h]) THEN Shifted(x)
                                        ELSE @[x]]]
    /\ UNCHANGED <<clip, lastOp, failure>> /\ cut' = {}

\* The selected item is deleted by its name.
Delete(h) ==
    /\ h \in InNetwork(net)
    /\ \E x \in FindHydroMod(net, net.name[h]) : net' = DeleteHM(net, x)
    /\ CleanClipboard
    /\ UNCHANGED <<lastOp, failure>>
-----------------------------------------------------------------------------
(* The clipboard.  It holds one branch: one selected item.                 *)

CopyHMToClipBoard(h) ==
    LET OfBranch(f) == [x \in Branch(net, h) |-> f[x]]
    IN clip' = [root |-> h, kind |-> OfBranch(net.kind), parent |-> OfBranch(net.parent),
                pos |-> OfBranch(net.pos), name |-> OfBranch(net.name)]

Copy(h) ==
    /\ h \in InNetwork(net)
    /\ CopyHMToClipBoard(h) /\ lastOp' = "copy" /\ cut' = {}
    /\ UNCHANGED <<net, failure>>

Cut(h) ==
    /\ h \in InNetwork(net)
    /\ CopyHMToClipBoard(h) /\ lastOp' = "cut" /\ cut' = Branch(net, h)
    /\ UNCHANGED <<net, failure>>

\* The marks of the sheet count as well as those of the tree; they are not
\* modelled.
Escape ==
    /\ lastOp = "cut"
    /\ CleanClipboard /\ lastOp' = "undefined"
    /\ UNCHANGED <<net, failure>>

Itself(h) == net.name[h] = clip.name[clip.root]

\* The check of the menu, made only while an item of the tree is marked: the
\* objects of the clipboard are copies, names are compared.
ItselfOrBelow(h) ==
    \E a \in {h} \cup Ancestors(net, h) : a # Network /\ net.name[a] = clip.name[clip.root]
BelowItself(h) ==
    /\ net.name[h] # clip.name[clip.root]
    /\ ItselfOrBelow(h)

\* CreateCopyHM: new objects for the branch in the clipboard, which keep their
\* names; copy gives the new object of each.
CreateCopyHM(n, copy, t) ==
    LET new == {copy[x] : x \in DOMAIN copy}
        Source(y) == CHOOSE x \in DOMAIN copy : copy[x] = y
        Copied(f, c) == [y \in HM |-> IF y \in new THEN c[Source(y)] ELSE f[y]]
    IN [n EXCEPT !.kind = Copied(@, clip.kind), !.name = Copied(@, clip.name),
                 !.pos = Copied(@, clip.pos),
                 !.parent = [y \in HM |-> IF y \notin new THEN @[y]
                                          ELSE IF y = copy[clip.root] THEN t
                                          ELSE copy[clip.parent[Source(y)]]]]

\* A cut branch is removed once it is copied: the first of its name goes.
RemoveCut(n, t) ==
    \E x \in FindHydroMod(n, clip.name[clip.root]) :
        /\ net' = DeleteHM(n, x)
        /\ failure' = IF t \in Branch(n, x) THEN "freedTableUsed" ELSE failure
        /\ clip' = NULL /\ lastOp' = "undefined"

\* The end of _TabProjPaste; the network is n, where the copy is in t.
PasteDone(n, t) ==
    /\ \/ lastOp = "cut" /\ RemoveCut(n, t)
       \/ lastOp # "cut" /\ net' = n /\ UNCHANGED <<clip, lastOp, failure>>
    /\ cut' = {}

\* The new objects: one for each in the clipboard.
FreshCopies ==
    {copy \in [DOMAIN clip.kind -> HM \ Exists(net)] :
        \A x, y \in DOMAIN copy : copy[x] = copy[y] => x = y}

PasteIn(t) ==
    /\ t \in Modules \cup {Network} /\ clip # NULL
    /\ t = Network => clip.kind[clip.root] = "module"
    /\ cut # {} /\ t # Network => ~ItselfOrBelow(t)
    /\ \E copy \in FreshCopies :
         LET h == copy[clip.root]
             n == CreateCopyHM(net, copy, t)
         IN /\ GetCount(net, t) < MaxPos
            /\ PasteDone(SetPos(SetHMLevel(n, h, ChildLevel(net, t)), h, GetCount(net, t) + 1), t)

PasteBefore(h) ==
    /\ h \in InNetwork(net) /\ clip # NULL /\ clip.kind[clip.root] = "module"
    /\ cut # {} => ~BelowItself(h)
    /\ \E copy \in FreshCopies :
         LET t == net.parent[h]
             new == copy[clip.root]
             n == SetHMLevel(CreateCopyHM(net, copy, t), new, net.level[h])
         IN /\ GetLastBranchPos(net, t) < MaxPos
            /\ PasteDone(SetPos(VerifyNewPos(SetPos(n, new, 0), t, net.pos[h]), new, net.pos[h]), t)
-----------------------------------------------------------------------------
(* Drag and drop.                                                          *)

\* The drop is refused on itself, its parent, a circuit and a marked item.  On
\* the network IsaModule() is asked of an object that is no CDS_HydroMod.
DropTargets(h) == ((Modules \cup {Network}) \ {h, net.parent[h]}) \ cut

\* Moved under one of its own objects h is cut off the network, and SetHMLevel
\* goes round in it until the stack overflows.
Moved(h, t, pos) ==
    /\ net' = MoveBranch(net, h, t, pos)
    /\ failure' = IF t \in Branch(net, h) THEN "stackOverflow" ELSE failure

\* Connected to a circuit of one of its own objects h goes all the same: what it
\* held is in that circuit from now on, and the circuit in what h held.
Connected(h, valve) ==
    /\ IsaModule(net, h) /\ net.kind[valve] = "circuit"
    /\ net' = ConnectBranch(net, h, valve)
    /\ UNCHANGED failure

OnLButtonUp(h, t) ==
    /\ h \in InNetwork(net) /\ t \in DropTargets(h)
    /\ LET last == GetLastBranchPos(net, t) + 1
       IN /\ last <= MaxPos
          /\ \/ IsaModule(net, h) /\ UNCHANGED <<net, failure>>        \* cancelled
             \/ \E pos \in IF IsaModule(net, h) THEN 1 .. last ELSE {last} : Moved(h, t, pos)
             \/ \E valve \in Children(net, t) : Connected(h, valve)
    /\ cut' = {} /\ UNCHANGED <<clip, lastOp>>
-----------------------------------------------------------------------------
Command ==
    \/ \E at, t \in Tables : AddModule(at, t) \/ AddValve(at, t)
    \/ \E h \in HM, t \in Tables, pos \in 1 .. MaxPos : EditPosition(h, t, pos)
    \/ \E h \in HM, pos \in 1 .. MaxPos : ChangePosition(h, pos)
    \/ \E h \in HM : Delete(h) \/ Copy(h) \/ Cut(h) \/ PasteBefore(h)
    \/ Escape
    \/ \E t \in Tables : PasteIn(t)
    \/ \E h \in HM, t \in Tables : OnLButtonUp(h, t)

\* A failure ends the program.
Next == failure = "none" /\ Command

Spec == Init /\ [][Next]_vars
-----------------------------------------------------------------------------
NamesDiffer(n) == \A x, y \in Exists(n) : n.name[x] = n.name[y] => x = y

\* The positions of a table are 1, 2, ..., in the network and in the clipboard.
Fill(C, pos) == {pos[h] : h \in C} = 1 .. Cardinality(C)
NetworkFills == \A t \in Tables : Fill(Children(net, t), net.pos)
ClipboardFills ==
    clip # NULL => \A t \in DOMAIN clip.kind :
        Fill({h \in DOMAIN clip.kind \ {clip.root} : clip.parent[h] = t}, clip.pos)
PositionsFill == NetworkFills /\ ClipboardFills

\* As long as the program runs nothing is lost: whatever is moved, connected,
\* pasted or removed, every module and circuit that is left and was found from
\* the hydraulic network, through modules only (DeleteTADSBranch and the search
\* by name go through those), still is, and nothing gets in itself.  One command
\* does lose a branch: a drop that OnLButtonUp does not refuse, of a module on
\* one of its own, to connect it to a circuit there.
Attached(n) ==
    {h \in InNetwork(n) : n.parent[h] # h /\ \A a \in Ancestors(n, h) : IsaModule(n, a)}
Detached(n) == Exists(n) \ Attached(n)
ConnectedBelow(h) ==
    \E t \in Branch(net, h) : \E valve \in Children(net, t) :
        OnLButtonUp(h, t) /\ Connected(h, valve)
NothingLost ==
    [][failure' = "none" =>
         \A x \in Detached(net') \ Detached(net) :
            \E h \in HM : x \in Branch(net, h) /\ ConnectedBelow(h)]_vars

\* The level kept in each object is its depth: SetHMLevel has been called with
\* the right one, and on all that moved, after every insertion and move.
LevelIsDepth ==
    failure = "none" =>
        \A h \in InNetwork(net) : net.level[h] = Cardinality(Ancestors(net, h))

\* "Verify if the new index is free, if not shift up" and "Reindex the modules":
\* a command leaves no hole and no double in the positions of a table, unless
\* there was one in the network or in what it pastes.  Two do: a module created
\* with another "Located in" than the table its dialog was opened on, and an
\* edition with "Located in" changed.
LocatedElsewhere ==
    \/ \E at, t \in Tables : at # t /\ AddModule(at, t)
    \/ \E h \in HM, t \in Tables, pos \in 1 .. MaxPos :
          t # net.parent[h] /\ EditPosition(h, t, pos)
PositionsKept ==
    [][PositionsFill /\ failure' = "none" /\ ~PositionsFill' => LocatedElsewhere]_vars

\* Siblings are never put in another order by what happens around them: only an
\* edition or a drag in the sheet changes the order of those that stay.
Reordered ==
    \E h \in HM, pos \in 1 .. MaxPos :
        ChangePosition(h, pos) \/ \E t \in Tables : EditPosition(h, t, pos)
Reversed(x, y) ==
    /\ net.parent[x] = net.parent[y] /\ net'.parent[x] = net'.parent[y]
    /\ net.pos[x] < net.pos[y] /\ net'.pos[x] > net'.pos[y]
SiblingsKeepOrder ==
    [][(\E x, y \in Exists(net) \cap Exists(net') : Reversed(x, y)) => Reordered]_vars

\* A cut branch that is pasted is still there, once, and the program goes on:
\* what is removed afterwards is found by its name, and is neither another
\* module nor one the copy is in.  It takes different names, and the marks the
\* menu looks at to forbid pasting in the branch itself.
Pasted == lastOp = "cut" /\ lastOp' # "cut" /\ net' # net
CutLosesNothing ==
    [][Pasted /\ cut # {} /\ NamesDiffer(net) =>
         /\ failure' = "none" /\ NamesDiffer(net')
         /\ {net'.name[h] : h \in Exists(net')} = {net.name[h] : h \in Exists(net)}]_vars

\* While names differ a deletion, which goes through the name, takes the selected
\* branch, all of it and nothing else.
Lost == Exists(net) \ Exists(net')
DeleteTakesTheSelected ==
    [][Lost # {} /\ NamesDiffer(net)
         => \A h \in HM : Delete(h) => Lost = Branch(net, h)]_vars
=============================================================================
