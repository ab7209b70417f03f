----------------------------- MODULE ObjectTree -----------------------------
(***************************************************************************)
(* What the object database promises its users (src/TASelect/DataBase.h):  *)
(* objects that hang in trees, each under at most one other, and that can  *)
(* be held besides.  Something that hangs or is held stays; deleting an    *)
(* object by force takes what hangs under it and nothing else.             *)
(*                                                                         *)
(* CDataBase keeps this relation three times (the lists of the tables, the *)
(* parent pointers, the owners); here it is one function.                  *)
(***************************************************************************)
CONSTANTS Node,         \* the objects
          Base,         \* the object the first tree grows from
          Holder,       \* those that can hold others
          None

VARIABLES nodes,        \* the objects that exist
          parent,       \* the object that one hangs under, or None
          holders,      \* the objects that hold one
          closing       \* the whole is being given up

vars == <<nodes, parent, holders, closing>>

\* S and what hangs under it, at any depth.
Downward(S) == \A n \in Node : parent[n] \in S => n \in S
Below(S) == {n \in Node : \A T \in SUBSET Node : S \subseteq T /\ Downward(T) => n \in T}

\* What nothing keeps.
Loose == {n \in nodes \ {Base} : parent[n] = None /\ holders[n] = {}}

Planted ==
    /\ nodes = {Base} /\ ~closing
    /\ parent = [n \in Node |-> None] /\ holders = [n \in Node |-> {}]

Init == Planted

Create(n) ==
    /\ ~closing /\ n \notin nodes
    /\ nodes' = nodes \cup {n}
    /\ UNCHANGED <<parent, holders, closing>>

\* Only what hangs nowhere is hung up, and never under itself.
Attach(n, p) ==
    /\ ~closing /\ n \in nodes \ {Base} /\ p \in nodes
    /\ parent[n] = None /\ p \notin Below({n})
    /\ parent' = [parent EXCEPT ![n] = p]
    /\ UNCHANGED <<nodes, holders, closing>>

Detach(n) ==
    /\ ~closing /\ n \in nodes
    /\ parent' = [parent EXCEPT ![n] = None]
    /\ UNCHANGED <<nodes, holders, closing>>

Hold(n, h) ==
    /\ ~closing /\ n \in nodes /\ h \in nodes
    /\ holders' = [holders EXCEPT ![n] = @ \cup {h}]
    /\ UNCHANGED <<nodes, parent, closing>>

Release(n, h) ==
    /\ ~closing /\ n \in nodes /\ holders' = [holders EXCEPT ![n] = @ \ {h}]
    /\ UNCHANGED <<nodes, parent, closing>>

Take(S) ==
    /\ nodes' = nodes \ S
    /\ parent' = [n \in Node |-> IF n \in S THEN None ELSE parent[n]]
    /\ holders' = [n \in Node |-> IF n \in S THEN {} ELSE holders[n]]
    /\ UNCHANGED closing

\* Without force: what nothing keeps, and nothing hangs under.
Discard(n) == ~closing /\ n \in Loose /\ Below({n}) = {n} /\ Take({n})

\* With force: everything under the object goes too.
Prune(n) == ~closing /\ n \in nodes \ {Base} /\ Take(Below({n}))

\* All that nothing keeps, with everything under it.
Tidy == ~closing /\ Take(Below(Loose))
-----------------------------------------------------------------------------
(* The end: every object lets go of the others before the first one goes.  *)

GiveUp == ~closing /\ closing' = TRUE /\ UNCHANGED <<nodes, parent, holders>>

LetGo(n) ==
    /\ closing /\ n \in nodes
    /\ parent' = [m \in Node |-> IF parent[m] = n THEN None ELSE parent[m]]
    /\ holders' = [m \in Node |-> holders[m] \ {n}]
    /\ UNCHANGED <<nodes, closing>>

Vanish(n) ==
    /\ closing /\ n \in nodes
    /\ \A m \in nodes : parent[m] = None /\ holders[m] \cap nodes = {}
    /\ Take({n})

Replant == closing /\ nodes = {} /\ Planted'
-----------------------------------------------------------------------------
Next ==
    \/ \E n \in Node : \/ Create(n) \/ Detach(n) \/ Discard(n) \/ Prune(n)
                       \/ LetGo(n) \/ Vanish(n)
                       \/ \E p \in Node : Attach(n, p)
                       \/ \E h \in Holder : Hold(n, h) \/ Release(n, h)
    \/ Tidy \/ GiveUp \/ Replant

Spec == Init /\ [][Next]_vars
=============================================================================
