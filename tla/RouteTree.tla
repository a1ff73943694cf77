----------------------------- MODULE RouteTree -----------------------------
(***************************************************************************)
(* Route unregistration of app.go: UnregisterFixedRoute, findAndRemoveTree *)
(* and findAndRemoveSingleTree, over the per-method route trees of        *)
(* IZIApp.Handlers.routers.                                               *)
(*                                                                        *)
(* A Tree is abstracted to its nodes and their leaves. A node is named by *)
(* the path from the root, a sequence of segments: a fixed segment is a   *)
(* child in fixrouters (whose prefix is the segment), the Wild segment is *)
(* the wildcard child (t.wildcard, as addPrefix of namespace.go walks it). *)
(* leaves[n] is the leaves of node n in order, each a route's handler.   *)
(* The root tree's prefix is "" (NewTree), so the prefix test of          *)
(* UnregisterFixedRoute holds exactly for the fixedRoute "/".             *)
(***************************************************************************)
EXTENDS Naturals, Sequences, FiniteSets, TLC

CONSTANTS
    Methods,      \* HTTPMETHOD
    Segs,         \* fixed path segments
    Wild,         \* the wildcard segment (":id")
    Routes,       \* the paths routes may be registered at
    MaxLeaves     \* bound on the handlers registered

\* The paths UnregisterFixedRoute may be called with, split by splitPath.
FixedRoutes == {r \in Routes \cup {<<>>} : \A i \in DOMAIN r : r[i] \in Segs}

\* The method argument: "" or "*" for every method, or one of them.
MethodArgs == Methods \cup {"", "*"}

RootPrefix == <<>>

EmptyTree == [nodes |-> {RootPrefix}, leaves |-> [n \in {RootPrefix} |-> <<>>]]

VARIABLES
    routers,   \* method -> its Tree, for the methods that have one
    nleaves    \* handlers registered so far

vars == <<routers, nleaves>>

Init ==
    /\ routers = [m \in {} |-> EmptyTree]
    /\ nleaves = 0

-----------------------------------------------------------------------------
(* Tree helpers.                                                          *)

Prefixes(p) == {SubSeq(p, 1, k) : k \in 0..Len(p)}

IsBelow(n, c) == Len(n) >= Len(c) /\ SubSeq(n, 1, Len(c)) = c

\* len(t.fixrouters) > 0 for node c: a child by a fixed segment.
HasFixChildren(c, t) == \E n \in t.nodes : Len(n) = Len(c) + 1 /\ IsBelow(n, c) /\ n[Len(n)] # Wild

\* t.leaves = t.leaves[1:] at node c, when it has a leaf.
DropFirstLeaf(c, t) ==
    IF t.leaves[c] = <<>> THEN t ELSE [t EXCEPT !.leaves[c] = Tail(@)]

\* Removing the *Tree of c from its parent's fixrouters drops the whole
\* subtree below c, the wildcard child included.
RemoveSubtree(c, t) ==
    LET kept == {n \in t.nodes : ~IsBelow(n, c)}
    IN [nodes |-> kept, leaves |-> [n \in kept |-> t.leaves[n]]]

\* Registering handler h at path p (ControllerRegister.Add, Tree.AddRouter):
\* the nodes along p are created, and h is appended to p's leaves.
AddRoute(t, p, h) ==
    LET ns == t.nodes \cup Prefixes(p)
    IN [nodes |-> ns,
        leaves |-> [n \in ns |-> (IF n \in t.nodes THEN t.leaves[n] ELSE <<>>)
                                  \o (IF n = p THEN <<h>> ELSE <<>>)]]

-----------------------------------------------------------------------------
(* The code.                                                              *)

\* findAndRemoveTree(paths, entryPointTree, method) (lines 299-325): the
\* fixed child whose prefix is paths[0]; at the last segment, with fixed
\* children only the first leaf goes, otherwise the child is removed from
\* fixrouters; before it, the search goes on in the child.
RECURSIVE findAndRemoveTree(_, _, _)
findAndRemoveTree(paths, at, t) ==
    LET c == at \o <<Head(paths)>> IN
    IF c \notin t.nodes THEN t
    ELSE IF Len(paths) = 1
         THEN IF HasFixChildren(c, t) THEN DropFirstLeaf(c, t) ELSE RemoveSubtree(c, t)
         ELSE findAndRemoveTree(Tail(paths), c, t)

\* findAndRemoveSingleTree(entryPointTree) (lines 327-339): the first leaf
\* of the root goes only when the root has fixed children.
findAndRemoveSingleTree(t) ==
    IF HasFixChildren(RootPrefix, t) THEN DropFirstLeaf(RootPrefix, t) ELSE t

\* One method's tree (lines 278-283, 290-294).
UnregisterIn(p, t) ==
    IF p = RootPrefix THEN findAndRemoveSingleTree(t)
    ELSE findAndRemoveTree(p, RootPrefix, t)

\* The trees UnregisterFixedRoute works on: every method that has a tree
\* for "" and "*", else the one named, if it has one (lines 274-278, 289).
Targets(meth) == IF meth \in {"", "*"} THEN DOMAIN routers ELSE {meth} \cap DOMAIN routers

\* UnregisterFixedRoute(fixedRoute, method) (lines 272-297).
UnregisterFixedRoute(p, meth) ==
    /\ routers' = [m \in DOMAIN routers |->
                    IF m \in Targets(meth) THEN UnregisterIn(p, routers[m]) ELSE routers[m]]
    /\ UNCHANGED nleaves

\* Router(rootpath, c, "method:...") (lines 258-261): a handler for one
\* method, the method's tree created on first use.
Router(m, p) ==
    /\ nleaves < MaxLeaves
    /\ nleaves' = nleaves + 1
    /\ routers' = (m :> AddRoute(IF m \in DOMAIN routers THEN routers[m] ELSE EmptyTree,
                                 p, nleaves + 1)) @@ routers

\* Include, RESTRouter, AutoRouter, AutoPrefix, Get, Post, ..., Any and
\* Handler (lines 368-492) register through IZIApp.Handlers: one Router
\* step for each method and path they add a handler at (Any and Handler
\* at every method, RESTRouter also at rootpath/:objectId).
Register(m, p) == Router(m, p)

Next ==
    \/ \E m \in Methods, p \in Routes : Register(m, p)
    \/ \E p \in FixedRoutes, meth \in MethodArgs : UnregisterFixedRoute(p, meth)

Spec == Init /\ [][Next]_vars

-----------------------------------------------------------------------------
(* Properties.                                                            *)

RoutesAt(t, n) == {[path |-> n, h |-> t.leaves[n][i]] : i \in DOMAIN t.leaves[n]}

RoutesOf(t) == UNION {RoutesAt(t, n) : n \in t.nodes}

NRoutesAt(t, n) == IF n \in t.nodes THEN Len(t.leaves[n]) ELSE 0

\* A call for path p removes no route at any other path, in any method:
\* children keep "functioning as before".
OtherRoutesKept(p) ==
    \A m \in DOMAIN routers :
        \A r \in RoutesOf(routers[m]) : r.path # p => r \in RoutesOf(routers'[m])

\* A call for path p unregisters a route at p in every targeted method
\* that has one, "/" included.
FixedRouteRemoved(p, meth) ==
    \A m \in Targets(meth) :
        NRoutesAt(routers[m], p) > 0 => NRoutesAt(routers'[m], p) < NRoutesAt(routers[m], p)

\* The doc comment of UnregisterFixedRoute: it unregisters the route at
\* fixedRoute, so that it can be replaced, and replaces "only certain
\* paths". Every call removes a route at its path in each targeted method
\* that has one, and no route at any other path.
UnregisterOnlyFixedRoute ==
    [][\A p \in FixedRoutes, meth \in MethodArgs :
          UnregisterFixedRoute(p, meth) => FixedRouteRemoved(p, meth) /\ OtherRoutesKept(p)]_vars
=============================================================================
