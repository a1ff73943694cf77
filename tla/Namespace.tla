----------------------------- MODULE Namespace -----------------------------
(***************************************************************************)
(* Namespace composition of namespace.go: routes registered in a          *)
(* namespace, Namespace.Namespace nesting one namespace in another,       *)
(* AddNamespace mounting a namespace on the application, and addPrefix    *)
(* rewriting the pattern of every ControllerInfo reached.                 *)
(*                                                                        *)
(* A route tree is abstracted to its leaves: pairs of a ControllerInfo    *)
(* (an object, shared by every tree AddTree copies the leaf into) and the *)
(* path the leaf is reached by. The HTTP method a tree is kept under is   *)
(* left out: both branches of the routers[k] lookup add the same leaves  *)
(* and prefix the same objects. A path or pattern is a sequence of        *)
(* "/seg" segments; which segment is a string prefix of which is a        *)
(* constant relation, so strings.HasPrefix keeps its character-level      *)
(* meaning.                                                               *)
(***************************************************************************)
EXTENDS Naturals, Sequences, FiniteSets, SequencesExt

CONSTANTS
    Namespaces,   \* the Namespace values
    App,          \* IZIApp.Handlers
    Prefix,       \* namespace -> its prefix, a sequence of segments
    Segs,         \* the segments a rootpath may be
    StrPrefix,    \* <<a, b>> \in StrPrefix iff "/a" is a string prefix of "/b"
    MaxObjs,      \* bound on the ControllerInfo objects created
    MaxFilters,   \* bound on the FilterRouter objects created
    MaxDepth      \* bound on the length of a leaf's path or a filter's prefix

Owners == Namespaces \cup {App}

\* The filter positions a namespace can fill (BeforeStatic = 0 is the
\* zero value of Filter's position).
Positions == {"BeforeStatic", "BeforeRouter", "FinishRouter"}

\* Filter's action argument: "before", "after", or any other string.
Actions == {"before", "after", "other"}

VARIABLES
    leaves,   \* owner -> set of [obj, path]
    pattern,  \* obj -> ControllerInfo.pattern
    nobjs,    \* objects created so far
    filters,  \* owner -> position -> sequence of [fr, scope]: handlers.filters
    ftree,    \* FilterRouter -> the prefix its tree matches "*" under
    enabled,  \* owner -> handlers.enableFilter
    nfrs      \* FilterRouter objects created so far

\* A filter list entry is the shared *FilterRouter and, as history, the
\* prefix it was inserted under: the prefixes of the namespaces it was
\* mounted through, innermost last.

vars == <<leaves, pattern, nobjs, filters, ftree, enabled, nfrs>>

Init ==
    /\ leaves = [o \in Owners |-> {}]
    /\ pattern = <<>>
    /\ nobjs = 0
    /\ filters = [o \in Owners |-> [p \in Positions |-> <<>>]]
    /\ ftree = <<>>
    /\ enabled = [o \in Owners |-> FALSE]
    /\ nfrs = 0

\* strings.HasPrefix(pattern, prefix): every segment of prefix but the
\* last equal, its last segment a string prefix of the pattern's.
HasPrefix(p, pre) ==
    \/ pre = <<>>
    \/ /\ Len(pre) <= Len(p)
       /\ \A i \in 1..(Len(pre) - 1) : p[i] = pre[i]
       /\ <<pre[Len(pre)], p[Len(pre)]>> \in StrPrefix

\* addPrefix(t, prefix): every ControllerInfo reached from t whose
\* pattern does not start with prefix gets prefix put before it.
addPrefix(pat, objs, pre) ==
    [o \in DOMAIN pat |-> IF o \in objs /\ ~HasPrefix(pat[o], pre) THEN pre \o pat[o] ELSE pat[o]]

\* Namespace.Router (lines 101-104) through ControllerRegister.Add: a new
\* ControllerInfo whose pattern is the rootpath, at that path. AutoRouter,
\* AutoPrefix, Get, Post, ..., Any, Handler and Include (lines 108-189)
\* delegate the same way to n.handlers and add such a leaf each.
Router(n, seg) ==
    /\ nobjs < MaxObjs
    /\ nobjs' = nobjs + 1
    /\ pattern' = Append(pattern, <<seg>>)
    /\ leaves' = [leaves EXCEPT ![n] = @ \cup {[obj |-> nobjs + 1, path |-> <<seg>>]}]
    /\ UNCHANGED <<filters, ftree, enabled, nfrs>>

\* handlers.InsertFilter("*", pos, f): a new FilterRouter matching "*",
\* appended to the position's list; filters are now enabled.
InsertFilter(n, pos) ==
    /\ nfrs < MaxFilters
    /\ nfrs' = nfrs + 1
    /\ ftree' = Append(ftree, <<>>)
    /\ filters' = [filters EXCEPT ![n][pos] = Append(@, [fr |-> nfrs + 1, scope |-> <<>>])]
    /\ enabled' = [enabled EXCEPT ![n] = TRUE]

\* n.Cond(cond) (lines 57-74): with BeforeRouter filters already there, a
\* FilterRouter is put in front of them; otherwise InsertFilter.
Cond(n) ==
    /\ \/ /\ filters[n]["BeforeRouter"] # <<>> /\ nfrs < MaxFilters
          /\ nfrs' = nfrs + 1
          /\ ftree' = Append(ftree, <<>>)
          /\ filters' = [filters EXCEPT ![n]["BeforeRouter"] =
                           <<[fr |-> nfrs + 1, scope |-> <<>>]>> \o @]
          /\ UNCHANGED enabled
       \/ filters[n]["BeforeRouter"] = <<>> /\ InsertFilter(n, "BeforeRouter")
    /\ UNCHANGED <<leaves, pattern, nobjs>>

\* Filter's position for an action (lines 86-92).
FilterPos(action) ==
    CASE action = "before" -> "BeforeRouter"
      [] action = "after"  -> "FinishRouter"
      [] OTHER             -> "BeforeStatic"

\* n.Filter(action, f) (lines 86-97), one filter function.
Filter(n, action) ==
    /\ InsertFilter(n, FilterPos(action))
    /\ UNCHANGED <<leaves, pattern, nobjs>>

\* Mounting ni under owner: t.AddTree(ni.prefix, v) copies ni's leaves
\* under the prefix, and addPrefix rewrites the patterns of ni's objects.
\* For each filter of ni (when its filters are enabled), in position and
\* list order: mr.tree becomes a new tree holding the old one under the
\* prefix (on the shared FilterRouter), and insertFilterRouter appends
\* mr to owner's list of that position, enabling owner's filters.
Mount(owner, ni) ==
    LET pre == Prefix[ni]
        moved == IF enabled[ni] THEN filters[ni] ELSE [p \in Positions |-> <<>>]
        slots == UNION {{<<p, i>> : i \in DOMAIN moved[p]} : p \in Positions}
        times(fr) == Cardinality({s \in slots : moved[s[1]][s[2]].fr = fr})
        wrapped(fr) == FoldLeft(LAMBDA t, k : pre \o t, ftree[fr], [k \in 1..times(fr) |-> k])
    IN
    /\ \A l \in leaves[ni] : Len(pre \o l.path) <= MaxDepth
    /\ \A fr \in DOMAIN ftree : Len(wrapped(fr)) <= MaxDepth
    /\ leaves' = [leaves EXCEPT ![owner] =
                    @ \cup {[obj |-> l.obj, path |-> pre \o l.path] : l \in leaves[ni]}]
    /\ pattern' = addPrefix(pattern, {l.obj : l \in leaves[ni]}, pre)
    /\ ftree' = [fr \in DOMAIN ftree |-> wrapped(fr)]
    /\ filters' = [filters EXCEPT ![owner] =
                     [p \in Positions |-> @[p] \o [i \in DOMAIN moved[p] |->
                         [fr |-> moved[p][i].fr, scope |-> pre \o moved[p][i].scope]]]]
    /\ enabled' = [enabled EXCEPT ![owner] = @ \/ \E p \in Positions : moved[p] # <<>>]
    /\ UNCHANGED <<nobjs, nfrs>>

\* n.Namespace(ni) (lines 207-232).
NestNamespace(n, ni) == n # ni /\ Mount(n, ni)

\* AddNamespace(n) (lines 236-260).
AddNamespace(n) == Mount(App, n)

\* Building namespace n: a method call on it, or the LinkNamespace of the
\* same name that NewNamespace applies to it (NSCond, NSBefore, NSAfter,
\* NSRouter, NSGet, ..., NSHandler, lines 279-398); NSNamespace makes a
\* namespace and nests it in n.
Link(n) ==
    \/ \E s \in Segs : Router(n, s)
    \/ Cond(n)
    \/ \E a \in Actions : Filter(n, a)
    \/ \E ni \in Namespaces : NestNamespace(n, ni)

Next ==
    \/ \E n \in Namespaces : Link(n)
    \/ \E n \in Namespaces : AddNamespace(n)

Spec == Init /\ [][Next]_vars

-----------------------------------------------------------------------------
(* Properties.                                                            *)

\* The pattern of a ControllerInfo is the path it is routed at (it is
\* what reverse routing builds URLs from): for every route mounted on
\* the application, addPrefix left the pattern equal to the leaf's path.
\* addPrefix decides by a string prefix test on the pattern alone.
PatternIsRoutePath == \A l \in leaves[App] : pattern[l.obj] = l.path

\* A namespace's filters guard the requests under its prefix once it is
\* mounted: every filter in the application's lists matches under the
\* prefixes it was mounted through (a Cond mounted at /v1/auth checks
\* /v1/auth/*). Mounting rewrites mr.tree on the FilterRouter itself,
\* which every list holding it shares (lines 221-229, 250-257).
FilterScopedToMount ==
    \A p \in Positions : \A i \in DOMAIN filters[App][p] :
        ftree[filters[App][p][i].fr] = filters[App][p][i].scope

\* Namespace.Namespace and AddNamespace place a namespace's routes and
\* filters under its prefix (their doc comments and usage examples): once
\* mounted on the application, every route's pattern is the path it is
\* routed at and every filter matches under the prefixes it was mounted
\* through. Both rest on objects the mounts share and rewrite in place.
MountedAtPrefix == PatternIsRoutePath /\ FilterScopedToMount
=============================================================================
