--------------------------- MODULE TemplateCache ---------------------------
(***************************************************************************)
(* The view-path registry and template cache of template.go:             *)
(*   iziViewPathTemplates  (registered, cache)                           *)
(*   iziViewPathTemplateLocked  (locked)                                 *)
(*   templatesLock, a sync.RWMutex  (wslot, readers, rwait)              *)
(* driven by the startup goroutine (initBeforeHTTPRun running the        *)
(* registerTemplate hook: AddViewPath(ViewsPath), then lockViewPaths)    *)
(* and by request goroutines that, in DEV mode, rebuild the template     *)
(* they render (and its layout) before ExecuteViewPathTemplate, while    *)
(* the template directory is being edited.                               *)
(*                                                                       *)
(* A compiled unit is abstracted to the on-disk version of the file it   *)
(* was compiled from; what compiling a file does (getTemplate) is        *)
(* abstracted to its outcome in the directory as it stands (Resolver.tla  *)
(* computes it from the files' contents): a unit, a nil template with no *)
(* error, a returned error, or a panic.                                  *)
(***************************************************************************)
EXTENDS Naturals, Sequences, SequencesExt

CONSTANTS
    Main,        \* the goroutine running the startup hooks of izigo.Run
    Requests,    \* request-handling goroutines
    NoG,         \* no goroutine: the free writer slot of templatesLock
    ViewPaths,   \* view-path directories a call may name
    ViewsPath,   \* BConfig.WebConfig.ViewsPath, registered at startup
    Listing,     \* files under ViewsPath: one lexically ordered sequence per subdirectory
    RunModes,    \* the values BConfig.RunMode may have
    EditKinds,   \* run mode -> what an edit of a template file may leave on disk
    MaxEdits,    \* bound on the number of edits of the template directory
    NoUnit,      \* absent entry of a view path's template map
    NilUnit      \* a nil *template.Template stored in the map

ASSUME ViewsPath \in ViewPaths /\ RunModes \subseteq {"dev", "prod"}

Goroutines == Requests \cup {Main}
Files == UNION {ToSet(s) : s \in Listing}
Versions == 0..MaxEdits

\* A file on disk compiles to a unit ("ok"), fails to parse ("parseErr"),
\* includes a file that does not exist ("missingRef"), or is gone
\* ("deleted"); or it invokes a fragment whose declaring sibling fails to
\* parse, which leaves getTemplate holding a nil template with the error
\* dropped (lines 300, 313, 322): nothing follows ("nilFragment"), or a
\* later match calls Lookup or New on the nil template ("nilFragmentCall").
Kinds == {"ok", "parseErr", "missingRef", "deleted", "nilFragment", "nilFragmentCall"}

PcStates == {"idle", "addViewPath", "stat", "next", "lockW", "lockR", "compile",
             "lockViewPaths", "serving", "crashed", "render", "rwait", "reading", "done"}

VARIABLES
    mode,        \* BConfig.RunMode, fixed before Run
    disk,        \* file -> [kind, ver]: the template directory
    edits,       \* edits made so far
    registered,  \* view paths that are keys of iziViewPathTemplates
    cache,       \* view path -> file -> compiled unit (its version) or NoUnit
    locked,      \* iziViewPathTemplateLocked
    wslot,       \* goroutine holding or waiting to drain readers for templatesLock.Lock
    readers,     \* goroutines holding templatesLock.RLock
    rwait,       \* goroutines blocked in templatesLock.RLock behind a writer
    pc,          \* goroutine -> where it is
    task         \* goroutine -> the call it is running

vars == <<mode, disk, edits, registered, cache, locked, wslot, readers, rwait, pc, task>>

Task == [path: ViewPaths, filter: SUBSET Files, todo: Seq(Files),
         wrote: BOOLEAN, ret: {"lock", "render", "done"}]

TypeOK ==
    /\ mode \in RunModes
    /\ disk \in [Files -> [kind: Kinds, ver: Versions]]
    /\ edits \in 0..MaxEdits
    /\ registered \subseteq ViewPaths
    /\ cache \in [ViewPaths -> [Files -> Versions \cup {NoUnit, NilUnit}]]
    /\ locked \in BOOLEAN
    /\ wslot \in Goroutines \cup {NoG}
    /\ readers \subseteq Requests /\ rwait \subseteq Requests
    /\ pc \in [Goroutines -> PcStates]
    /\ task \in [Goroutines -> Task]

EmptyMap == [f \in Files |-> NoUnit]

\* The startup goroutine is alive until a startup hook fails: then
\* initBeforeHTTPRun panics and the process is gone.
Alive == pc[Main] # "crashed"

-----------------------------------------------------------------------------
(* Helpers.                                                              *)

\* BuildTemplate's file filter: no names means every file.
Selected(t, f) == t.filter = {} \/ f \in t.filter

\* Where a goroutine goes when BuildTemplate (or AddViewPath) returns:
\* the startup hook locks the view paths on success (registerTemplate's
\* deferred lockViewPaths) and the process dies on an error; a request
\* ignores the error of its DEV rebuild and renders.
AfterBuild(g, ok) ==
    CASE task[g].ret = "lock"   -> IF ok THEN "lockViewPaths" ELSE "crashed"
      [] task[g].ret = "render" -> "render"
      [] task[g].ret = "done"   -> "done"

\* Outcome of getTemplate (lines 273-286) on a file in the given state:
\* (t, nil), (nil, nil), (nil, err), or a panic ("can't find template
\* file" for a missing or deleted file, a nil-pointer call on the nil t).
Outcome(st) ==
    CASE st.kind = "ok"          -> "unit"
      [] st.kind = "nilFragment" -> "nil"
      [] st.kind = "parseErr"    -> "error"
      [] OTHER                   -> "panic"

\* templatesLock.Unlock by g: blocked readers are handed the read lock.
UnlockW(g) ==
    /\ wslot' = NoG
    /\ readers' = readers \cup rwait
    /\ rwait' = {}

\* filepath.Walk over the directory: subdirectories in the unspecified
\* order of a Go map, files of a subdirectory in lexical order, files
\* that are not on disk skipped.
WalkOrders(p) ==
    LET subdirs == IF p = ViewsPath THEN Listing ELSE {}
    IN  {SelectSeq(FlattenSeq(o), LAMBDA f : disk[f].kind # "deleted") :
            o \in SetToSeqs(subdirs)}

-----------------------------------------------------------------------------
(* AddViewPath(viewPath).                                                *)

\* Variant: a view path registered with a nil map (no make) and, like
\* AddViewPath before the lock, re-registration allowed at any time.
AddViewPathNilMap(g) ==
    /\ pc[g] = "addViewPath"
    /\ registered' = registered \cup {task[g].path}
    /\ cache' = [cache EXCEPT ![task[g].path] = [f \in {} |-> NoUnit]]
    /\ pc' = [pc EXCEPT ![g] = "stat"]
    /\ UNCHANGED <<mode, disk, edits, locked, wslot, readers, rwait, task>>

\* Variant: the iziViewPathTemplateLocked check left out.
AddViewPathNoLockCheck(g) ==
    /\ pc[g] = "addViewPath"
    /\ registered' = registered \cup {task[g].path}
    /\ cache' = [cache EXCEPT ![task[g].path] = EmptyMap]
    /\ pc' = [pc EXCEPT ![g] = "stat"]
    /\ UNCHANGED <<mode, disk, edits, locked, wslot, readers, rwait, task>>

AddViewPath(g) ==
    LET p == task[g].path IN
    /\ pc[g] = "addViewPath"
    /\ \/ /\ locked /\ p \in registered          \* already known: ignored
          /\ pc' = [pc EXCEPT ![g] = AfterBuild(g, TRUE)]
          /\ UNCHANGED <<registered, cache>>
       \/ /\ locked /\ p \notin registered       \* panic: new path after Run
          /\ pc' = [pc EXCEPT ![g] = IF g = Main THEN "crashed" ELSE "done"]
          /\ UNCHANGED <<registered, cache>>
       \/ /\ ~locked                              \* fresh map, then BuildTemplate
          /\ registered' = registered \cup {p}
          /\ cache' = [cache EXCEPT ![p] = EmptyMap]
          /\ pc' = [pc EXCEPT ![g] = "stat"]
    /\ UNCHANGED <<mode, disk, edits, locked, wslot, readers, rwait, task>>

\* lockViewPaths, deferred by the registerTemplate startup hook.
lockViewPaths ==
    /\ pc[Main] = "lockViewPaths"
    /\ locked' = TRUE
    /\ pc' = [pc EXCEPT ![Main] = "serving"]
    /\ UNCHANGED <<mode, disk, edits, registered, cache, wslot, readers, rwait, task>>

-----------------------------------------------------------------------------
(* BuildTemplate(dir, files...).                                         *)

\* os.Stat of the directory, the lookup of its map (panic when unknown),
\* and the walk that lists its template files.
BuildStat(g) ==
    LET p == task[g].path IN
    /\ pc[g] = "stat"
    /\ \/ /\ p \notin registered
          /\ pc' = [pc EXCEPT ![g] = IF g = Main THEN "crashed" ELSE "done"]
          /\ UNCHANGED task
       \/ /\ p \in registered
          /\ \E order \in WalkOrders(p) :
                task' = [task EXCEPT ![g].todo = order, ![g].wrote = FALSE]
          /\ pc' = [pc EXCEPT ![g] = "next"]
    /\ UNCHANGED <<mode, disk, edits, registered, cache, locked, wslot, readers, rwait>>

\* The loop over the listed files: done, skip a file the filter leaves
\* out, or go for templatesLock.Lock to compile the next one.
BuildNext(g) ==
    LET t == task[g] IN
    /\ pc[g] = "next"
    /\ \/ /\ t.todo = <<>>
          /\ pc' = [pc EXCEPT ![g] = AfterBuild(g, TRUE)]
          /\ UNCHANGED task
       \/ /\ t.todo # <<>> /\ ~Selected(t, Head(t.todo))
          /\ task' = [task EXCEPT ![g].todo = Tail(t.todo)]
          /\ UNCHANGED pc
       \/ /\ t.todo # <<>> /\ Selected(t, Head(t.todo))
          /\ pc' = [pc EXCEPT ![g] = "lockW"]
          /\ UNCHANGED task
    /\ UNCHANGED <<mode, disk, edits, registered, cache, locked, wslot, readers, rwait>>

\* templatesLock.Lock, first half: take the writer slot; from now on new
\* readers block.
LockW(g) ==
    /\ pc[g] = "lockW"
    /\ wslot = NoG
    /\ wslot' = g
    /\ pc' = [pc EXCEPT ![g] = "lockR"]
    /\ UNCHANGED <<mode, disk, edits, registered, cache, locked, readers, rwait, task>>

\* templatesLock.Lock, second half: wait for the active readers to leave.
LockR(g) ==
    /\ pc[g] = "lockR"
    /\ readers = {}
    /\ pc' = [pc EXCEPT ![g] = "compile"]
    /\ UNCHANGED <<mode, disk, edits, registered, cache, locked, wslot, readers, rwait, task>>

\* getTemplate (or the extension's preprocessor) returned no error: store
\* what it returned, a nil template too, Unlock, next file.
CompileOk(g) ==
    LET t == task[g]  f == Head(t.todo) IN
    /\ Outcome(disk[f]) \in {"unit", "nil"}
    /\ cache' = [cache EXCEPT ![t.path][f] =
                    IF Outcome(disk[f]) = "unit" THEN disk[f].ver ELSE NilUnit]
    /\ UnlockW(g)
    /\ task' = [task EXCEPT ![g].todo = Tail(t.todo), ![g].wrote = TRUE]
    /\ pc' = [h \in Goroutines |-> IF h \in rwait THEN "reading"
                                   ELSE IF h = g THEN "next" ELSE pc[h]]

\* Variant: the error path returns without templatesLock.Unlock.
CompileFailedNoUnlock(g) ==
    LET f == Head(task[g].todo) IN
    /\ Outcome(disk[f]) = "error"
    /\ pc' = [pc EXCEPT ![g] = AfterBuild(g, FALSE)]
    /\ UNCHANGED <<mode, cache, task, wslot, readers, rwait>>

\* It returned an error: log, Unlock, return the error.
CompileFailed(g) ==
    LET f == Head(task[g].todo) IN
    /\ Outcome(disk[f]) = "error"
    /\ UnlockW(g)
    /\ pc' = [h \in Goroutines |-> IF h \in rwait THEN "reading"
                                   ELSE IF h = g THEN AfterBuild(g, FALSE) ELSE pc[h]]
    /\ UNCHANGED <<mode, cache, task>>

\* It panicked: the goroutine unwinds and nothing unlocks templatesLock.
CompilePanicked(g) ==
    LET f == Head(task[g].todo) IN
    /\ Outcome(disk[f]) = "panic"
    /\ pc' = [pc EXCEPT ![g] = IF g = Main THEN "crashed" ELSE "done"]
    /\ UNCHANGED <<mode, cache, task, wslot, readers, rwait>>

Compile(g) ==
    /\ pc[g] = "compile"
    /\ CompileOk(g) \/ CompileFailed(g) \/ CompilePanicked(g)
    /\ UNCHANGED <<mode, disk, edits, registered, locked>>

-----------------------------------------------------------------------------
(* ExecuteViewPathTemplate(wr, name, viewPath, data).                    *)

\* Variant: the run-mode test inverted.
ExecNeedsLockInverted == mode = "prod"

\* Whether the call takes templatesLock.RLock.
ExecNeedsLock == mode = "dev"

ExecuteStart(g) ==
    /\ pc[g] = "render"
    /\ \/ /\ ~ExecNeedsLock
          /\ pc' = [pc EXCEPT ![g] = "reading"]
          /\ UNCHANGED <<readers, rwait>>
       \/ /\ ExecNeedsLock /\ wslot = NoG
          /\ readers' = readers \cup {g}
          /\ pc' = [pc EXCEPT ![g] = "reading"]
          /\ UNCHANGED rwait
       \/ /\ ExecNeedsLock /\ wslot # NoG
          /\ rwait' = rwait \cup {g}
          /\ pc' = [pc EXCEPT ![g] = "rwait"]
          /\ UNCHANGED readers
    /\ UNCHANGED <<mode, disk, edits, registered, cache, locked, wslot, task>>

\* Look the view path and the template up and execute it. An unknown
\* path or name panics, so does t.Lookup on a stored nil template, and an
\* execution error is returned; either way
\* the deferred RUnlock releases the read lock and the request ends.
ExecuteRead(g) ==
    /\ pc[g] = "reading"
    /\ readers' = readers \ {g}
    /\ pc' = [pc EXCEPT ![g] = "done"]
    /\ UNCHANGED <<mode, disk, edits, registered, cache, locked, wslot, rwait, task>>

-----------------------------------------------------------------------------
(* The callers and the environment.                                      *)

\* A request arrives once the server is serving: a controller render of
\* a template and a layout from the controller's view path (rebuilt
\* first in DEV), or a handler calling AddViewPath.
StartRequest(r) ==
    /\ pc[r] = "idle" /\ pc[Main] = "serving"
    /\ \/ \E p \in ViewPaths, tpl, layout \in Files :
            /\ task' = [task EXCEPT ![r].path = p, ![r].filter = {tpl, layout},
                                    ![r].ret = "render"]
            /\ pc' = [pc EXCEPT ![r] = IF mode = "dev" THEN "stat" ELSE "render"]
       \/ \E p \in ViewPaths :
            /\ task' = [task EXCEPT ![r].path = p, ![r].filter = {}, ![r].ret = "done"]
            /\ pc' = [pc EXCEPT ![r] = "addViewPath"]
    /\ UNCHANGED <<mode, disk, edits, registered, cache, locked, wslot, readers, rwait>>

\* Someone edits a template file.
Edit ==
    /\ edits < MaxEdits
    /\ \E f \in Files, k \in EditKinds[mode] :
          disk' = [disk EXCEPT ![f] = [kind |-> k, ver |-> @.ver + 1]]
    /\ edits' = edits + 1
    /\ UNCHANGED <<mode, registered, cache, locked, wslot, readers, rwait, pc, task>>

\* The process has died, or every request has been answered.
Terminated ==
    /\ ~Alive \/ \A r \in Requests : pc[r] = "done"
    /\ UNCHANGED vars

Step(g) ==
    \/ AddViewPath(g) \/ BuildStat(g) \/ BuildNext(g) \/ LockW(g) \/ LockR(g)
    \/ Compile(g) \/ ExecuteStart(g) \/ ExecuteRead(g)

Init ==
    /\ mode \in RunModes
    /\ disk = [f \in Files |-> [kind |-> "ok", ver |-> 0]]
    /\ edits = 0
    /\ registered = {}
    /\ cache = [p \in ViewPaths |-> EmptyMap]
    /\ locked = FALSE
    /\ wslot = NoG /\ readers = {} /\ rwait = {}
    /\ pc = [g \in Goroutines |-> IF g = Main THEN "addViewPath" ELSE "idle"]
    /\ task = [g \in Goroutines |->
                 [path |-> ViewsPath, filter |-> {}, todo |-> <<>>, wrote |-> FALSE,
                  ret |-> IF g = Main THEN "lock" ELSE "done"]]

Next ==
    \/ Alive /\ \E g \in Goroutines : Step(g)
    \/ Alive /\ lockViewPaths
    \/ Alive /\ \E r \in Requests : StartRequest(r)
    \/ Alive /\ Edit
    \/ Terminated

\* Go schedules every runnable goroutine; sync.Mutex's starvation mode
\* hands the writer slot to a goroutine that keeps waiting for it.
Fairness ==
    /\ \A g \in Goroutines : WF_vars(Alive /\ Step(g))
    /\ \A g \in Goroutines : SF_vars(Alive /\ LockW(g))

Spec == Init /\ [][Next]_vars
FairSpec == Spec /\ Fairness

-----------------------------------------------------------------------------
(* Properties.                                                           *)

\* Accesses to iziViewPathTemplates (the outer map) and to one view
\* path's template map (the inner map), by where a goroutine stands.
WritesOuter(g) == pc[g] = "addViewPath" /\ ~locked
ReadsOuter(g) == pc[g] \in {"stat", "reading"} \/ (pc[g] = "addViewPath" /\ locked)
WritesInner(g, p) == pc[g] = "compile" /\ task[g].path = p
ReadsInner(g, p) == pc[g] = "reading" /\ task[g].path = p

\* No Go data race on the template maps: no goroutine writes a map
\* (AddViewPath's assignment, BuildTemplate's store under templatesLock)
\* while another reads or writes it. ExecuteViewPathTemplate takes no lock
\* in PROD, so this rests on the startup order (build, lockViewPaths,
\* then serve) and on AddViewPath refusing to rebuild after the lock;
\* in DEV it rests on the RLock.
DataRaceFree ==
    \A g, h \in Goroutines : g # h =>
        /\ WritesOuter(g) => ~(ReadsOuter(h) \/ WritesOuter(h))
        /\ \A p \in ViewPaths : WritesInner(g, p) => ~(ReadsInner(h, p) \/ WritesInner(h, p))

\* g is part-way through a BuildTemplate of p: it has stored a unit and
\* still has selected files to compile.
MidBuild(g, p) ==
    LET t == task[g] IN
    /\ t.path = p
    /\ pc[g] \in {"next", "lockW", "lockR", "compile"}
    /\ t.wrote
    /\ \E i \in 1..Len(t.todo) : Selected(t, t.todo[i])

\* The spec (section 5): "Build holds exclusive access for the full
\* scan-and-compile pass (no reads observe a partially rebuilt cache)".
\* No ExecuteViewPathTemplate reads a view path's map while a
\* BuildTemplate of that path is part-way through.
NoPartialBuildObserved ==
    \A g, h \in Goroutines, p \in ViewPaths : ReadsInner(h, p) => ~MidBuild(g, p)

\* Every request that has started is eventually answered: no goroutine
\* waits forever on templatesLock.
RequestsComplete ==
    \A r \in Requests : (pc[r] # "idle") ~> (pc[r] = "done")

=============================================================================
