# TLA+ models of izigo's view layer and start-up

These modules model the parts of `src/` with concurrent or recursive control
flow, and check them with TLC:
- the template cache and its lock;
- the template dependency resolver;
- `App.Run`'s server goroutines;
- namespace composition;
- route unregistration;
- the start hooks of `izigo.Run`.

Each definition is translated from the Go source. `PROJECT.json` maps every
modelled definition to the lines it stands for.

## The system

| Part | Source | What it does |
|---|---|---|
| View-path registry and cache | `template.go` 33-76, 163-230 | `iziViewPathTemplates` maps a view path to a map from file to compiled `*template.Template`. `AddViewPath` registers a path and builds it; it panics after `lockViewPaths`. `BuildTemplate` walks a directory and compiles each selected file under `templatesLock.Lock`. `ExecuteViewPathTemplate` renders, under `RLock` in DEV and with no lock in PROD. |
| Resolver | `template.go` 232-336 | `getTemplate` compiles one entry. Pass 1, `getTplDeep`, follows `{{template "x.tpl"}}` includes recursively, resolves `../` names against the including file, and skips names already in the namespace. Pass 2, `_getTemplate`, looks for the other names among the files of the entry's subdirectory: first a file of that name, then every file that `{{define}}`s it. |
| File listing | `template.go` 115-151 | `templateFile.visit` groups template files by subdirectory; `HasTemplateExt` tests the extension. |
| Start hooks | `izigo.go` 36-120 | `AddAPPStartHook` appends to a global slice. `Run`, `RunWithMiddleWares` and the test entry `TestIZIGoInit`/`InitIZIGoBeforeTest` each call `initBeforeHTTPRun`, which appends the six built-in hooks and ranges over the slice, panicking on the first error. `Run` and `RunWithMiddleWares` then parse their address into `BConfig.Listen` and call `App.Run`. `registerTemplate` (not in `src/`) calls `AddViewPath(ViewsPath)` and then `lockViewPaths`. |
| Server start-up | `app.go` 63-240 | `App.Run` serves FastCGI, or starts an HTTPS goroutine and an HTTP goroutine (graceful or normal mode). It then waits on `endRunning` (capacity 1), to which a goroutine sends when its listener fails. |
| Namespaces | `namespace.go` | Routes, `Cond` guards and filters are registered in a `Namespace`; `Filter` maps "before" to `BeforeRouter`, "after" to `FinishRouter` and anything else to `BeforeStatic`. `Namespace.Namespace` nests one namespace in another and `AddNamespace` mounts one on the application. Both copy route leaves under the prefix and call `addPrefix` to rewrite each `ControllerInfo.pattern`. They also wrap each `FilterRouter`'s tree under the prefix, in place, and append it to the parent's filter list. |
| Route unregistration | `app.go` 258-339 | `UnregisterFixedRoute` walks each method's tree (or the one method named) along the path's fixed segments. At the last segment, `findAndRemoveTree` drops the node's first leaf if the node has `fixrouters`; otherwise it removes the node from its parent's `fixrouters`. For `/`, `findAndRemoveSingleTree` drops the root's first leaf, but only when the root has `fixrouters`. |
| Routing shortcuts | `app.go` 368-492, `namespace.go` 101-189, 279-397 | `Get`, `Post`, ..., `Any`, `Handler`, `Include`, `AutoRouter` and `RESTRouter`, on the application or on a namespace, and the `NS*` `LinkNamespace` wrappers, each add handlers through `ControllerRegister` (not in `src/`). |
| Not modelled | see below | The extension and engine registry, the function table, the static and view path settings, `InsertFilter`, the admin UI strings and the tests. |

How the parts interact:
- At start-up, the template hook builds the views path and then locks the
  registry.
- Request goroutines render from the cache.
- In DEV, a controller first rebuilds the template and layout it renders,
  while files on disk may be changing.
- Every build runs the resolver once per file.

## Modules

### `TemplateCache.tla` (with `MC_TemplateCache.tla`)

The run mode (`mode`) is chosen in `Init` among `RunModes` and never changes, as `BConfig.RunMode` is set before `Run`. Processes:
- one startup goroutine (`Main`);
- request goroutines (`Requests`).

Variables:

| Variable | Stands for |
|---|---|
| `mode` | `BConfig.RunMode` |
| `registered`, `cache` | `iziViewPathTemplates` |
| `locked` | `iziViewPathTemplateLocked` |
| `wslot`, `readers`, `rwait` | `templatesLock`, with Go's `RWMutex` semantics: a writer takes the mutex and then waits for readers to drain; `RLock` blocks while a writer holds or waits for the lock; `Unlock` admits the blocked readers |
| `disk`, `edits` | the template directory, edited concurrently |
| `pc`, `task` | each goroutine's position and its call |

One action per step of the code:
- `AddViewPath`, `lockViewPaths`;
- `BuildStat` (stat, map lookup, walk), `BuildNext`, `LockW`/`LockR` (the two halves of `Lock`), and `Compile` (success, error and panic);
- `ExecuteStart`/`ExecuteRead`;
- `StartRequest` (a DEV render with its rebuild, or a handler `AddViewPath`).

A file's compilation is abstracted to what `getTemplate` does with it in its directory. There are four outcomes:
- a unit;
- a nil template with no error, which `BuildTemplate` stores at line 224 (`NilUnit`; `ExecuteRead` then panics on it);
- an error;
- a panic, which leaves the lock held (a missing file, or `Lookup`/`New` called on the nil template).

The disk kinds `nilFragment` and `nilFragmentCall` are the two nil cases. In both, a fragment's declaring sibling fails to parse and the error is dropped. The resolver module is what computes these outcomes from the files' contents. In the checked instance, DEV edits keep to units and errors: a nil template is stored and unlocked the way a unit is, and leaving it out keeps the liveness check under five minutes.

Fairness: weak fairness on every goroutine step, because Go schedules runnable goroutines. Strong fairness on taking the writer slot, because `sync.Mutex`'s starvation mode hands the mutex to a waiter that keeps trying. Edits and request arrivals are not fair.

### `Resolver.tla` (with `MC_Resolver.tla`)

The resolver is written as recursive operators over a directory. Each file is abstracted to:
- its `{{template}}` names, in order;
- its `{{define}}` names;
- whether it parses.

The namespace is a function from template name to the file that defined it; a later definition replaces an earlier one. A call threads a state of namespace, call log and panic. Each operator models one Go function or loop:
- `TplDeep` and `DeepLoop`: `getTplDeep`;
- `Pass2`, `ParseSibling` and `ByDefine`: `_getTemplate`;
- `GetTemplate`: `getTemplate`.

The state machine around it starts from a directory of empty files and applies bounded edits: adding an include or a fragment use (`AddInvoke`), a define (`AddDefine`), or a syntax error (`Break`). Each property then checks `GetTemplate` with every file as the entry, as `BuildTemplate` does.

The properties compare the result with reference definitions written from the spec:
- `Target`: the file a name denotes;
- `Reach`: the closure of the first pass;
- `SiblingDeclares` and `FirstDeclarer`.

### `ServerRun.tla`

The configuration flags that change control flow are chosen in `Init`, every combination of them (256 states). Processes:
- `Main`, running `Run`;
- the HTTPS and HTTP goroutines.

Variables:
- `addr` is `app.Server.Addr`;
- `chan` is `endRunning`;
- `bound` is the address each listener was given;
- `failed` is history.

Whether a listener binds, and when a serving server stops, is up to the environment and is not fair. Goroutine steps and `Run`'s receive are weakly fair.

### `Namespace.tla` (with `MC_Namespace.tla`)

A route tree is abstracted to its leaves: pairs of a shared `ControllerInfo` object and the path the leaf is reached by. A path is a sequence of segments. A constant relation says which segment is a string prefix of which, so `strings.HasPrefix` keeps its character-level meaning. The actions are `Router`, `Cond`, `Filter`, `NestNamespace` and `AddNamespace`. `Router` also stands for the other registration methods (`Get`, ..., `Include`), which each add a leaf with its own `ControllerInfo`. `Link(n)` groups the ways of building namespace `n`: a method call on it, or the `NS*` wrapper of the same name that `NewNamespace` applies.

Filter lists are functions from a position to a sequence of entries. An entry holds the shared `FilterRouter` and, as history, the prefixes it was mounted through. Which positions exist:
- `BeforeStatic` is `Filter`'s fallback;
- `BeforeRouter` holds `before` filters and `Cond`;
- `FinishRouter` holds `after` filters.

`ftree[fr]` is the prefix under which that `FilterRouter`'s tree matches `*`. A mount prepends the namespace prefix to it once for each list entry holding it, as the code's loop does.

### `StartHooks.tla` (with `MC_StartHooks.tla`)

The main goroutine from its first `AddAPPStartHook` to `App.Run`. Variables:

| Variable | Stands for |
|---|---|
| `hooks` | the `hooks` slice; a hook function is a model value |
| `ranAt` | how many times the loop has called each entry |
| `idx`, `snapLen` | the loop index, and `len(hooks)` when `range` began (Go evaluates the range expression once) |
| `pc`, `caller`, `arg` | where `main` is, which entry point called `initBeforeHTTPRun`, and its argument |
| `runMode`, `listen` | `BConfig.RunMode` and `BConfig.Listen` (address, port, domains) |

Actions:
- `AddAPPStartHook`;
- `Run`, `RunWithMiddleWares` and `InitIZIGoBeforeTest`, each starting `initBeforeHTTPRun` (`InitBeforeHTTPRun`), and `LoadConfigFails`;
- `RunHook`, one iteration of the loop: the hook succeeds or panics, and may register another hook (`AddsHook`);
- `HooksDone`: the test entry returns, or `Run`/`RunWithMiddleWares` parse their address (`ParseRun`, `ParseMW`) and call `App.Run`, which `ServerRun` models.

The hooks are not in `src/`. What a hook does is the environment's choice. An address is a model value, with its split on `:` and the `Atoi` of each part given as constants.

### `RouteTree.tla` (with `MC_RouteTree.tla`)

Each method's `Tree` is abstracted to its nodes and their leaves:
- a node is named by its path from the root;
- a fixed segment is a child in `fixrouters`, and `:id` is the `wildcard` child;
- `leaves[n]` lists node `n`'s handlers in order.

The root's prefix is `""`, so the code's prefix test singles out `/`. `findAndRemoveTree` is a recursive operator, one call per path segment. `Router` is the environment: it registers a handler for one method and creates that method's tree on first use. `Register` stands for the application shortcuts (`Get`, ..., `Any`, `Handler`, `RESTRouter`): each is one `Router` step per method and path it adds a handler at. `Targets(meth)` is the set of trees a call works on.

## Runs

| Run | Result | What it shows |
|---|---|---|
| `cache` | pass | Checked in both run modes, with renders, DEV rebuilds, handler `AddViewPath`s and edits (recoverable edits only in DEV):<br>• `TypeOK`.<br>• `DataRaceFree`: no goroutine writes a template map while another reads or writes it. In PROD this rests on the startup order alone.<br>• `RequestsComplete`: every started request ends. |
| `cache_partial` | violation | `NoPartialBuildObserved`: a render observes a half-rebuilt view path (spec section 5 says it cannot). |
| `cache_hang` | violation | `RequestsComplete`: a missing include makes a DEV rebuild panic while holding `templatesLock`, and every later request hangs. |
| `resolver` | pass | `ParentRelativeResolution`, `IncludesBound`, `SiblingFragmentsBound`. |
| `resolver_transitive` | violation | `TransitiveFragmentsBound`: a fragment named only by an included file is never looked up among the siblings. |
| `resolver_nil_template` | violation | `NoNilTemplate`: after a sibling fails to parse, `getTemplate` returns a nil template with no error, or panics on it. |
| `server_run` | pass | `RunReturnsOnFailure`: whatever the configuration, `Run` returns after a listener fails. |
| `server_cross_binding` | violation | `NoCrossBinding`: in normal mode the HTTP server can listen on the HTTPS address and vice versa. |
| `server_idle_wait` | violation | `NoIdleWait`: `Run` can wait on `endRunning` with no server running. |
| `namespace_mount` | violation | `MountedAtPrefix`, the conjunction of two parts. `PatternIsRoutePath`: a route's pattern can differ from the path it is mounted at, because `addPrefix` tests string prefixes. TLC breaks this part first. `FilterScopedToMount`, checked on its own, fails too: a namespace mounted twice (nested in `/api` and added on its own) leaves its `Cond` matching `/v1/v1/*`, because mounting rewrites `mr.tree` on the shared `FilterRouter`. |
| `start_hooks` | violation | `HooksRunOnce`: when serving or a test package's initialisation begins, every hook entry has run exactly once. TLC's trace has a user hook that registers another; the loop ranges over the old slice, so the new hook never runs. With no such hook, two `TestIZIGoInit` calls (one in each test file's `init`) rerun every hook. |
| `route_unregister` | violation | `UnregisterOnlyFixedRoute`, an action property made of two parts. `FixedRouteRemoved`: every call removes a route at its path in each targeted method that has one. `OtherRoutesKept`: no call removes a route at any other path. TLC breaks `OtherRoutesKept` first: unregistering `/a` when only `/a/:id` is registered removes `/a/:id`, because a node whose only child is the wildcard counts as childless and is deleted with its subtree. Checked on its own, `FixedRouteRemoved` fails too. With GET routes at `/` and `/a` and a POST route at `/`, `UnregisterFixedRoute("/", "*")` leaves the POST route, because `findAndRemoveSingleTree` removes a leaf only from a root with fixed children. A call that removes nothing at all is a stuttering step, so an action property cannot see it. |

Every property of a passing run has a mutant in `PROJECT.json`: a plausible bug in the mapped code that TLC finds.

## Bounds

- **TemplateCache:** two requests, two view paths (one of them with files), two files in two subdirectories, and one or two edits.
  - Two requests are enough for a rebuild to race a render and for two rebuilds to race each other.
  - Two files per walk are enough for a render to fall between two per-file lock sections.
  - In the `cache` run, DEV edits leave a file compiling or failing to parse. A panic under the lock is the known hang that `cache_hang` shows. PROD takes one edit of each outcome, plus a deletion: it never rebuilds after startup.
- **Resolver:** five files (four at the root, one in `sub/`), six names, two fragment names, at most two template actions per file, and at most four edits.
  - That is enough for an include chain, a forward reference between siblings, a fragment declared twice, a parent-relative include and a broken sibling. Each mutant needs at most four edits.
- **ServerRun:** all 256 flag combinations; nothing is unbounded.
- **RouteTree:** two methods, routes at `/`, `/a`, `/a/b` and `/a/:id`, and at most three handlers. This covers a node with fixed children, one with only a wildcard child, and a root with and without children.
- **Namespace:** two namespaces (`/v1`, `/api`) and prefixes or paths of up to three segments.
  - One route and two filters: enough for a route under a string-prefix of its namespace's prefix, for a `Cond` and a `Filter` in one namespace, and for one namespace to be mounted twice.
- **StartHooks:** two user hooks (one registers the other), two built-in hooks standing for the six, three addresses, and a slice of at most six entries. That is enough for two test initialisations, or a `Run` after hooks registered by hooks.

## Not yet modelled (plan)

1. Compose `Resolver` into `TemplateCache`: compute the compile outcome with `GetTemplate` over the edited directory instead of the abstract `Outcome`.
2. An abstract specification of the cache with an atomic rebuild per view path. The per-file build cannot refine it: `cache_partial` shows a render between two files.
3. Route unregistration: a passing run once the run budget allows, and a history variable so that a call that removes nothing is seen as a step.
4. Resolver: the spec says a fragment is taken from the first declaring sibling (4.3), but the code parses every declaring sibling into one namespace, so the last `define` wins. No run checks this at present.
5. State cache generation consistency after a failed rebuild, and the binding of one raw `../` name from two directories.
6. Namespace filter order: `Filter` with any action other than `before` or `after` lands in `BeforeStatic`, ahead of the namespace's `Cond`. The model already has this fallback (`FilterPos`); a property on the order in which filters run needs a run of its own.
7. Compose `StartHooks` with `ServerRun` and the template hook of `TemplateCache`, and state what `App.Run` does with the address `Run` parsed. A port that does not parse becomes 0, and `App.Run` then listens on the address with no port.

The project is limited to twelve runs, and they are all in use. The items above that need a run of their own wait until a run can be merged or retired.

## Not modelled

- **Extension and engine registry** (`AddTemplateExt`, `AddTemplateEngine`, `template.go` 153-161, 373-378): a deduplicating append and a map write. The one hazard is in how the registry is read. `visit` accepts a file by suffix, but `BuildTemplate` dispatches on `filepath.Ext`, so an engine registered for `tpl.html` never runs. `TemplateCache` folds the dispatch into the compile outcome, and stating this would need a run of its own.
- **Function table** (`init`, `AddFuncMap`, `template.go` 77-111): map writes. Writing to it, or to the registry, while a DEV rebuild reads it is a Go map race. Spec section 5 makes such a registration a caller error, so no property states it.
- **Static and view path settings** (`SetViewsPath`, `SetStaticPath`, `DelStaticPath`, `template.go` 337-370): url normalisation and a map write. `"//"` normalises to the key `""`. What such a key serves depends on the static file handler, which is not in `src/`.
- **What `App.Run` does with the parsed address:** `StartHooks` models the parsing, but `ServerRun` abstracts addresses away. A bad port becomes 0, and an IPv6 address is split at every colon (item 7).
- **`InsertFilter`** on the application delegates to `ControllerRegister`, which is not in `src/`.
- **Admin UI templates, the cache and mail tests, and the package documentation:** these are strings, tests of code that is not in the repository, and comments.
