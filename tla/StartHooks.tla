----------------------------- MODULE StartHooks -----------------------------
(***************************************************************************)
(* The start-up path of izigo.go: AddAPPStartHook, Run and                *)
(* RunWithMiddleWares, initBeforeHTTPRun and the test entry points        *)
(* TestIZIGoInit / InitIZIGoBeforeTest, on the calling goroutine.         *)
(*                                                                        *)
(* A hook is a model value; what a hook does is the environment's: it     *)
(* returns nil or an error, and a hook may itself call AddAPPStartHook    *)
(* (AddsHook). The hooks slice is a sequence; ranAt[i] counts the calls   *)
(* of its i-th entry. `for _, hk := range hooks` evaluates hooks once, so *)
(* the loop runs the entries 1..snapLen, whatever is appended meanwhile.  *)
(* An address is a model value with its strings.Split on ":" (Split) and *)
(* the strconv.Atoi of each part (Atoi, 0 on an error, which is dropped). *)
(***************************************************************************)
EXTENDS Naturals, Sequences, SequencesExt

CONSTANTS
    UserHooks,    \* the application's hook functions
    Builtins,     \* registerMime, ..., registerGzip, in order
    AddsHook,     \* hook -> the hook it registers when run, or NoHook
    NoHook,
    Addrs,        \* addresses passed to Run or RunWithMiddleWares
    Split,        \* address -> its strings.Split(addr, ":")
    Atoi,         \* part -> its strconv.Atoi value (0 on an error)
    DefaultPort,  \* BConfig.Listen.HTTPPort before Run
    MaxHooks      \* bound on the length of the hooks slice

ASSUME NoHook \notin UserHooks
ASSUME \A a \in Addrs : Split[a] # <<>>

\* Run(params...) is called with no parameter or with one address.
NoParam == <<>>

VARIABLES
    hooks,     \* the hooks slice
    ranAt,     \* entry -> how many times the loop has called it
    pc,        \* where the main goroutine is
    caller,    \* who called initBeforeHTTPRun: "run", "mw" or "test"
    arg,       \* the params of Run, or the addr of RunWithMiddleWares
    idx,       \* the loop's index
    snapLen,   \* len(hooks) when the range began
    runMode,   \* BConfig.RunMode
    listen     \* BConfig.Listen: [addr, port, domains]

vars == <<hooks, ranAt, pc, caller, arg, idx, snapLen, runMode, listen>>

Init ==
    /\ hooks = <<>>
    /\ ranAt = <<>>
    /\ pc = "setup"
    /\ caller = "none"
    /\ arg = NoParam
    /\ idx = 0
    /\ snapLen = 0
    /\ runMode = "dev"
    /\ listen = [addr |-> "", port |-> DefaultPort, domains |-> <<>>]

-----------------------------------------------------------------------------

\* AddAPPStartHook(hf...) (lines 44-46): append to hooks.
AddAPPStartHook(h) ==
    /\ pc = "setup"
    /\ Len(hooks) < MaxHooks
    /\ hooks' = Append(hooks, h)
    /\ ranAt' = Append(ranAt, 0)
    /\ UNCHANGED <<pc, caller, arg, idx, snapLen, runMode, listen>>

\* initBeforeHTTPRun (lines 89-104), its first half: the built-in hooks
\* are appended, and the range begins over the slice as it now is.
InitBeforeHTTPRun(who, a) ==
    /\ Len(hooks) + Len(Builtins) <= MaxHooks
    /\ hooks' = hooks \o Builtins
    /\ ranAt' = ranAt \o [i \in 1..Len(Builtins) |-> 0]
    /\ snapLen' = Len(hooks) + Len(Builtins)
    /\ idx' = 1
    /\ caller' = who
    /\ arg' = a
    /\ pc' = "hooks"

\* Run(params...) (lines 53-70) and RunWithMiddleWares(addr, mws...)
\* (lines 73-87) start with initBeforeHTTPRun.
Run(p) ==
    /\ pc = "setup"
    /\ InitBeforeHTTPRun("run", p)
    /\ UNCHANGED <<runMode, listen>>

RunWithMiddleWares(a) ==
    /\ pc = "setup"
    /\ InitBeforeHTTPRun("mw", <<a>>)
    /\ UNCHANGED <<runMode, listen>>

\* TestIZIGoInit(ap) (lines 107-111) and InitIZIGoBeforeTest (lines
\* 114-120): LoadAppConfig panics on an error; else RunMode is "test" and
\* initBeforeHTTPRun runs. A package's test files each call it from init.
LoadConfigFails ==
    /\ pc \in {"setup", "tested"}
    /\ pc' = "panicked"
    /\ UNCHANGED <<hooks, ranAt, caller, arg, idx, snapLen, runMode, listen>>

InitIZIGoBeforeTest ==
    /\ pc \in {"setup", "tested"}
    /\ runMode' = "test"
    /\ InitBeforeHTTPRun("test", NoParam)
    /\ UNCHANGED listen

\* One iteration of the range (lines 98-102): hk() runs and may append
\* to hooks; an error panics.
RunHook ==
    LET h == hooks[idx]
        added == IF AddsHook[h] = NoHook THEN <<>> ELSE <<AddsHook[h]>>
    IN
    /\ pc = "hooks" /\ idx <= snapLen
    /\ Len(hooks) + Len(added) <= MaxHooks
    /\ hooks' = hooks \o added
    /\ ranAt' = [i \in 1..Len(hooks') |->
                   IF i = idx THEN ranAt[i] + 1 ELSE IF i <= Len(ranAt) THEN ranAt[i] ELSE 0]
    /\ \/ idx' = idx + 1 /\ UNCHANGED pc
       \/ pc' = "panicked" /\ UNCHANGED idx
    /\ UNCHANGED <<caller, arg, snapLen, runMode, listen>>

\* Run's parameter (lines 57-67): split on ":", a non-empty first part is
\* the address, a non-empty second part the port (Atoi's error dropped),
\* and params become the domains.
ParseRun(p) ==
    IF p = NoParam \/ p[1] = "" THEN listen
    ELSE LET s == Split[p[1]] IN
         [addr |-> IF s[1] # "" THEN s[1] ELSE listen.addr,
          port |-> IF Len(s) > 1 /\ s[2] # "" THEN Atoi[s[2]] ELSE listen.port,
          domains |-> p]

\* RunWithMiddleWares's address (lines 76-83): the domains become the
\* address alone.
ParseMW(a) ==
    LET s == Split[a] IN
    [addr |-> IF s[1] # "" THEN s[1] ELSE listen.addr,
     port |-> IF Len(s) > 1 /\ s[2] # "" THEN Atoi[s[2]] ELSE listen.port,
     domains |-> IF s[1] # "" THEN <<s[1]>> ELSE listen.domains]

\* The loop is over: the test entry returns; Run and RunWithMiddleWares
\* parse their address and call IZIApp.Run (ServerRun).
HooksDone ==
    /\ pc = "hooks" /\ idx > snapLen
    /\ pc' = IF caller = "test" THEN "tested" ELSE "serving"
    /\ listen' = CASE caller = "run" -> ParseRun(arg)
                   [] caller = "mw"  -> ParseMW(arg[1])
                   [] OTHER          -> listen
    /\ UNCHANGED <<hooks, ranAt, caller, arg, idx, snapLen, runMode>>

Next ==
    \/ \E h \in UserHooks : AddAPPStartHook(h)
    \/ Run(NoParam) \/ \E a \in Addrs : Run(<<a>>)
    \/ \E a \in Addrs : RunWithMiddleWares(a)
    \/ LoadConfigFails \/ InitIZIGoBeforeTest
    \/ RunHook
    \/ HooksDone

Spec == Init /\ [][Next]_vars

-----------------------------------------------------------------------------
(* Properties.                                                            *)

\* AddAPPStartHook: "The hookfuncs will run in izigo.Run()". When the
\* application starts serving, or a test package's initialisation is
\* over, every entry of hooks has been run exactly once: none was skipped
\* and none ran again.
HooksRunOnce ==
    pc \in {"serving", "tested"} => \A i \in DOMAIN hooks : ranAt[i] = 1
=============================================================================
