\* Hooks registered before Run, the test entry called from more than one
\* init, and a hook that registers another: does every hook entry run
\* exactly once before serving or testing begins?
CONSTANTS
    u1 = u1
    u2 = u2
    registerTemplate = registerTemplate
    registerAdmin = registerAdmin
    none = none
    UserHooks <- MCUserHooks
    Builtins <- MCBuiltins
    AddsHook <- MCAddsHook
    NoHook <- none
    Addrs <- MCAddrs
    Split <- MCSplit
    Atoi <- MCAtoi
    DefaultPort = 8080
    MaxHooks = 6
SPECIFICATION Spec
INVARIANT HooksRunOnce
CHECK_DEADLOCK FALSE
