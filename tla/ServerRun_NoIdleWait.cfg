\* Every combination of the start-up flags.
SPECIFICATION Spec
INVARIANT NoIdleWait
CHECK_DEADLOCK FALSE
