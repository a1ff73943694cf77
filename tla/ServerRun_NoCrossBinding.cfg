\* Every combination of the start-up flags.
SPECIFICATION Spec
INVARIANT NoCrossBinding
CHECK_DEADLOCK FALSE
