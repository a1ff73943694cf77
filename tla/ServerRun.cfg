\* Every combination of the start-up flags; Run may stop for good (after
\* it returns, or waiting on a channel no goroutine will send to), so
\* deadlock is not an error here.
SPECIFICATION Spec
PROPERTY RunReturnsOnFailure
CHECK_DEADLOCK FALSE
