SPECIFICATION Spec
CONSTANT MaxIntrusions = 3
INVARIANT VerdictLeavesNothing
INVARIANT VerdictIsPristine
INVARIANT MergeErrorIsReported
INVARIANT FailedCallCleansUp
PROPERTY NothingForeignIsRemoved
CHECK_DEADLOCK FALSE
