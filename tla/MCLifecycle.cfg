SPECIFICATION LSpec
INVARIANT LifecycleInv
PROPERTY UsersFirst
CHECK_DEADLOCK FALSE
