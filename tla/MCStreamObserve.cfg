\* Up to three chunks, any outcome, any caller.
CONSTANT MaxChunks = 3
SPECIFICATION FairSpec
CHECK_DEADLOCK FALSE
INVARIANT NothingLost
PROPERTIES FollowsLifecycle HangsOnlyOnLostWakeup
