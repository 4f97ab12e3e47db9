\* Two retries or no limit, with and without stdio, direct or through a proxy; the
\* cap is below the initial backoff or overshot by the doubling, and without a limit
\* attempt reaches the bound at which it saturates.  Two addresses of one family and one of the other.
CONSTANTS
    RetryLimits = {2, NoLimit}
    NoLimit = NoLimit
    InitialBackoff = 2
    MaxBackoffs = {1, 7}
    U32Max = 4
    Family <- RaceFamilies
SPECIFICATION ConnectFairSpec
INVARIANTS BackoffFollowsStreak RetriesCounted LoopSeesSessionShutdown
PROPERTIES RetriesExhausted KeepsReconnecting AnsweredIsUsed RevokedIsReplaced ImplementsReconnect
