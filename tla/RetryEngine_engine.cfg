CONSTANTS
    MinAttempts = 3
    MaxAttempts = 5
    RetryBase = 1
    MaxRetryBackoff = 4
    Grace = 3
    ReapplyBase = 2
    MaxReapplyBackoff = 4
    RetryOverflowAt = 31
    ReapplyOverflowAt = 28
    Faults <- MCAllFaults
    None = None
    MaxFailures = 6
    MaxReapplies = 5
    MaxCalls = 1
SPECIFICATION FairSpec
PROPERTIES KeepsRetryContract ReapplySpacing RetrySpacing 
