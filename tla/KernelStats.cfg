SPECIFICATION FairSpec
CONSTANTS
    Uids = {1, 2, 3}
    Policies <- MCPolicies
    Hooks = {h1}
    Limit = 3
    MaxCount = 2
    Keys <- MCKeys
    Capacity = 2
    Hash <- MCHash
    TTL = 1
    MaxTime = 2
    MaxSeen = 2
    MaxDropped = 1
    NoKey = nokey
CONSTRAINT OneConcern
INVARIANTS
    TableIsSortedAndFits
    RowsCountIntercepts
    EntriesAreReachable
    
 
