SPECIFICATION FairSpec
CONSTANTS
    Items = {policy, vpns}
    Readers = {r1, r2}
    Publishers = {p1, p2}
    MaxChanges = 1
PROPERTY EventuallyCurrent
