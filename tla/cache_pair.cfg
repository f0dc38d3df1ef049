SPECIFICATION FairSpec
CONSTANTS
    a1 = a1
    a2 = a2
    k1 = k1
    k2 = k2
    k3 = k3
    Agents <- Pair
    Keys <- ThreeKeys
    Environments <- Overlapping
    MaxEntries = 1
    MaxCrashes = 1
    MaxAdds = 3
INVARIANT HeldInUse
PROPERTIES CopiedWhole KeysKept OpsEnd
