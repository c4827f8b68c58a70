SPECIFICATION FairSpec
CONSTANTS
    figma = figma
    orphan = orphan
    aerzte = aerzte
    Sub <- mc_Sub
    Tracked <- mc_Tracked
    Owned <- mc_Owned
    Acceptable <- mc_Acceptable
    Sweep = {w1, w2}
    Editor = {e1}
    RecurringBatchSize = 2
    MaxDate = 2
    MaxEdits = 1
    MaxFaults = 1
INVARIANTS
    RecurringTypeOK
    EveryChargeFiled
PROPERTY
    DueIsFiled
