\* Two operations on one connection over four instants.
SPECIFICATION FairSpec
CONSTANTS
    Budgets <- ShortAndLong
    MetaBudget = 2
    MaxOps = 2
    MaxScopes = 3
    Horizon = 3
INVARIANTS NoOrphanData PromptlyNoticed
PROPERTIES HandedInTime BlameIsRight QuarantineLatched StallNoticed
CHECK_DEADLOCK FALSE
