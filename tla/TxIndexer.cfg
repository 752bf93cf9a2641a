CONSTANTS
    MaxHeight = 3
    MaxCrashes = 1
    MaxWriteFaults = 1
SPECIFICATION IndexerSpec
INVARIANTS NoLostWakeup NoHoleInIndex
PROPERTY NoticedIsIndexed
