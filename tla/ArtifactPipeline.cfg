SPECIFICATION FairSpec
CONSTANTS
    NumPages = 2
    DocOf <- OneFile
    English = {1, 2}
    Letter = {1}
    Texts = {blank, t1}
    Blank = blank
    NoText = null
    a = a
    b = b
    Processes = {a, b}
    Selected <- Environments
    NumWorkers = 1
    BatchSize = 2
    MaxConsecutive = 1
INVARIANTS
    TypeOK
    OneOutcome
    ChainAgrees
    ShardsCoverWork
PROPERTIES
    ImplementsPageFlow
    StagesEnd
CHECK_DEADLOCK FALSE
