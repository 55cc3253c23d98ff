SPECIFICATION Spec
CONSTANTS
    NumPages = 3
    DocOf <- ThreeFiles
    English = {1, 2, 3}
    Letter = {1, 2, 3}
    Texts = {blank, t1}
    Blank = blank
    NoText = null
    a = a
    b = b
    Processes = {a, b}
    Selected <- Machines
    NumWorkers = 2
    BatchSize = 2
    MaxConsecutive = 1
INVARIANTS
    ShardsCoverWork
CHECK_DEADLOCK FALSE
