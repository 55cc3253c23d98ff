SPECIFICATION Spec
CONSTANTS
    NumPages = 2
    DocOf <- OneFile
    English = {1, 2}
    Letter = {1, 2}
    Texts = {blank, t1}
    Blank = blank
    NoText = null
    a = a
    b = b
    Processes = {a, b}
    Selected <- Machines
    NumWorkers = 1
    BatchSize = 2
    MaxConsecutive = 1
PROPERTIES
    RecordedFailureIsFinal
CHECK_DEADLOCK FALSE
