SPECIFICATION Spec
CONSTANTS
    Width = 4
    Top = 8
    HistorySize = 3
INVARIANTS TypeOK  VerdictExact HistoryIncreasing LossExact
CHECK_DEADLOCK FALSE
