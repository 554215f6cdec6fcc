CONSTANTS
    Targets = {t1, t2}
    MaxChanges = 2
    MaxPending = 1
    Nil = Nil
SYMMETRY TargetSymmetry
SPECIFICATION EntrySpec
INVARIANTS
    IssuesAreJustified
    IssueIsRight
    RunsItsTarget
CHECK_DEADLOCK FALSE
