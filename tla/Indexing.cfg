CONSTANTS
  Tasks = {t1, t2, t3}
  MaxAttempts = 2
  MaxDesired = 2
  UseCelery = TRUE
SYMMETRY Symmetry
SPECIFICATION Spec
CHECK_DEADLOCK FALSE
INVARIANTS TypeOK OnlyCompleteIsCurrent CompletedRunsEnd
PROPERTIES StaysSearchable ImplementsIndex
