CONSTANTS
  Tasks = {t1, t2}
  MaxAttempts = 1
  MaxDesired = 2
  UseCelery = FALSE
SPECIFICATION Spec
CHECK_DEADLOCK FALSE
PROPERTY PublishesDesired
