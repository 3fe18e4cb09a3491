SPECIFICATION FairPlannerSpec
CONSTANTS
  Ids = {1, 2, 3, 4}
  Unknown = 9
INVARIANT OutcomeIsRight
INVARIANT PlanIsForwardOrder
PROPERTY PlannerReturns
CHECK_DEADLOCK FALSE
