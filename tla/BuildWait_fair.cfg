SPECIFICATION FairSpec
CONSTANTS
  b1 = b1
  b2 = b2
  Build <- TwoBuilds
  Recipes = 2
  RecipeOf <- OneEach
  RetryCount = 2
  MaxListErrors = 1
  MaxRetryErrors = 1
INVARIANTS
  TypeOK
  RetryBudget
  ListedFinished
  FreshAtDeadline
PROPERTIES
  WaitReturns
CHECK_DEADLOCK FALSE
