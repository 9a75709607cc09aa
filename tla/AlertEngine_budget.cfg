CONSTANTS
  MaxRules = 5
  Sync = sync
  Call = {c1}
  None = None
  Defaults <- MCDefaults
  Fact <- MCFact
  Budget <- MCBudget
  UserRule <- MCUserRule
  Today = 2
  Month = {1, 2}
  MaxClock = 1
  MaxChanges = 2
SPECIFICATION AlertSpec

PROPERTY BudgetCountsOnce
