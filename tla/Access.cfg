SPECIFICATION FairSpec
CONSTANTS
  Client = {c1, c2}
  Admins <- AdminRows
  Budgets <- BudgetRows
  Whitelists <- WhitelistRows
  Bans <- BanRows
  Life = 2
  Shift = 1
  MaxClock = 3
  MaxChanges = 2
INVARIANTS TypeOK RightsAreRecent
PROPERTIES ClientAnswered
CHECK_DEADLOCK FALSE
