SPECIFICATION Spec
CONSTANTS
  t1 = t1
  t2 = t2
  Tabs = {t1, t2}
  Codes = {"1010", "3000", "4150"}
  Typed <- MCTyped
  Opens <- MCOpens
  Start <- MCStart
  Begun <- MCBegun
  MaxAccount = 2
  MaxPosted = 3
  MaxCalls = 2
INVARIANTS JournalsBalance EntriesHaveAccounts PostedTwiceIfTold
CHECK_DEADLOCK FALSE
