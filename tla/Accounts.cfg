SPECIFICATION TurnSpec
CONSTANTS
  a = a
  b = b
  t1 = t1
  t2 = t2
  Pool = Pool
  Members = {a, b}
  Tabs = {t1, t2}
  Serving = 2
  Typed <- MCTyped
  MaxAmount = 1
  MaxRow = 2
  MaxWrites = 3
SYMMETRY Symmetry
VIEW NoJournals
CONSTRAINT InTurn
INVARIANTS StandingIsOut
PROPERTIES CoveredInTurn
CHECK_DEADLOCK FALSE
