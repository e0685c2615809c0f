SPECIFICATION Spec
CONSTANTS
  a = a
  b = b
  t1 = t1
  t2 = t2
  None = None
  Links = {None, a}
  Loans = {a, b}
  Tabs = {t1, t2}
  Slips = {s1}
  Starts <- MCStarts
  Opens <- MCOpens
  MaxOwed = 2
  MaxRepayments = 2
INVARIANTS SlipCreditedOnce SettlementWasAsked
PROPERTIES DisbursedAsApproved
CHECK_DEADLOCK FALSE
