SPECIFICATION Spec
CONSTANTS
  m1 = m1
  n1 = n1
  n2 = n2
  i1 = i1
  i2 = i2
  t1 = t1
  t2 = t2
  Members = {m1}
  Months = {1}
  Tabs = {t1, t2}
  Pages <- MCPages
  Loans = {n1, n2}
  Borrower <- MCBorrower
  Installments = {i1, i2}
  Of <- MCOf
  In <- MCIn
  DueInterest = 0
  DuePrincipal = 2
  Estimates <- MCEstimates
  Fee = 1
  Default = 0
  Typed = {0}
  Remitted = {3}
  MaxRows = 2
  MaxBatches = 2
  MaxEvents = 1
INVARIANTS PaidIsRemitted FeeTakenOnce 
SYMMETRY Symmetry
CHECK_DEADLOCK FALSE
