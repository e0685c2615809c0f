SPECIFICATION Spec
CONSTANTS
  a = a
  b = b
  c = c
  t1 = t1
  t2 = t2
  NoOne = NoOne
  Tabs = {t1, t2}
  Pages <- MCPages
  Members = {a}
  Codes = {c}
  Seeds <- MCSeeds
  Typed <- MCTyped
  Periods = {2}
  Usual = 2
  MaxRequests = 3
INVARIANTS TermsOfOneProduct OneVersionOnOffer LabelIsTrue
CHECK_DEADLOCK FALSE
