SPECIFICATION MCSpec
CONSTANTS
    m1 = m1
    w1 = w1
    w2 = w2
    Members = {m1}
    Workers = {w1, w2}
    MaxLoans = 2
    MaxAmount = 2
    Ops <- AllOps
    NoRow = NoRow
    MaxPayouts = 2
INVARIANTS
    ServicedWasPaidOut
    PaidOutOnce
    RepaidLoanKept
    OneOpenLoanInTurn
    OwedWhileServicedInTurn
PROPERTY ClosedIsFinalInTurn
SYMMETRY Symmetry
CHECK_DEADLOCK FALSE
