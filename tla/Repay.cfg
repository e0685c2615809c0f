SPECIFICATION TurnSpec
CONSTANTS
    w1 = w1
    w2 = w2
    Workers = {w1, w2}
    Principal = 61
    LastPeriod = 3
    RateNum = 24
    RateDen = 10
    PerYear = 12
    Order <- DefaultOrder
    Payments = {7, 31, 33}
    MaxRepayments = 5
    Interests <- DueInterest
    NoRow = NoRow
INVARIANTS
    NothingForgiven
    PrincipalInTurn
    InterestInTurn
    ScheduleInTurn
    InterestAtLoanRate
PROPERTY HeaderStepsInTurn
CONSTRAINT ShortOverlap
SYMMETRY Symmetry
CHECK_DEADLOCK FALSE
