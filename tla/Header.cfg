SPECIFICATION HeaderSpec
CONSTANTS
    Disbursed = 6
    Dues <- SmallDues
    Payments = {1, 2, 3, 5}
    Order <- NoPrincipal
    MaxRepayments = 4
INVARIANTS
    EveryCentAccounted
    PrincipalConserved
    NoIdleMoney
CHECK_DEADLOCK FALSE
