SPECIFICATION FairSpec
CONSTANTS
    Receipts = {r1}
    Matched = {}
    Workers = {w1, w2}
    Window = 2
    MaxRows = 2
    MaxCredits = 2
    Ops <- EveryOp
    NoReceipt = NoReceipt
INVARIANTS
    CompletedIsCredited
    AcceptedIsListed
    RefusedNotCredited
PROPERTIES
    CompletedIsFinal
    ImplementsReceiptBook
CHECK_DEADLOCK FALSE
