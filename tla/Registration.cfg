CONSTANTS
    a = a
    b = b
    x = x
    y = y
    People = {a, b}
    Things = {x, y}
    Nobody = Nobody
    MaxRow = 2
SPECIFICATION WizardSpec
SYMMETRY Symmetry
INVARIANTS
    CreatedComplete
    SavedAsReviewed
PROPERTIES
    OwnRowsOnly
CHECK_DEADLOCK FALSE
