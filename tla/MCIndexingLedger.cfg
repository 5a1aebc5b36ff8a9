SPECIFICATION Spec
CONSTANTS
    f1 = f1
    r1 = r1
    r2 = r2
    Files = {}
    Issues = {1}
    Runs = {r1, r2}
    PageSize = 50
    Sharings = {"shared"}
    MaxTime = 2
    MaxVersion = 1
    MaxFileVersion = 1
INVARIANT LedgerHoldsStored
SYMMETRY RunSymmetry
CHECK_DEADLOCK FALSE
