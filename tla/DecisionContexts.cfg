SPECIFICATION DecisionSpec
CONSTANTS
    Critical = {"customer_evidence", "arr", "reported_valuation"}
    Minimum = {"arr", "reported_valuation"}
    MaxEdits = 1
INVARIANTS
    SupportedContextsDecide
CHECK_DEADLOCK FALSE
