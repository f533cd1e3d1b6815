SPECIFICATION Spec
CONSTANTS
    l1 = l1
    l2 = l2
    r1 = r1
    r2 = r2
    Leads <- TwoLeads
    Slots <- TwoSlots
    NumSales = 3
    MaxRequests = 3
    MaxChanges = 2
INVARIANTS RoundRobinIsEven AssignedHasTask
SYMMETRY Symmetry
CHECK_DEADLOCK FALSE
