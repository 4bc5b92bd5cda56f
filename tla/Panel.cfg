SPECIFICATION Spec
CONSTANTS
    c1 = c1
    c2 = c2
    Callers = {c1, c2}
    EventOf <- MCEventOf
    Statuses = {"on_sale"}
    MaxQuantity = 1
    Moments = {0, 4}
    None = None
SYMMETRY Visitors
INVARIANTS PanelFromOwnEvent
CHECK_DEADLOCK FALSE
