\* Two orders for one unit, no fault: a checkout repeated while it runs.
CONSTANTS
    Orders = {a, b}
    Calls = {h1, h2}
    Unlimited = Unlimited
    InitTotal = 1
    Edits = {2}
    MaxAttempts = 2
    Refunders = {r1}
    Expiry = Expiry
    MaxPosts = 3
    MaxRefunds = 0
    MaxEdits = 1
    MaxFaults = 0
    NoOrder = NoOrder
SPECIFICATION Spec
INVARIANTS
    NeverOversold
CHECK_DEADLOCK FALSE
