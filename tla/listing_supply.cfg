\* Two orders for one or two units, two requests and two refunds in flight,
\* expiry, deliveries, a seller at work and a fault.
CONSTANTS
    Orders = {a, b}
    Calls = {h1, h2}
    Unlimited = Unlimited
    InitTotal = 1
    Edits = {2}
    MaxAttempts = 2
    Refunders = {r1, r2}
    Expiry = Expiry
    MaxPosts = 2
    MaxRefunds = 2
    MaxEdits = 2
    MaxFaults = 1
    NoOrder = NoOrder
SPECIFICATION Spec
SYMMETRY Symmetry
INVARIANTS
    TypeOK
    SoldIsConserved
    SoldWithinPeak
    BuyableIffUnitsLeft
    LiveFitsSupply
    ExpiredUnitsReturn
CHECK_DEADLOCK FALSE
