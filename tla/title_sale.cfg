\* Two orders for one title, four requests among two drivers, a refund and two
\* exports, and one fault, on either rail.
CONSTANTS
    o1 = o1
    o2 = o2
    b1 = b1
    b2 = b2
    Orders = {o1, o2}
    Buyers = {b1, b2}
    Seller = seller
    BuyerOf <- MCBuyerOf
    Drivers = {d1, d2}
    Refunds = {r1}
    Exports = {e1, e2}
    MaxCalls = 4
    MaxFaults = 1
    None = None
SPECIFICATION MCSpec
SYMMETRY Symmetry
INVARIANTS
    TypeOK
    NoDoubleLoss
    HandOver
PROPERTIES
    StepsForward
CHECK_DEADLOCK FALSE
