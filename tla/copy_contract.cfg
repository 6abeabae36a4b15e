\* The poller and a nudge, an encrypted pack of two, two refunds side by side,
\* two faults: the copy contract.
CONSTANTS
    Orders = {1}
    Alice = Alice
    Bob = Bob
    Buyers = {Alice}
    BuyerOf <- OneBuyer
    PackSize = 2
    Encrypted = TRUE
    Keyless = {}
    Poller = Poller
    Nudges = {n1}
    SweepLimit = 2
    Refunders = {r1, r2}
    MaxRefunds = 2
    MaxFaults = 2
    NoOrder = NoOrder
SPECIFICATION Spec
SYMMETRY Symmetry
INVARIANTS
    TypeOK
    WholeCopyDelivered
    UnitReturnedOnce
