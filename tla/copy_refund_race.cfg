\* One order, one refund, no fault: a refund that lost its update.
CONSTANTS
    Orders = {1}
    Alice = Alice
    Bob = Bob
    Buyers = {Alice}
    BuyerOf <- OneBuyer
    PackSize = 1
    Encrypted = FALSE
    Keyless = {}
    Poller = Poller
    Nudges = {}
    SweepLimit = 1
    Refunders = {r1}
    MaxRefunds = 1
    MaxFaults = 0
    NoOrder = NoOrder
SPECIFICATION Spec
INVARIANTS
    RefundedHasNoAccess
