\* One order, one fault, two members: a delivery resumed too late.
CONSTANTS
    Orders = {1}
    Alice = Alice
    Bob = Bob
    Buyers = {Alice}
    BuyerOf <- OneBuyer
    PackSize = 2
    Encrypted = FALSE
    Keyless = {}
    Poller = Poller
    Nudges = {}
    SweepLimit = 1
    Refunders = {}
    MaxRefunds = 0
    MaxFaults = 1
    NoOrder = NoOrder
SPECIFICATION Spec
INVARIANTS
    DeliveredIsWhole
