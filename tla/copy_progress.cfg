\* The poller and a nudge, an order that cannot be delivered in front of one
\* that can, a crash, a refund: progress, and the abstract sale.
CONSTANTS
    Orders = {1, 2}
    Alice = Alice
    Bob = Bob
    Buyers = {Alice, Bob}
    BuyerOf <- BobThenAlice
    PackSize = 1
    Encrypted = TRUE
    Keyless = {Bob}
    Poller = Poller
    Nudges = {n1}
    SweepLimit = 2
    Refunders = {r1}
    MaxRefunds = 1
    MaxFaults = 1
    NoOrder = NoOrder
SPECIFICATION FairSpec
PROPERTIES
    PaidIsServed
    SaleIsKept
