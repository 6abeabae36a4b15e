\* Two overlapping sweeps, an order and its re-buy by the same buyer, two
\* refunds, a fault: what no race may break.
CONSTANTS
    Orders = {1, 2}
    Alice = Alice
    Bob = Bob
    Buyers = {Alice}
    BuyerOf <- SameBuyer
    PackSize = 1
    Encrypted = FALSE
    Keyless = {}
    Poller = Poller
    Nudges = {n1}
    SweepLimit = 2
    Refunders = {r1}
    MaxRefunds = 2
    MaxFaults = 1
    NoOrder = NoOrder
SPECIFICATION Spec
INVARIANTS
    NothingBeforeCapture
    RefundTakesCopyBack
PROPERTIES
    StatusFollowsDag
