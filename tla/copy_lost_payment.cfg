\* One order, one fault: a payment recorded and never acted on.
CONSTANTS
    Orders = {1}
    Alice = Alice
    Bob = Bob
    Buyers = {Alice}
    BuyerOf <- OneBuyer
    PackSize = 1
    Encrypted = FALSE
    Keyless = {}
    Poller = Poller
    Nudges = {}
    SweepLimit = 1
    Refunders = {}
    MaxRefunds = 0
    MaxFaults = 1
    NoOrder = NoOrder
SPECIFICATION StripeFairSpec
PROPERTIES
    RetryAdvances
