\* One intent paid twice, a bare transfer and an intent that is not paid; four
\* requests, two at a time, and a fault.
CONSTANTS
    i1 = i1
    i2 = i2
    x1 = x1
    x2 = x2
    d = d
    Intents = {i1, i2}
    Payments = {x1, x2, d}
    IntentOf <- MCIntentOf
    Sessions = {s1, s2}
    MaxCalls = 4
    MaxFaults = 1
    NoIntent = NoIntent
    NoPayment = NoPayment
SPECIFICATION Spec
SYMMETRY Symmetry
INVARIANTS
    TypeOK
    CreditedOnce
    RecordedIsCredited
    BalanceBacked
    BalanceExact
PROPERTIES
    SignatureKept
CHECK_DEADLOCK FALSE
