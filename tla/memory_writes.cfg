\* An encrypted and a plain memory, two pollers with batches of two, two
\* pipelines, two owner requests, one fault.
CONSTANTS
    m1 = m1
    m2 = m2
    Memories = {m1, m2}
    Envelopes = {m1}
    Workers = {w1, w2}
    Pipes = {p1, p2}
    Clients = {c1, c2}
    Limit = 2
    Lease = 1
    MaxAttempts = 2
    MaxRequests = 2
    MaxFaults = 1
    NoPipe = NoPipe
SPECIFICATION MCSpec
INVARIANTS
    TypeOK
    AttemptsPaid
    FragmentsReplaced
    DoneIsEmbedded
    NothingLost
    RevokedStaysSealed
PROPERTIES
    OutcomeFinal
    JobsSettle
CHECK_DEADLOCK FALSE
