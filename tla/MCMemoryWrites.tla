--------------------------- MODULE MCMemoryWrites ---------------------------
(***************************************************************************)
(* The instance of MemoryWrites for TLC: m1 has an owner with a key, m2 is *)
(* stored in the open.  Two questions are explored apart: m1 alone, from   *)
(* its store through every request of its owner; and both memories stored  *)
(* and queued, with nobody asking, so that one batch holds two jobs.       *)
(***************************************************************************)
EXTENDS MemoryWrites

CONSTANTS m1, m2

MCStored(m) == [NoMemory EXCEPT !.row = "stored", !.summary = TRUE,
    !.encrypted = m \in Envelopes,
    !.wraps = IF m \in Envelopes THEN {"owner", "provider"} ELSE {}]
MCQueued == [status |-> "pending", retry |-> TRUE, attempts |-> 0]

OneMemory ==
    /\ mem = [m \in Memories |-> NoMemory]
    /\ job = [m \in Memories |-> NoJob]
    /\ store = [m \in Memories |-> IF m = m1 THEN "new" ELSE "stored"]
    /\ requests = 0

TwoJobs ==
    /\ mem = [m \in Memories |-> MCStored(m)]
    /\ job = [m \in Memories |-> MCQueued]
    /\ store = [m \in Memories |-> "stored"]
    /\ requests = MaxRequests

MCInit ==
    /\ OneMemory \/ TwoJobs
    /\ fragments = [m \in Memories |-> 0]
    /\ worker = [w \in Workers |-> IdleWorker]
    /\ pipe = [p \in Pipes |-> [at |-> "idle"]]
    /\ client = [c \in Clients |-> [at |-> "idle"]]
    /\ faults = 0
    /\ losses = [m \in Memories |-> 0]
    /\ cause = [m \in Memories |-> {}]

MCSpec == MCInit /\ [][Next]_vars /\ Fairness
===============================================================================
