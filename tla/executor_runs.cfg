\* Two tasks, the first of an agent that starts offline, two overlapping poll
\* cycles, one request of the owner, one crash, throw or lost call.
CONSTANTS
    t1 = t1
    t2 = t2
    a1 = a1
    a2 = a2
    Tasks = {t1, t2}
    Agents = {a1, a2}
    AgentOf <- MCAgentOf
    Rank <- MCRank
    InitOnline = {a2}
    KnownType = {a1, a2}
    MaxConcurrent = 1
    Lookahead = 1
    Polls = {p1, p2}
    Hands = {h1}
    Runs = {r1, r2}
    Beats = {b1}
    BeatStatus = {"online"}
    Costs = {26060}
    Edits = {"pending", "deleted"}
    MaxTouches = 1
    MaxFaults = 1
    NoTask = NoTask
SPECIFICATION Spec
INVARIANTS
    TypeOK
    OneLoopPerTask
    SlotsBounded
    StuckHasCause
    
PROPERTIES
    OutcomeStands
    EligibleIsClaimed
    RunsSettle
CHECK_DEADLOCK FALSE
