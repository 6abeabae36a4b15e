-------------------------- MODULE TaskExecutorProofs --------------------------
(***************************************************************************)
(* What TLAPS proves of TaskExecutor, for any tasks, agents, poll cycles,  *)
(* requests and executions: its types, that a task nobody touches is run   *)
(* once and keeps its outcome, that overlapping cycles exceed the slots by *)
(* a bounded number, that a stuck task has a cause, and that the budget    *)
(* agrees with the activity log.                                           *)
(***************************************************************************)
EXTENDS TaskExecutor, FiniteSetTheorems, TLAPS

RunRecord  == [pc : RunPc, task : Tasks \cup {NoTask}, proc : Processes,
               cost : Nat, read : Nat]
WriteBeat  == [pc : {"write"}, agent : Agents, to : BeatStatus, cost : Nat, read : Nat]
BeatRecord == [pc : {"idle"}] \cup WriteBeat
PollRecord == [pc : {"idle", "scan", "claim", "launch"}, page : SUBSET Tasks,
               task : Tasks \cup {NoTask}]
HandRecord == [pc : {"idle", "read", "claim", "launch"}, task : Tasks \cup {NoTask}]

(* The steps of one execution, and those that concern heartbeats only.     *)
RunStep(r) == \/ Settle(r) \/ OrphanEnds(r) \/ SetupThrows(r) \/ OutcomeLost(r)
              \/ ChargeLost(r)
BeatStep == \/ \E b \in Beats : BeatWrite(b) \/ BeatLost(b)
            \/ \E a \in Agents, s \in BeatStatus, c \in Costs :
                  BeatUncharged(a, s, c) \/ \E b \in Beats : BeatRead(b, a, s, c)

(* Who is at work on task t, and who has still to write its outcome.       *)
Launching(p, t) == poll[p].pc = "launch" /\ poll[p].task = t
Asked(h, t)     == hand[h].pc = "launch" /\ hand[h].task = t
RunOf(r, t)     == run[r].task = t
Settling(r, t)  == run[r].pc \in {"loop", "complete", "fail", "timed_out"} /\ RunOf(r, t)

(* A handler holds a task exactly while it is at work on one; a request    *)
(* only holds tasks the owner asked to run.                                *)
Shape ==
    /\ \A r \in Runs : IF run[r].pc = "free" THEN run[r] = FreeRun
                                             ELSE run[r].task \in Tasks
    /\ \A p \in Polls : IF poll[p].pc \in {"claim", "launch"}
                        THEN poll[p].task \in Tasks ELSE poll[p].task = NoTask
    /\ \A h \in Hands : hand[h].pc # "idle" => hand[h].task \in byHand

(* A task the owner leaves alone is launched by the cycle that claimed it, *)
(* once, and is in_progress until that execution has settled it.           *)
ClaimOf(t) ==
    /\ \A p \in Polls : Launching(p, t) => status[t] = "in_progress"
    /\ \A r \in Runs : /\ RunOf(r, t) => status[t] \notin {"absent", "pending"}
                       /\ Settling(r, t) => status[t] = "in_progress"
    /\ \A p, q \in Polls : Launching(p, t) /\ Launching(q, t) => p = q
    /\ \A r, s \in Runs : RunOf(r, t) /\ RunOf(s, t) => r = s
    /\ \A p \in Polls, r \in Runs : ~(Launching(p, t) /\ RunOf(r, t))

ClaimInv == \A t \in Tasks : Untouched(t) => ClaimOf(t)

(* A task in_progress has somebody who has still to write its outcome.     *)
Attended(t) ==
    \/ t \in cut
    \/ \E p \in Polls : Launching(p, t)
    \/ \E h \in Hands : Asked(h, t)
    \/ \E r \in Runs : Settling(r, t)

StuckInv == \A t \in Tasks \ edited : status[t] = "in_progress" => Attended(t)

SlotsInv == IsFiniteSet(running["worker"]) /\ SlotsBounded

(* One charge of agent a at most is between read and write, on the budget  *)
(* as it is; its row is ahead of it when it is an execution.               *)
Within(x, n) == -n <= x /\ x <= n
OneCharge(a) ==
    /\ \A r, s \in Runs : Charging(r, a) /\ Charging(s, a) => r = s
    /\ \A b, c \in Beats : Adding(b, a) /\ Adding(c, a) => b = c
    /\ \A r \in Runs, b \in Beats : ~(Charging(r, a) /\ Adding(b, a))
    /\ \A r \in Runs : Charging(r, a) => run[r].read = used[a]
    /\ \A b \in Beats : Adding(b, a) => beat[b].read = used[a]
Balanced(a) ==
    /\ \A r \in Runs : Charging(r, a) =>
          Within(used[a] + run[r].cost - billed[a], 5050 * charges[a] - 5000)
    /\ (\A r \in Runs : ~Charging(r, a)) =>
          Within(used[a] - billed[a], 5050 * charges[a])

BudgetOf(a) == OneCharge(a) /\ (agent[a] # "gone" => Balanced(a))

BudgetInv == \A a \in Agents \ skewed : BudgetOf(a)

(***************************************************************************)
(* Types.                                                                  *)
(***************************************************************************)
DbTypes == /\ status \in [Tasks -> TaskStatus]
           /\ agent \in [Agents -> AgentStatus]
           /\ used \in [Agents -> Nat] /\ billed \in [Agents -> Nat]
           /\ running \in [Processes -> SUBSET Tasks]

PastTypes == /\ touches \in 0..MaxTouches /\ faults \in 0..MaxFaults
             /\ edited \subseteq Tasks /\ byHand \subseteq Tasks /\ cut \subseteq Tasks
             /\ charges \in [Agents -> Nat] /\ skewed \subseteq Agents

Types == /\ DbTypes /\ PastTypes
         /\ poll \in [Polls -> PollRecord]
         /\ hand \in [Hands -> HandRecord]
         /\ run \in [Runs -> RunRecord]
         /\ beat \in [Beats -> BeatRecord]
         /\ Shape

LEMMA TypesAreTypes == Types => TypeOK
BY DEF Types, DbTypes, PastTypes, TypeOK, PollRecord, HandRecord, RunRecord, BeatRecord,
       WriteBeat

LEMMA TypesInit == Init => Types
BY ExecutorAssumption
DEF Init, Types, DbTypes, PastTypes, TaskStatus, AgentStatus, Processes, Shape,
    PollRecord, HandRecord, RunRecord, BeatRecord, RunPc, IdlePoll, IdleHand, FreeRun

LEMMA Bounds ==
    ASSUME PastTypes
    PROVE  /\ Touch => touches' \in 0..MaxTouches
           /\ Fault => faults' \in 0..MaxFaults
BY ExecutorAssumption DEF PastTypes, Touch, Fault

LEMMA RoundingTypes ==
    /\ \A x \in Nat : ToBudget(x) \in Nat /\ Within(ToBudget(x) - x, 5000)
    /\ \A c \in Costs : c \in Nat /\ ToCost(c) \in Nat /\ Within(ToCost(c) - c, 50)
<1>1. ASSUME NEW x \in Nat PROVE ToBudget(x) \in Nat /\ Within(ToBudget(x) - x, 5000)
  BY DEF ToBudget, Within
<1>2. ASSUME NEW x \in Nat PROVE ToCost(x) \in Nat /\ Within(ToCost(x) - x, 50)
  BY DEF ToCost, Within
<1> QED
  BY <1>1, <1>2, ExecutorAssumption

LEMMA PollTypes ==
    ASSUME Types, NEW p \in Polls,
           \/ StartPoll(p) \/ ScanRow(p) \/ ClaimTask(p)
           \/ \E r \in Runs : LaunchClaimed(p, r)
    PROVE  Types'
<1> USE DEF db, hist, budget
<1>1. CASE StartPoll(p)
  <2>1. poll' \in [Polls -> PollRecord]
    BY <1>1 DEF StartPoll, FirstRows, Claimable, Types, PollRecord
  <2>2. Shape'
    BY <1>1 DEF StartPoll, Types, Shape, PollRecord
  <2> QED
    BY <1>1, <2>1, <2>2 DEF StartPoll, Types, DbTypes, PastTypes
<1>2. CASE ScanRow(p)
  <2> DEFINE Scanned(x) == /\ x \in PollRecord /\ poll' = [poll EXCEPT ![p] = x]
                           /\ IF x.pc \in {"claim", "launch"} THEN x.task \in Tasks
                                                              ELSE x.task = NoTask
  <2>1. poll[p] \in PollRecord /\ poll[p].pc = "scan" /\ poll[p].task = NoTask
    BY <1>2 DEF ScanRow, Types, Shape
  <2>2. ASSUME NEW t \in poll[p].page,
               poll' = [poll EXCEPT ![p] = IF t \notin running["worker"] /\ CanRun(t)
                           THEN [pc |-> "claim", page |-> @.page \ {t}, task |-> t]
                           ELSE [@ EXCEPT !.page = poll[p].page \ {t}]]
        PROVE  \E x : Scanned(x)
    <3>1. t \in Tasks
      BY <2>1 DEF PollRecord
    <3>2. CASE t \notin running["worker"] /\ CanRun(t)
      <4>1. Scanned([pc |-> "claim", page |-> poll[p].page \ {t}, task |-> t])
        BY <2>1, <2>2, <3>1, <3>2 DEF PollRecord
      <4> QED
        BY <4>1
    <3>3. CASE ~(t \notin running["worker"] /\ CanRun(t))
      <4>1. poll' = [poll EXCEPT ![p] = [@ EXCEPT !.page = poll[p].page \ {t}]]
        BY <2>2, <3>3
      <4>2. Scanned([poll[p] EXCEPT !.page = poll[p].page \ {t}])
        BY <2>1, <4>1 DEF PollRecord
      <4> QED
        BY <4>2
    <3> QED
      BY <3>2, <3>3
  <2>3. ASSUME poll' = [poll EXCEPT ![p] = IdlePoll] PROVE Scanned(IdlePoll)
    BY <2>3 DEF PollRecord, IdlePoll
  <2>4. PICK x : Scanned(x)
    BY <1>2, <2>2, <2>3 DEF ScanRow
  <2>5. poll' \in [Polls -> PollRecord]
    BY <2>4 DEF Types
  <2>6. Shape'
    BY <1>2, <2>4 DEF ScanRow, Types, Shape
  <2> QED
    BY <1>2, <2>5, <2>6 DEF ScanRow, Types, DbTypes, PastTypes
<1>3. CASE ClaimTask(p)
  <2>1. poll' \in [Polls -> PollRecord]
    BY <1>3 DEF ClaimTask, Types, PollRecord
  <2>2. Shape'
    BY <1>3 DEF ClaimTask, Types, Shape, PollRecord
  <2>3. status' \in [Tasks -> TaskStatus]
    BY <1>3 DEF ClaimTask, Types, DbTypes, TaskStatus
  <2> QED
    BY <1>3, <2>1, <2>2, <2>3 DEF ClaimTask, Types, DbTypes, PastTypes
<1>4. ASSUME NEW r \in Runs, LaunchClaimed(p, r) PROVE Types'
  <2>1. poll[p].task \in Tasks
    BY <1>4 DEF LaunchClaimed, Types, Shape
  <2>2. poll' \in [Polls -> PollRecord]
    <3>1. poll' = [poll EXCEPT ![p].pc = "scan", ![p].task = NoTask]
      BY <1>4 DEF LaunchClaimed
    <3> QED
      BY <3>1 DEF Types, PollRecord
  <2>3. run' \in [Runs -> RunRecord]
    BY <1>4, <2>1 DEF LaunchClaimed, Launch, Types, RunRecord, RunPc, FreeRun, Processes
  <2>4. Shape'
    BY <1>4, <2>1 DEF LaunchClaimed, Launch, Types, Shape, RunRecord, PollRecord, FreeRun
  <2>5. running' \in [Processes -> SUBSET Tasks]
    BY <1>4, <2>1 DEF LaunchClaimed, Launch, Types, DbTypes
  <2> QED
    BY <1>4, <2>2, <2>3, <2>4, <2>5 DEF LaunchClaimed, Types, DbTypes, PastTypes
<1> QED
  BY <1>1, <1>2, <1>3, <1>4

LEMMA RunTypes ==
    ASSUME Types, NEW r \in Runs, RunStep(r)
    PROVE  Types'
<1> USE DEF db, hist, budget
<1>1. run[r].task \in Tasks
  BY DEF RunStep, Settle, LoopEnds, MarkCompleted, LogAndReadBudget, ChargeBudget, MarkFailed,
         OrphanEnds, SetupThrows, OutcomeLost, ChargeLost, Types, Shape, FreeRun
<1>2. ASSUME NEW pc \in RunPc \ {"free"}, run' = [run EXCEPT ![r].pc = pc]
      PROVE  run' \in [Runs -> RunRecord] /\ \A s \in Runs :
                IF run'[s].pc = "free" THEN run'[s] = FreeRun ELSE run'[s].task \in Tasks
  BY <1>1, <1>2 DEF Types, Shape, RunRecord
<1>3. ASSUME run' = [run EXCEPT ![r] = FreeRun]
      PROVE  run' \in [Runs -> RunRecord] /\ \A s \in Runs :
                IF run'[s].pc = "free" THEN run'[s] = FreeRun ELSE run'[s].task \in Tasks
  BY <1>3 DEF Types, Shape, RunRecord, FreeRun, RunPc, Processes
<1>4. ASSUME run' = [run EXCEPT ![r] = Failed(@)]
      PROVE  run' \in [Runs -> RunRecord] /\ \A s \in Runs :
                IF run'[s].pc = "free" THEN run'[s] = FreeRun ELSE run'[s].task \in Tasks
  <2>1. CASE run[r].pc = "timed_out"
    <3>1. run' = [run EXCEPT ![r].pc = "orphan"]
      BY <1>4, <2>1 DEF Failed
    <3> QED
      BY <1>2, <3>1 DEF RunPc
  <2>2. CASE run[r].pc # "timed_out"
    BY <1>3, <1>4, <2>2 DEF Failed
  <2> QED
    BY <2>1, <2>2
<1>5. ASSUME run' \in [Runs -> RunRecord] /\ \A s \in Runs :
                IF run'[s].pc = "free" THEN run'[s] = FreeRun ELSE run'[s].task \in Tasks,
             UNCHANGED <<poll, hand, beat, byHand>>, DbTypes', PastTypes'
      PROVE  Types'
  BY <1>5 DEF Types, Shape
<1>6. CASE LoopEnds(r) \/ OrphanEnds(r)
  BY <1>2, <1>3, <1>5, <1>6 DEF LoopEnds, OrphanEnds, RunPc, Types, DbTypes, PastTypes
<1>7. CASE MarkCompleted(r)
  <2>1. status' \in [Tasks -> TaskStatus]
    BY <1>1, <1>7 DEF MarkCompleted, Outcome, Types, DbTypes, TaskStatus
  <2> QED
    BY <1>2, <1>5, <1>7, <2>1 DEF MarkCompleted, RunPc, Types, DbTypes, PastTypes
<1>8. ASSUME NEW c \in Costs,
             run' = [run EXCEPT ![r].pc = "charge", ![r].cost = c,
                                ![r].read = used[AgentOf[run[r].task]]]
      PROVE  run' \in [Runs -> RunRecord] /\ \A s \in Runs :
                IF run'[s].pc = "free" THEN run'[s] = FreeRun ELSE run'[s].task \in Tasks
  <2>1. used[AgentOf[run[r].task]] \in Nat /\ c \in Nat
    BY <1>1, ExecutorAssumption DEF Types, DbTypes
  <2> QED
    BY <1>1, <1>8, <2>1 DEF Types, Shape, RunRecord, RunPc
<1>9. CASE LogAndReadBudget(r)
  <2>1. AgentOf[run[r].task] \in Agents
    BY <1>1, ExecutorAssumption
  <2>2. CASE agent[AgentOf[run[r].task]] = "gone"
    <3>1. DbTypes' /\ PastTypes'
      BY <1>9, <2>2 DEF LogAndReadBudget, Untrack, Types, DbTypes, PastTypes
    <3> QED
      BY <1>3, <1>5, <1>9, <2>2, <3>1 DEF LogAndReadBudget
  <2>3. CASE agent[AgentOf[run[r].task]] # "gone"
    <3>1. PICK c \in Costs :
             /\ billed' = [billed EXCEPT ![AgentOf[run[r].task]] = @ + ToCost(c)]
             /\ run' = [run EXCEPT ![r].pc = "charge", ![r].cost = c,
                                   ![r].read = used[AgentOf[run[r].task]]]
      BY <1>9, <2>3 DEF LogAndReadBudget
    <3>2. billed[AgentOf[run[r].task]] + ToCost(c) \in Nat
      BY <2>1, RoundingTypes DEF Types, DbTypes
    <3>3. DbTypes'
      BY <1>9, <2>1, <2>3, <3>1, <3>2 DEF LogAndReadBudget, Types, DbTypes
    <3>4. PastTypes'
      <4>1. charges[AgentOf[run[r].task]] + 1 \in Nat
        BY <2>1 DEF Types, PastTypes
      <4>2. charges' \in [Agents -> Nat]
        BY <1>9, <2>1, <2>3, <4>1 DEF LogAndReadBudget, Types, PastTypes
      <4>3. skewed' \subseteq Agents
        BY <1>9, <2>1, <2>3 DEF LogAndReadBudget, ReadBeside, Types, PastTypes
      <4> QED
        BY <1>9, <2>3, <4>2, <4>3 DEF LogAndReadBudget, Types, PastTypes
    <3> QED
      BY <1>5, <1>8, <1>9, <3>1, <3>3, <3>4 DEF LogAndReadBudget
  <2> QED
    BY <2>2, <2>3
<1>12. CASE ChargeBudget(r)
  <2>1. run[r].read + run[r].cost \in Nat /\ AgentOf[run[r].task] \in Agents
    BY <1>1, ExecutorAssumption DEF Types, RunRecord
  <2>2. used' \in [Agents -> Nat]
    BY <1>12, <2>1, RoundingTypes DEF ChargeBudget, Types, DbTypes
  <2>3. running' \in [Processes -> SUBSET Tasks]
    BY <1>12 DEF ChargeBudget, Untrack, Types, DbTypes
  <2>4. DbTypes' /\ PastTypes'
    BY <1>12, <2>2, <2>3 DEF ChargeBudget, Types, DbTypes, PastTypes
  <2> QED
    BY <1>3, <1>5, <1>12, <2>4 DEF ChargeBudget
<1>13. CASE SetupThrows(r)
  <2>1. DbTypes' /\ PastTypes'
    BY <1>1, <1>13, Bounds DEF SetupThrows, Untrack, Types, DbTypes, PastTypes
  <2> QED
    BY <1>3, <1>5, <1>13, <2>1 DEF SetupThrows
<1>14. CASE ChargeLost(r)
  <2>1. AgentOf[run[r].task] \in Agents
    BY <1>1, ExecutorAssumption
  <2>2. PastTypes'
    BY <1>14, <2>1, Bounds DEF ChargeLost, Types, PastTypes
  <2>3. running' \in [Processes -> SUBSET Tasks]
    BY <1>14 DEF ChargeLost, Untrack, Types, DbTypes
  <2>4. \A c \in Costs : billed[AgentOf[run[r].task]] + ToCost(c) \in Nat
    BY <2>1, RoundingTypes DEF Types, DbTypes
  <2>5. billed' \in [Agents -> Nat]
    BY <1>14, <2>1, <2>4 DEF ChargeLost, Types, DbTypes
  <2>6. DbTypes'
    BY <1>14, <2>3, <2>5 DEF ChargeLost, Types, DbTypes
  <2> QED
    BY <1>3, <1>5, <1>8, <1>14, <2>2, <2>6 DEF ChargeLost
<1>10. CASE MarkFailed(r)
  <2>1. DbTypes' /\ PastTypes'
    BY <1>1, <1>10 DEF MarkFailed, Outcome, Untrack, Types, DbTypes, TaskStatus, PastTypes
  <2> QED
    BY <1>4, <1>5, <1>10, <2>1 DEF MarkFailed
<1>11. CASE OutcomeLost(r)
  <2>1. DbTypes' /\ PastTypes'
    BY <1>1, <1>11, Bounds DEF OutcomeLost, Untrack, Types, DbTypes, PastTypes
  <2> QED
    BY <1>2, <1>4, <1>5, <1>11, <2>1 DEF OutcomeLost, RunPc
<1> QED
  BY <1>6, <1>7, <1>9, <1>10, <1>11, <1>12, <1>13, <1>14 DEF RunStep, Settle

LEMMA HandTypes ==
    ASSUME Types, NEW h \in Hands,
           \/ ReadByHand(h) \/ ClaimByHand(h) \/ \E r \in Runs : LaunchByHand(h, r)
           \/ \E t \in Tasks : AskToRun(h, t)
    PROVE  Types'
<1> USE DEF db, hist, budget
<1>1. CASE ReadByHand(h)
  <2>1. \/ hand' = [hand EXCEPT ![h] = IdleHand]
        \/ hand' = [hand EXCEPT ![h].pc = "claim"] /\ hand[h].pc = "read"
    BY <1>1 DEF ReadByHand
  <2>2. hand' \in [Hands -> HandRecord]
    BY <2>1 DEF Types, HandRecord, IdleHand
  <2>3. Shape'
    BY <1>1, <2>1 DEF ReadByHand, Types, Shape, HandRecord, IdleHand
  <2> QED
    BY <1>1, <2>2, <2>3 DEF ReadByHand, Types, DbTypes, PastTypes
<1>2. CASE ClaimByHand(h)
  <2>1. hand' \in [Hands -> HandRecord]
    BY <1>2 DEF ClaimByHand, Types, HandRecord
  <2>2. Shape'
    BY <1>2 DEF ClaimByHand, Types, Shape, HandRecord
  <2>3. status' \in [Tasks -> TaskStatus]
    BY <1>2 DEF ClaimByHand, Types, DbTypes, TaskStatus
  <2> QED
    BY <1>2, <2>1, <2>2, <2>3 DEF ClaimByHand, Types, DbTypes, PastTypes
<1>3. ASSUME NEW r \in Runs, LaunchByHand(h, r) PROVE Types'
  <2>1. hand[h].task \in Tasks
    BY <1>3 DEF LaunchByHand, Types, Shape, PastTypes
  <2>2. hand' \in [Hands -> HandRecord]
    BY <1>3 DEF LaunchByHand, Types, HandRecord, IdleHand
  <2>3. run' \in [Runs -> RunRecord]
    BY <1>3, <2>1 DEF LaunchByHand, Launch, Types, RunRecord, RunPc, FreeRun, Processes
  <2>4. Shape'
    BY <1>3, <2>1 DEF LaunchByHand, Launch, Types, Shape, RunRecord, HandRecord, FreeRun, IdleHand
  <2>5. running' \in [Processes -> SUBSET Tasks]
    BY <1>3, <2>1 DEF LaunchByHand, Launch, Types, DbTypes
  <2> QED
    BY <1>3, <2>2, <2>3, <2>4, <2>5 DEF LaunchByHand, Types, DbTypes, PastTypes
<1>4. ASSUME NEW t \in Tasks, AskToRun(h, t) PROVE Types'
  <2>1. hand' \in [Hands -> HandRecord]
    BY <1>4 DEF AskToRun, Types, HandRecord
  <2>2. Shape'
    BY <1>4 DEF AskToRun, Types, Shape, HandRecord
  <2>3. DbTypes' /\ PastTypes'
    BY <1>4, Bounds DEF AskToRun, Types, DbTypes, PastTypes, TaskStatus
  <2> QED
    BY <1>4, <2>1, <2>2, <2>3 DEF AskToRun, Types
<1> QED
  BY <1>1, <1>2, <1>3, <1>4

LEMMA BeatFrame ==
    ASSUME BeatStep
    PROVE  /\ UNCHANGED <<status, running, poll, hand, run, edited, byHand, cut>>
           /\ skewed \subseteq skewed'
BY DEF BeatStep, BeatRead, BeatWrite, BeatLost, BeatUncharged, ReadBeside, db

LEMMA BeatTypes ==
    ASSUME Types, BeatStep
    PROVE  DbTypes' /\ PastTypes' /\ beat' \in [Beats -> BeatRecord]
<1> USE DEF db, hist, budget
<1>1. /\ DbTypes /\ PastTypes /\ beat \in [Beats -> BeatRecord]
      /\ UNCHANGED <<status, running, poll, hand, run, edited, byHand, cut>>
  BY BeatFrame DEF Types
<1>2. \A b \in Beats : [beat EXCEPT ![b] = [pc |-> "idle"]] \in [Beats -> BeatRecord]
  BY <1>1 DEF BeatRecord
<1>3. ASSUME NEW a \in Agents, NEW s \in BeatStatus, BeatSets(a, s)
      PROVE  agent' \in [Agents -> AgentStatus]
  BY <1>1, <1>3, ExecutorAssumption DEF BeatSets, DbTypes, AgentStatus
<1>4. ASSUME NEW a \in Agents, NEW c \in Nat, BeatLogs(a, c)
      PROVE  billed' \in [Agents -> Nat] /\ charges' \in [Agents -> Nat]
  <2>1. ToCost(c) \in Nat
    BY DEF ToCost
  <2> QED
    BY <1>1, <1>4, <2>1 DEF BeatLogs, DbTypes, PastTypes
<1>5. ASSUME NEW b \in Beats, beat[b].pc = "write"
      PROVE  /\ beat[b].agent \in Agents /\ beat[b].to \in BeatStatus
             /\ beat[b].cost \in Nat /\ beat[b].read \in Nat
             /\ BeatAdds(b) => used' \in [Agents -> Nat]
  <2>1. beat[b] \in WriteBeat
    BY <1>1, <1>5 DEF BeatRecord
  <2>2. beat[b].agent \in Agents /\ beat[b].read + beat[b].cost \in Nat
    BY <2>1 DEF WriteBeat
  <2>3. BeatAdds(b) => used' \in [Agents -> Nat]
    BY <1>1, <2>2, RoundingTypes DEF BeatAdds, DbTypes
  <2> QED
    BY <2>1, <2>3 DEF WriteBeat
<1>6. ASSUME NEW b \in Beats, BeatWrite(b)
      PROVE  DbTypes' /\ PastTypes' /\ beat' \in [Beats -> BeatRecord]
  BY <1>1, <1>2, <1>3, <1>4, <1>5, <1>6 DEF BeatWrite, DbTypes, PastTypes
<1>7. ASSUME NEW b \in Beats, BeatLost(b)
      PROVE  DbTypes' /\ PastTypes' /\ beat' \in [Beats -> BeatRecord]
  BY <1>1, <1>2, <1>3, <1>5, <1>7, Bounds DEF BeatLost, DbTypes, PastTypes
<1>8. ASSUME NEW a \in Agents, NEW s \in BeatStatus, NEW c \in Costs, BeatUncharged(a, s, c)
      PROVE  DbTypes' /\ PastTypes' /\ beat' \in [Beats -> BeatRecord]
  BY <1>1, <1>3, <1>4, <1>8, Bounds, ExecutorAssumption DEF BeatUncharged, DbTypes, PastTypes
<1>9. ASSUME NEW a \in Agents, NEW s \in BeatStatus, NEW c \in Costs, NEW b \in Beats,
             BeatRead(b, a, s, c)
      PROVE  DbTypes' /\ PastTypes' /\ beat' \in [Beats -> BeatRecord]
  <2>1. [pc |-> "write", agent |-> a, to |-> s, cost |-> c, read |-> used[a]] \in BeatRecord
    BY <1>1, ExecutorAssumption DEF BeatRecord, WriteBeat, DbTypes
  <2> QED
    BY <1>1, <1>9, <2>1, Bounds DEF BeatRead, ReadBeside, DbTypes, PastTypes
<1> QED
  BY <1>6, <1>7, <1>8, <1>9 DEF BeatStep

LEMMA OtherTypes ==
    ASSUME Types,
           \/ \E t \in Tasks : CreateTask(t) \/ \E s \in Edits : EditTask(t, s)
           \/ \E a \in Agents, s \in AgentStatus : SetAgent(a, s)
           \/ \E proc \in Processes : Crash(proc)
           \/ BeatStep
           \/ \E p \in Polls : PollCallLost(p)
           \/ \E h \in Hands : HandCallLost(h)
    PROVE  Types'
<1> USE DEF db, hist, budget
<1>1. ASSUME NEW t \in Tasks, CreateTask(t) \/ \E s \in Edits : EditTask(t, s)
      PROVE  Types'
  <2>1. Edits \subseteq TaskStatus
    BY ExecutorAssumption DEF TaskStatus
  <2>2. DbTypes' /\ PastTypes'
    BY <1>1, <2>1, Bounds DEF CreateTask, EditTask, Types, DbTypes, PastTypes, TaskStatus
  <2> QED
    BY <1>1, <2>2 DEF CreateTask, EditTask, Types, Shape
<1>2. ASSUME NEW a \in Agents, NEW s \in AgentStatus, SetAgent(a, s) PROVE Types'
  BY <1>2, Bounds DEF SetAgent, Types, DbTypes, PastTypes, Shape
<1>3. ASSUME NEW proc \in Processes, Crash(proc) PROVE Types'
  <2>1. run' \in [Runs -> RunRecord] /\ hand' \in [Hands -> HandRecord]
        /\ poll' \in [Polls -> PollRecord] /\ beat' \in [Beats -> BeatRecord]
    BY <1>3 DEF Crash, Types, RunRecord, HandRecord, PollRecord, BeatRecord, FreeRun,
                IdlePoll, IdleHand, RunPc, Processes
  <2>2. Shape'
    BY <1>3 DEF Crash, Types, Shape, FreeRun, IdlePoll, IdleHand
  <2>3. HeldBy(proc) \subseteq Tasks
    BY DEF HeldBy, Live, Types, Shape, PastTypes
  <2>4. \A r \in Runs : run[r].pc = "charge" => AgentOf[run[r].task] \in Agents
    BY ExecutorAssumption DEF Types, Shape
  <2>5. DbTypes' /\ PastTypes'
    BY <1>3, <2>3, <2>4, Bounds DEF Crash, Types, DbTypes, PastTypes
  <2> QED
    BY <2>1, <2>2, <2>5 DEF Types
<1>4. CASE BeatStep
  <2>1. DbTypes' /\ PastTypes' /\ beat' \in [Beats -> BeatRecord]
    BY <1>4, BeatTypes
  <2>2. UNCHANGED <<running, poll, hand, run, byHand>>
    BY <1>4, BeatFrame
  <2> QED
    BY <2>1, <2>2 DEF Types, Shape
<1>5. ASSUME NEW p \in Polls, PollCallLost(p) PROVE Types'
  <2>1. poll[p].pc = "claim" => poll[p].task \in Tasks
    BY DEF Types, Shape
  <2>2. DbTypes' /\ PastTypes'
    BY <1>5, <2>1, Bounds DEF PollCallLost, ClaimLost, Types, DbTypes, PastTypes, TaskStatus
  <2>3. poll' \in [Polls -> PollRecord]
    BY <1>5 DEF PollCallLost, Types, PollRecord
  <2>4. Shape'
    BY <1>5 DEF PollCallLost, Types, Shape, PollRecord
  <2> QED
    BY <1>5, <2>2, <2>3, <2>4 DEF PollCallLost, Types
<1>6. ASSUME NEW h \in Hands, HandCallLost(h) PROVE Types'
  <2>1. hand[h].pc = "claim" => hand[h].task \in Tasks
    BY DEF Types, Shape, PastTypes
  <2>2. DbTypes' /\ PastTypes'
    BY <1>6, <2>1, Bounds DEF HandCallLost, ClaimLost, Types, DbTypes, PastTypes, TaskStatus
  <2>3. hand' \in [Hands -> HandRecord]
    BY <1>6 DEF HandCallLost, Types, HandRecord, IdleHand
  <2>4. Shape'
    BY <1>6 DEF HandCallLost, Types, Shape, HandRecord, IdleHand
  <2> QED
    BY <1>6, <2>2, <2>3, <2>4 DEF HandCallLost, Types
<1> QED
  BY <1>1, <1>2, <1>3, <1>4, <1>5, <1>6

LEMMA TypesStep == Types /\ [Next]_vars => Types'
<1>1. SUFFICES ASSUME Types, [Next]_vars PROVE Types'
  OBVIOUS
<1>2. CASE UNCHANGED vars
  BY <1>1, <1>2 DEF vars, db, hist, Types, DbTypes, PastTypes, Shape
<1> QED
  BY <1>1, <1>2, PollTypes, RunTypes, HandTypes, OtherTypes
  DEF Next, Poll, Request, Owner, Faults, RunStep, BeatStep

(* Type correctness, and that no poll cycle, request or execution is at    *)
(* work on no task, whatever overlaps, is edited meanwhile or dies.        *)
THEOREM ExecutorTyping == Spec => []TypeOK
  BY TypesInit, TypesStep, TypesAreTypes, PTL DEF Spec

(***************************************************************************)
(* One loop per task.                                                      *)
(***************************************************************************)
(* What is remembered of the owner and of faults only grows.               *)
LEMMA PastGrows ==
    ASSUME [Next]_vars
    PROVE  /\ edited \subseteq edited' /\ byHand \subseteq byHand'
           /\ cut \subseteq cut' /\ skewed \subseteq skewed'
<1> USE DEF hist, budget
<1>1. CASE Owner
  BY <1>1, BeatFrame DEF Owner, CreateTask, EditTask, AskToRun, SetAgent, BeatStep
<1>2. CASE Faults
  BY <1>2, BeatFrame DEF Faults, Crash, PollCallLost, HandCallLost, ClaimLost, SetupThrows,
                         OutcomeLost, ChargeLost, BeatStep
<1>3. CASE \E p \in Polls : Poll(p)
  BY <1>3 DEF Poll, StartPoll, ScanRow, ClaimTask, LaunchClaimed
<1>4. CASE \E r \in Runs : Settle(r) \/ OrphanEnds(r)
  BY <1>4 DEF Settle, LoopEnds, MarkCompleted, LogAndReadBudget, ReadBeside, ChargeBudget,
              MarkFailed, OrphanEnds
<1>5. CASE \E h \in Hands : Request(h)
  BY <1>5 DEF Request, ReadByHand, ClaimByHand, LaunchByHand
<1>6. CASE UNCHANGED vars
  BY <1>6 DEF vars
<1> QED
  BY <1>1, <1>2, <1>3, <1>4, <1>5, <1>6 DEF Next

(* A step after which nobody new is at work on task t.                     *)
LEMMA ClaimKept ==
    ASSUME NEW t \in Tasks, ClaimOf(t), status'[t] = status[t],
           \A p \in Polls : Launching(p, t)' => Launching(p, t),
           \A r \in Runs : /\ RunOf(r, t)' => RunOf(r, t)
                           /\ Settling(r, t)' => Settling(r, t)
    PROVE  ClaimOf(t)'
BY DEF ClaimOf

LEMMA ClaimPoll ==
    ASSUME Types, NEW t \in Tasks, ClaimOf(t), NEW p \in Polls,
           \/ StartPoll(p) \/ ScanRow(p) \/ ClaimTask(p)
           \/ \E r \in Runs : LaunchClaimed(p, r)
    PROVE  ClaimOf(t)'
<1> USE DEF db, hist, budget
<1>1. poll \in [Polls -> PollRecord] /\ run \in [Runs -> RunRecord] /\ t # NoTask
  BY ExecutorAssumption DEF Types
<1>2. ASSUME UNCHANGED <<status, run>>, poll'[p].pc # "launch",
             \A q \in Polls \ {p} : poll'[q] = poll[q]
      PROVE  ClaimOf(t)'
  BY <1>2, ClaimKept DEF Launching, RunOf, Settling
<1>3. CASE StartPoll(p) \/ ScanRow(p)
  <2>1. UNCHANGED <<status, run>> /\ \A q \in Polls \ {p} : poll'[q] = poll[q]
    BY <1>1, <1>3 DEF StartPoll, ScanRow
  <2>2. CASE StartPoll(p)
    BY <1>1, <1>2, <2>1, <2>2 DEF StartPoll, PollRecord
  <2>3. CASE ScanRow(p)
    <3>1. poll'[p].pc \in {"idle", "claim", "scan"}
      BY <1>1, <2>3 DEF ScanRow, IdlePoll, PollRecord
    <3> QED
      BY <1>2, <2>1, <3>1
  <2> QED
    BY <1>3, <2>2, <2>3
<1>4. CASE ClaimTask(p)
  <2>1. run' = run /\ \A q \in Polls \ {p} : poll'[q] = poll[q]
    BY <1>1, <1>4 DEF ClaimTask
  <2>2. CASE status[poll[p].task] # "pending"
    BY <1>1, <1>2, <1>4, <2>1, <2>2 DEF ClaimTask, PollRecord
  <2>3. CASE status[poll[p].task] = "pending"
    <3>1. /\ status' = [status EXCEPT ![poll[p].task] = "in_progress"]
          /\ poll'[p].pc = "launch" /\ poll'[p].task = poll[p].task
      BY <1>1, <1>4, <2>3 DEF ClaimTask, PollRecord
    <3>2. CASE poll[p].task = t
      <4>1. /\ \A q \in Polls : ~Launching(q, t)
            /\ \A r \in Runs : ~RunOf(r, t)
        BY <2>3, <3>2 DEF ClaimOf
      <4>2. status'[t] = "in_progress"
        BY <3>1, <3>2 DEF Types, DbTypes
      <4> QED
        BY <2>1, <4>1, <4>2 DEF ClaimOf, Launching, RunOf, Settling
    <3>3. CASE poll[p].task # t
      <4>1. status'[t] = status[t]
        BY <3>1, <3>3 DEF Types, DbTypes
      <4> QED
        BY <2>1, <3>1, <3>3, <4>1, ClaimKept DEF Launching, RunOf, Settling
    <3> QED
      BY <3>2, <3>3
  <2> QED
    BY <2>2, <2>3
<1>5. ASSUME NEW r \in Runs, LaunchClaimed(p, r) PROVE ClaimOf(t)'
  <2>1. /\ status' = status
        /\ poll'[p].pc = "scan" /\ \A q \in Polls \ {p} : poll'[q] = poll[q]
        /\ run'[r].pc = "loop" /\ run'[r].task = poll[p].task
        /\ \A s \in Runs \ {r} : run'[s] = run[s]
    BY <1>1, <1>5 DEF LaunchClaimed, Launch, PollRecord, FreeRun
  <2>2. CASE poll[p].task # t
    BY <2>1, <2>2, ClaimKept DEF Launching, RunOf, Settling
  <2>3. CASE poll[p].task = t
    <3>1. Launching(p, t)
      BY <1>5, <2>3 DEF LaunchClaimed, Launching
    <3>2. /\ status[t] = "in_progress"
          /\ \A q \in Polls \ {p} : ~Launching(q, t)
          /\ \A s \in Runs : ~RunOf(s, t)
      BY <3>1 DEF ClaimOf
    <3>3. /\ \A q \in Polls : ~Launching(q, t)'
          /\ \A s \in Runs \ {r} : ~RunOf(s, t)'
      BY <2>1, <3>2 DEF Launching, RunOf
    <3> QED
      BY <2>1, <3>2, <3>3 DEF ClaimOf, Settling
  <2> QED
    BY <2>2, <2>3
<1> QED
  BY <1>3, <1>4, <1>5

LEMMA Charged ==
    ASSUME run \in [Runs -> RunRecord], NEW r \in Runs,
           LogAndReadBudget(r) \/ ChargeLost(r)
    PROVE  \/ run'[r] = FreeRun
           \/ run'[r].pc = "charge" /\ run'[r].task = run[r].task
<1> DEFINE x == used[AgentOf[run[r].task]]
<1>1. ASSUME NEW c \in Costs,
             run' = [run EXCEPT ![r].pc = "charge", ![r].cost = c, ![r].read = x]
      PROVE  run'[r].pc = "charge" /\ run'[r].task = run[r].task
  <2> HIDE DEF x
  <2> QED
    BY <1>1 DEF RunRecord
<1>2. \/ run' = [run EXCEPT ![r] = FreeRun]
      \/ \E c \in Costs :
            run' = [run EXCEPT ![r].pc = "charge", ![r].cost = c, ![r].read = x]
  BY DEF LogAndReadBudget, ChargeLost
<1> QED
  BY <1>1, <1>2

LEMMA ClaimRun ==
    ASSUME Types, NEW t \in Tasks, ClaimOf(t), NEW r \in Runs,
           RunStep(r)
    PROVE  ClaimOf(t)'
<1> USE DEF db, hist, budget
<1>1. run \in [Runs -> RunRecord] /\ NoTask # t /\ status \in [Tasks -> TaskStatus]
  BY ExecutorAssumption DEF Types, DbTypes
<1>2. poll' = poll
  BY DEF RunStep, Settle, LoopEnds, MarkCompleted, LogAndReadBudget, ChargeBudget, MarkFailed,
         OrphanEnds, SetupThrows, OutcomeLost, ChargeLost
<1>3. ASSUME status'[t] = status[t], \A s \in Runs \ {r} : run'[s] = run[s],
             RunOf(r, t)' => RunOf(r, t), Settling(r, t)' => Settling(r, t)
      PROVE  ClaimOf(t)'
  BY <1>2, <1>3, ClaimKept DEF Launching, RunOf, Settling
<1>4. CASE LoopEnds(r) \/ OrphanEnds(r) \/ ChargeBudget(r) \/ SetupThrows(r)
           \/ OutcomeLost(r)
  BY <1>1, <1>3, <1>4
  DEF LoopEnds, OrphanEnds, ChargeBudget, SetupThrows, OutcomeLost, Failed, FreeRun, RunOf,
      Settling, RunRecord
<1>6. CASE LogAndReadBudget(r) \/ ChargeLost(r)
  <2>1. status' = status /\ \A s \in Runs \ {r} : run'[s] = run[s]
    BY <1>1, <1>6 DEF LogAndReadBudget, ChargeLost
  <2>2. \/ run'[r] = FreeRun
        \/ run'[r].pc = "charge" /\ run'[r].task = run[r].task
    BY <1>1, <1>6, Charged DEF LogAndReadBudget, ChargeLost
  <2> QED
    BY <1>1, <1>3, <2>1, <2>2 DEF FreeRun, RunOf, Settling
<1>5. CASE MarkCompleted(r) \/ MarkFailed(r)
  <2>1. /\ \A s \in Runs \ {r} : run'[s] = run[s]
        /\ RunOf(r, t)' => RunOf(r, t)
        /\ ~Settling(r, t)'
    BY <1>1, <1>5 DEF MarkCompleted, MarkFailed, Failed, FreeRun, RunOf, Settling, RunRecord
  <2>2. CASE ~RunOf(r, t)
    BY <1>1, <1>3, <1>5, <2>1, <2>2 DEF MarkCompleted, MarkFailed, Outcome, RunOf
  <2>3. CASE RunOf(r, t)
    <3>1. Settling(r, t)
      BY <1>5, <2>3 DEF MarkCompleted, MarkFailed, Settling
    <3>2. /\ \A p \in Polls : ~Launching(p, t)
          /\ \A s \in Runs \ {r} : ~RunOf(s, t)
          /\ status[t] = "in_progress"
      BY <2>3, <3>1 DEF ClaimOf
    <3>3. status'[t] \in {"completed", "failed"}
      BY <1>1, <1>5, <2>3, <3>2 DEF MarkCompleted, MarkFailed, Outcome, RunOf
    <3>4. /\ \A p \in Polls : ~Launching(p, t)'
          /\ \A s \in Runs \ {r} : ~RunOf(s, t)' /\ ~Settling(s, t)'
      BY <1>2, <2>1, <3>2 DEF Launching, RunOf, Settling
    <3> QED
      BY <2>1, <3>3, <3>4 DEF ClaimOf
  <2> QED
    BY <2>2, <2>3
<1> QED
  BY <1>4, <1>5, <1>6 DEF RunStep, Settle

(* A claim whose answer is lost finds nobody at work on a pending task.    *)
LEMMA ClaimCallLost ==
    ASSUME Types, NEW t \in Tasks, ClaimOf(t), NEW p \in Polls, PollCallLost(p)
    PROVE  ClaimOf(t)'
<1> USE DEF db, hist, budget
<1>1. /\ poll \in [Polls -> PollRecord] /\ status \in [Tasks -> TaskStatus]
      /\ run' = run
  BY DEF Types, DbTypes, PollCallLost
<1>2. \A q \in Polls : Launching(q, t)' => Launching(q, t)
  BY <1>1 DEF PollCallLost, Launching, PollRecord
<1>3. CASE status'[t] = status[t]
  BY <1>1, <1>2, <1>3, ClaimKept DEF RunOf, Settling
<1>4. CASE status'[t] # status[t]
  <2>1. status[t] = "pending" /\ status'[t] = "in_progress"
    BY <1>1, <1>4 DEF PollCallLost, ClaimLost
  <2>2. /\ \A q \in Polls : ~Launching(q, t)
        /\ \A r \in Runs : ~RunOf(r, t)
    BY <2>1 DEF ClaimOf
  <2> QED
    BY <1>1, <1>2, <2>1, <2>2 DEF ClaimOf, RunOf, Settling
<1> QED
  BY <1>3, <1>4

(* Requests by hand, and the owner: they concern tasks he touches.         *)
LEMMA ClaimHand ==
    ASSUME Types, NEW t \in Tasks, ClaimOf(t), Untouched(t), Untouched(t)',
           \/ \E h \in Hands : Request(h) \/ HandCallLost(h)
           \/ Owner \/ BeatStep
    PROVE  ClaimOf(t)'
<1> USE DEF db, hist, budget
<1>1. /\ run \in [Runs -> RunRecord] /\ status \in [Tasks -> TaskStatus]
      /\ byHand \subseteq Tasks
  BY DEF Types, DbTypes, PastTypes
<1>2. ASSUME status'[t] = status[t], UNCHANGED <<poll, run>> PROVE ClaimOf(t)'
  BY <1>2, ClaimKept DEF Launching, RunOf, Settling
<1>3. ASSUME NEW h \in Hands, ReadByHand(h) PROVE ClaimOf(t)'
  BY <1>2, <1>3 DEF ReadByHand
<1>4. ASSUME NEW h \in Hands, hand[h].pc # "idle" PROVE hand[h].task # t
  BY <1>4 DEF Untouched, Types, Shape
<1>5. ASSUME NEW h \in Hands, ClaimByHand(h) PROVE ClaimOf(t)'
  <2>1. status'[t] = status[t]
    BY <1>1, <1>4, <1>5 DEF ClaimByHand
  <2> QED
    BY <1>2, <1>5, <2>1 DEF ClaimByHand
<1>6. ASSUME NEW h \in Hands, NEW r \in Runs, LaunchByHand(h, r) PROVE ClaimOf(t)'
  <2>1. /\ UNCHANGED <<status, poll>> /\ run'[r].task # t
        /\ \A s \in Runs \ {r} : run'[s] = run[s]
    BY <1>1, <1>4, <1>6 DEF LaunchByHand, Launch, FreeRun
  <2> QED
    BY <2>1, ClaimKept DEF Launching, RunOf, Settling
<1>7. ASSUME NEW u \in Tasks,
             \/ \E s \in Edits : EditTask(u, s)
             \/ \E h \in Hands : AskToRun(h, u)
      PROVE  ClaimOf(t)'
  <2>1. u # t
    BY <1>7 DEF EditTask, AskToRun, Untouched
  <2> QED
    BY <1>1, <1>2, <1>7, <2>1 DEF EditTask, AskToRun
<1>8. ASSUME NEW a \in Agents, NEW s \in AgentStatus, SetAgent(a, s) PROVE ClaimOf(t)'
  BY <1>2, <1>8 DEF SetAgent
<1>9. ASSUME NEW u \in Tasks, CreateTask(u) PROVE ClaimOf(t)'
  <2>1. UNCHANGED <<poll, run>>
    BY <1>9 DEF CreateTask
  <2>2. CASE u # t
    BY <1>1, <1>2, <1>9, <2>1, <2>2 DEF CreateTask
  <2>3. CASE u = t
    <3>1. /\ \A p \in Polls : ~Launching(p, t)
          /\ \A r \in Runs : ~RunOf(r, t)
      BY <1>9, <2>3 DEF CreateTask, ClaimOf
    <3> QED
      BY <2>1, <3>1 DEF ClaimOf, Launching, RunOf, Settling
  <2> QED
    BY <2>2, <2>3
<1>10. ASSUME NEW h \in Hands, HandCallLost(h) PROVE ClaimOf(t)'
  <2>1. hand[h].task # t
    BY <1>4, <1>10 DEF HandCallLost
  <2>2. status'[t] = status[t]
    BY <1>1, <1>10, <2>1 DEF HandCallLost, ClaimLost
  <2> QED
    BY <1>2, <1>10, <2>2 DEF HandCallLost
<1>11. CASE BeatStep
  BY <1>2, <1>11, BeatFrame
<1> QED
  BY <1>3, <1>5, <1>6, <1>7, <1>8, <1>9, <1>10, <1>11 DEF Request, Owner, BeatStep

LEMMA ClaimStep == ASSUME Types, ClaimInv, [Next]_vars PROVE ClaimInv'
<1>1. SUFFICES ASSUME NEW t \in Tasks, Untouched(t)' PROVE ClaimOf(t)'
  BY DEF ClaimInv
<1>2. Untouched(t) /\ ClaimOf(t)
  BY <1>1, PastGrows DEF Untouched, ClaimInv
<1>3. ASSUME NEW proc \in Processes, Crash(proc) PROVE ClaimOf(t)'
  <2>1. NoTask # t
    BY ExecutorAssumption
  <2> QED
    BY <1>2, <1>3, <2>1, ClaimKept
    DEF Crash, db, Launching, RunOf, Settling, FreeRun, IdlePoll
<1>4. CASE UNCHANGED vars
  BY <1>2, <1>4, ClaimKept DEF vars, db, Launching, RunOf, Settling
<1> QED
  BY <1>1, <1>2, <1>3, <1>4, ClaimPoll, ClaimRun, ClaimHand, ClaimCallLost
  DEF Next, Poll, Faults, RunStep, BeatStep

LEMMA ClaimInit == Init => ClaimInv
BY ExecutorAssumption
DEF Init, ClaimInv, ClaimOf, Launching, RunOf, Settling, IdlePoll, FreeRun

LEMMA AtMostOne ==
    ASSUME NEW S, \A x, y \in S : x = y
    PROVE  Cardinality(S) <= 1
<1>1. CASE S = {}
  BY <1>1, FS_EmptySet
<1>2. CASE S # {}
  <2>1. PICK x \in S : S = {x}
    BY <1>2
  <2> QED
    BY <2>1, FS_Singleton
<1> QED
  BY <1>1, <1>2

(* A task its owner leaves alone is never worked on twice at the same      *)
(* time, however many poll cycles overlap, executions time out or          *)
(* processes die: a loop the timeout left behind counts as well.           *)
THEOREM RunOnce == Spec => []OneLoopPerTask
<1>1. Types /\ ClaimInv => OneLoopPerTask
  <2>1. SUFFICES ASSUME Types, ClaimInv, NEW t \in Tasks, Untouched(t)
                 PROVE  Cardinality({p \in Polls : Launching(p, t)}
                                    \cup {r \in Runs : RunOf(r, t)}) <= 1
    BY DEF OneLoopPerTask, Launching, RunOf
  <2>2. ClaimOf(t)
    BY <2>1 DEF ClaimInv
  <2> QED
    BY <2>2, AtMostOne DEF ClaimOf
<1>2. Types /\ ClaimInv /\ [Next]_vars => (Types /\ ClaimInv)'
  BY TypesStep, ClaimStep
<1>3. Init => Types /\ ClaimInv
  BY TypesInit, ClaimInit
<1> QED
  BY <1>1, <1>2, <1>3, PTL DEF Spec

(* The steps that change the status of a task the owner leaves alone.      *)
LEMMA OutcomeWriters ==
    ASSUME Types, [Next]_vars, NEW t \in Tasks, Untouched(t)', status'[t] # status[t]
    PROVE  \/ status[t] = "pending"
           \/ \E r \in Runs : Settling(r, t)
           \/ status[t] = "absent"
<1> USE DEF db, hist, budget
<1>1. status \in [Tasks -> TaskStatus] /\ Untouched(t)
  BY PastGrows DEF Types, DbTypes, Untouched
<1>2. CASE \E p \in Polls : Poll(p)
  BY <1>1, <1>2 DEF Poll, StartPoll, ScanRow, ClaimTask, LaunchClaimed
<1>3. CASE \E r \in Runs : Settle(r) \/ OrphanEnds(r)
  BY <1>1, <1>3 DEF Settle, LoopEnds, MarkCompleted, LogAndReadBudget, ChargeBudget,
                    MarkFailed, Outcome, OrphanEnds, Settling, RunOf
<1>4. ASSUME NEW h \in Hands, Request(h) PROVE FALSE
  <2>1. hand[h].pc # "idle" => hand[h].task # t
    BY <1>1 DEF Untouched, Types, Shape
  <2> QED
    BY <1>1, <1>4, <2>1 DEF Request, ReadByHand, ClaimByHand, LaunchByHand
<1>5. CASE Owner
  BY <1>1, <1>5, BeatFrame DEF Owner, CreateTask, EditTask, AskToRun, SetAgent, Untouched,
                               BeatStep
<1>6. ASSUME NEW h \in Hands, HandCallLost(h) PROVE FALSE
  <2>1. hand[h].task # t
    BY <1>1, <1>6 DEF HandCallLost, Untouched, Types, Shape
  <2> QED
    BY <1>1, <1>6, <2>1 DEF HandCallLost, ClaimLost
<1>7. CASE Faults \/ UNCHANGED vars
  BY <1>1, <1>6, <1>7, BeatFrame
  DEF Faults, Crash, PollCallLost, ClaimLost, SetupThrows, OutcomeLost, ChargeLost, BeatStep,
      vars
<1> QED
  BY <1>2, <1>3, <1>4, <1>5, <1>7 DEF Next

(* The outcome of a task its owner leaves alone is final: no stale page of *)
(* a poll cycle, late execution or restart moves it again.                 *)
THEOREM OutcomeIsFinal == Spec => OutcomeStands
<1>1. Types /\ ClaimInv /\ [Next]_vars =>
        [\A t \in Tasks : Untouched(t) /\ Untouched(t)'
              /\ status[t] \in {"completed", "failed"} => status'[t] = status[t]]_vars
  <2>1. SUFFICES ASSUME Types, ClaimInv, [Next]_vars, NEW t \in Tasks,
                        Untouched(t), Untouched(t)', status[t] \in {"completed", "failed"},
                        status'[t] # status[t]
                 PROVE  FALSE
    OBVIOUS
  <2>2. \A r \in Runs : Settling(r, t) => status[t] = "in_progress"
    BY <2>1 DEF ClaimInv, ClaimOf
  <2> QED
    BY <2>1, <2>2, OutcomeWriters
<1>2. Types /\ ClaimInv /\ [Next]_vars => (Types /\ ClaimInv)'
  BY TypesStep, ClaimStep
<1>3. Init => Types /\ ClaimInv
  BY TypesInit, ClaimInit
<1> QED
  BY <1>1, <1>2, <1>3, PTL DEF Spec, OutcomeStands

(***************************************************************************)
(* Stuck tasks.                                                            *)
(***************************************************************************)
(* Somebody who was at work on task t still is, or it was cut.             *)
LEMMA StuckPoll ==
    ASSUME Types, StuckInv, NEW t \in Tasks \ edited, NEW p \in Polls, Poll(p),
           status'[t] = "in_progress"
    PROVE  Attended(t)'
<1> USE DEF db, hist, budget
<1>1. /\ poll \in [Polls -> PollRecord] /\ run \in [Runs -> RunRecord]
      /\ status \in [Tasks -> TaskStatus]
  BY DEF Types, DbTypes
<1>2. UNCHANGED <<hand, cut>>
  BY DEF Poll, StartPoll, ScanRow, ClaimTask, LaunchClaimed
<1>3. CASE StartPoll(p) \/ ScanRow(p)
  <2>1. /\ UNCHANGED <<status, run>> /\ poll[p].pc \in {"idle", "scan"}
        /\ \A q \in Polls \ {p} : poll'[q] = poll[q]
    BY <1>1, <1>3 DEF StartPoll, ScanRow
  <2>2. Attended(t)
    BY <2>1 DEF StuckInv
  <2> QED
    BY <1>2, <2>1, <2>2 DEF Attended, Launching, Asked, Settling, RunOf
<1>4. CASE ClaimTask(p)
  <2>1. /\ run' = run /\ poll[p].pc = "claim"
        /\ \A q \in Polls \ {p} : poll'[q] = poll[q]
    BY <1>1, <1>4 DEF ClaimTask
  <2>2. CASE status[t] = "in_progress"
    <3>1. Attended(t)
      BY <2>2 DEF StuckInv
    <3> QED
      BY <1>2, <2>1, <3>1 DEF Attended, Launching, Asked, Settling, RunOf
  <2>3. CASE status[t] # "in_progress"
    <3>1. poll[p].task = t /\ poll' = [poll EXCEPT ![p].pc = "launch"]
      BY <1>1, <1>4, <2>3 DEF ClaimTask
    <3> QED
      BY <1>1, <3>1 DEF Attended, Launching, PollRecord
  <2> QED
    BY <2>2, <2>3
<1>5. ASSUME NEW r \in Runs, LaunchClaimed(p, r) PROVE Attended(t)'
  <2>1. /\ status' = status /\ run[r].pc = "free"
        /\ \A q \in Polls \ {p} : poll'[q] = poll[q]
        /\ run'[r].pc = "loop" /\ run'[r].task = poll[p].task
        /\ \A s \in Runs \ {r} : run'[s] = run[s]
    BY <1>1, <1>5 DEF LaunchClaimed, Launch, FreeRun
  <2>2. Attended(t)
    BY <2>1 DEF StuckInv
  <2> QED
    BY <1>2, <2>1, <2>2 DEF Attended, Launching, Asked, Settling, RunOf
<1> QED
  BY <1>3, <1>4, <1>5 DEF Poll

LEMMA StuckRun ==
    ASSUME Types, StuckInv, NEW t \in Tasks \ edited, NEW r \in Runs,
           RunStep(r), status'[t] = "in_progress"
    PROVE  Attended(t)'
<1> USE DEF db, hist, budget
<1>1. run \in [Runs -> RunRecord] /\ status \in [Tasks -> TaskStatus]
  BY DEF Types, DbTypes
<1>2. UNCHANGED <<poll, hand>> /\ cut \subseteq cut'
  BY DEF RunStep, Settle, LoopEnds, MarkCompleted, LogAndReadBudget, ChargeBudget, MarkFailed,
         OrphanEnds, SetupThrows, OutcomeLost, ChargeLost
<1>3. ASSUME \A s \in Runs \ {r} : run'[s] = run[s], status[t] = "in_progress",
             Settling(r, t) => Settling(r, t)' \/ t \in cut'
      PROVE  Attended(t)'
  <2>1. Attended(t)
    BY <1>3 DEF StuckInv
  <2> QED
    BY <1>2, <1>3, <2>1 DEF Attended, Launching, Asked, Settling, RunOf
<1>4. CASE LoopEnds(r) \/ OrphanEnds(r) \/ LogAndReadBudget(r) \/ ChargeBudget(r)
           \/ ChargeLost(r)
  BY <1>1, <1>3, <1>4 DEF LoopEnds, OrphanEnds, LogAndReadBudget, ChargeBudget, ChargeLost,
                          Settling, RunOf, RunRecord
<1>5. CASE OutcomeLost(r) \/ SetupThrows(r)
  BY <1>1, <1>3, <1>5 DEF OutcomeLost, SetupThrows, Settling, RunOf
<1>6. CASE MarkCompleted(r) \/ MarkFailed(r)
  <2>1. run[r].task # t /\ status[t] = "in_progress"
    BY <1>1, <1>6 DEF MarkCompleted, MarkFailed, Outcome
  <2> QED
    BY <1>1, <1>3, <1>6, <2>1 DEF MarkCompleted, MarkFailed, Settling, RunOf
<1> QED
  BY <1>4, <1>5, <1>6 DEF RunStep, Settle

LEMMA StuckHand ==
    ASSUME Types, StuckInv, NEW t \in Tasks \ edited, t \notin edited',
           \/ \E h \in Hands : Request(h) \/ HandCallLost(h)
           \/ \E p \in Polls : PollCallLost(p)
           \/ Owner \/ BeatStep,
           status'[t] = "in_progress"
    PROVE  Attended(t)'
<1> USE DEF db, hist, budget
<1>1. /\ run \in [Runs -> RunRecord] /\ hand \in [Hands -> HandRecord]
      /\ status \in [Tasks -> TaskStatus]
  BY DEF Types, DbTypes
<1>2. ASSUME UNCHANGED <<poll, run, cut>>, status[t] = "in_progress",
             \A h \in Hands : Asked(h, t) => Asked(h, t)'
      PROVE  Attended(t)'
  <2>1. Attended(t)
    BY <1>2 DEF StuckInv
  <2> QED
    BY <1>2, <2>1 DEF Attended, Launching, Settling, RunOf
<1>10. ASSUME run' = run, status[t] = "in_progress" \/ t \in cut', cut \subseteq cut',
              \A h \in Hands : Asked(h, t) => Asked(h, t)',
              \A p \in Polls : Launching(p, t) => Launching(p, t)'
       PROVE  Attended(t)'
  <2>1. t \in cut' \/ Attended(t)
    BY <1>10 DEF StuckInv
  <2> QED
    BY <1>10, <2>1 DEF Attended, Settling, RunOf
<1>3. ASSUME NEW h \in Hands, ReadByHand(h) PROVE Attended(t)'
  BY <1>1, <1>2, <1>3 DEF ReadByHand, Asked
<1>4. ASSUME NEW h \in Hands, ClaimByHand(h) PROVE Attended(t)'
  <2>1. CASE status[t] = "in_progress"
    BY <1>1, <1>2, <1>4, <2>1 DEF ClaimByHand, Asked
  <2>2. CASE status[t] # "in_progress"
    <3>1. hand[h].task = t /\ hand' = [hand EXCEPT ![h].pc = "launch"]
      BY <1>1, <1>4, <2>2 DEF ClaimByHand
    <3> QED
      BY <1>1, <3>1 DEF Attended, Asked, HandRecord
  <2> QED
    BY <2>1, <2>2
<1>5. ASSUME NEW h \in Hands, NEW r \in Runs, LaunchByHand(h, r) PROVE Attended(t)'
  <2>1. /\ UNCHANGED <<status, poll, cut>> /\ run[r].pc = "free"
        /\ \A g \in Hands \ {h} : hand'[g] = hand[g]
        /\ run'[r].pc = "loop" /\ run'[r].task = hand[h].task
        /\ \A s \in Runs \ {r} : run'[s] = run[s]
    BY <1>1, <1>5 DEF LaunchByHand, Launch, FreeRun
  <2>2. Attended(t)
    BY <2>1 DEF StuckInv
  <2> QED
    BY <2>1, <2>2 DEF Attended, Launching, Asked, Settling, RunOf
<1>6. ASSUME NEW u \in Tasks, NEW h \in Hands, AskToRun(h, u) PROVE Attended(t)'
  BY <1>1, <1>2, <1>6 DEF AskToRun, Asked
<1>7. ASSUME NEW u \in Tasks, CreateTask(u) \/ \E s \in Edits : EditTask(u, s)
      PROVE  Attended(t)'
  BY <1>1, <1>2, <1>7 DEF CreateTask, EditTask, Asked
<1>8. ASSUME NEW a \in Agents, NEW s \in AgentStatus, SetAgent(a, s) PROVE Attended(t)'
  BY <1>2, <1>8 DEF SetAgent, Asked
<1>9. ASSUME NEW h \in Hands, HandCallLost(h) PROVE Attended(t)'
  <2>1. UNCHANGED <<poll, run>> /\ \A g \in Hands : Asked(g, t) => Asked(g, t)'
    BY <1>1, <1>9 DEF HandCallLost, Asked
  <2> QED
    BY <1>1, <1>9, <1>10, <2>1 DEF HandCallLost, ClaimLost, Launching
<1>11. ASSUME NEW p \in Polls, PollCallLost(p) PROVE Attended(t)'
  <2>1. UNCHANGED <<hand, run>> /\ \A q \in Polls : Launching(q, t) => Launching(q, t)'
    BY <1>1, <1>11 DEF PollCallLost, Launching, Types
  <2> QED
    BY <1>1, <1>10, <1>11, <2>1 DEF PollCallLost, ClaimLost, Asked
<1>12. CASE BeatStep
  BY <1>2, <1>12, BeatFrame DEF Asked
<1> QED
  BY <1>3, <1>4, <1>5, <1>6, <1>7, <1>8, <1>9, <1>11, <1>12 DEF Request, Owner, BeatStep

LEMMA StuckCrash ==
    ASSUME Types, StuckInv, NEW t \in Tasks \ edited, NEW proc \in Processes, Crash(proc),
           status'[t] = "in_progress"
    PROVE  Attended(t)'
<1>1. Attended(t) /\ cut' = cut \cup HeldBy(proc)
  BY DEF Crash, db, StuckInv
<1>2. ASSUME NEW p \in Polls, Launching(p, t) PROVE Attended(t)'
  <2>1. CASE proc = "worker"
    BY <1>1, <1>2, <2>1 DEF HeldBy, Launching, Attended
  <2>2. CASE proc # "worker"
    BY <1>2, <2>2 DEF Crash, Launching, Attended
  <2> QED
    BY <2>1, <2>2
<1>3. ASSUME NEW h \in Hands, Asked(h, t) PROVE Attended(t)'
  <2>1. CASE proc = "worker"
    BY <1>3, <2>1 DEF Crash, Asked, Attended
  <2>2. CASE proc # "worker"
    BY <1>1, <1>3, <2>2 DEF HeldBy, Asked, Attended
  <2> QED
    BY <2>1, <2>2
<1>4. ASSUME NEW r \in Runs, Settling(r, t) PROVE Attended(t)'
  <2>1. CASE run[r].proc = proc
    BY <1>1, <1>4, <2>1 DEF HeldBy, Live, Settling, RunOf, Attended
  <2>2. CASE run[r].proc # proc
    <3>1. run'[r] = run[r]
      BY <2>2 DEF Crash
    <3> QED
      BY <1>4, <3>1 DEF Settling, RunOf, Attended
  <2> QED
    BY <2>1, <2>2
<1> QED
  BY <1>1, <1>2, <1>3, <1>4 DEF Attended

LEMMA StuckStep == ASSUME Types, StuckInv, [Next]_vars PROVE StuckInv'
<1>1. SUFFICES ASSUME NEW t \in Tasks, t \notin edited', status'[t] = "in_progress"
               PROVE  Attended(t)'
  BY DEF StuckInv
<1>2. t \in Tasks \ edited
  BY <1>1, PastGrows
<1>3. CASE UNCHANGED vars
  <2>1. Attended(t)
    BY <1>1, <1>2, <1>3 DEF vars, db, StuckInv
  <2> QED
    BY <1>3, <2>1 DEF vars, db, hist, Attended, Launching, Asked, Settling, RunOf
<1> QED
  BY <1>1, <1>2, <1>3, StuckPoll, StuckRun, StuckHand, StuckCrash
  DEF Next, Faults, RunStep, BeatStep

(* A task stays in_progress with nobody left to settle it only if its      *)
(* process died, the set-up of its run threw, its last update or the       *)
(* answer to its claim was lost, or the owner wrote that status.           *)
THEOREM StuckOnlyByFault == Spec => []StuckHasCause
<1>1. Types /\ StuckInv => StuckHasCause
  <2>1. SUFFICES ASSUME Types, NEW t \in Tasks, Attended(t)
                 PROVE  t \in HeldBy("worker") \cup HeldBy("server") \cup cut
    BY DEF StuckInv, StuckHasCause
  <2>2. ASSUME NEW r \in Runs, Settling(r, t)
        PROVE  t \in HeldBy("worker") \cup HeldBy("server")
    <3>1. Live(r) /\ run[r].proc \in {"worker", "server"} /\ run[r].task = t
      BY <2>1, <2>2 DEF Live, Settling, RunOf, Types, RunRecord, Processes
    <3> QED
      BY <3>1 DEF HeldBy
  <2>3. ASSUME NEW p \in Polls, Launching(p, t) PROVE t \in HeldBy("worker")
    BY <2>3 DEF Launching, HeldBy
  <2>4. ASSUME NEW h \in Hands, Asked(h, t) PROVE t \in HeldBy("server")
    BY <2>4 DEF Asked, HeldBy
  <2> QED
    BY <2>1, <2>2, <2>3, <2>4 DEF Attended
<1>2. Types /\ StuckInv /\ [Next]_vars => (Types /\ StuckInv)'
  BY TypesStep, StuckStep
<1>3. Init => Types /\ StuckInv
  BY TypesInit DEF Init, StuckInv
<1> QED
  BY <1>1, <1>2, <1>3, PTL DEF Spec

(***************************************************************************)
(* Slots.                                                                  *)
(***************************************************************************)
(* The poll cycles that are about to take a slot.                          *)
Busy == {p \in Polls : poll[p].pc \in {"claim", "launch"}}

LEMMA BusyIsFinite == IsFiniteSet(Busy) /\ Cardinality(Busy) <= Cardinality(Polls)
BY ExecutorAssumption, FS_Subset DEF Busy

(* A step that takes no slot and finds no cycle about to.                  *)
LEMMA SlotsKept ==
    ASSUME SlotsInv, running'["worker"] \subseteq running["worker"], Busy' \subseteq Busy
    PROVE  SlotsInv'
<1>1. IsFiniteSet(Busy) /\ IsFiniteSet(running["worker"])
  BY BusyIsFinite DEF SlotsInv
<1>2. /\ IsFiniteSet(running'["worker"])
      /\ Cardinality(running'["worker"]) <= Cardinality(running["worker"])
      /\ IsFiniteSet(Busy') /\ Cardinality(Busy') <= Cardinality(Busy)
  BY <1>1, FS_Subset
<1>3. /\ Cardinality(running'["worker"]) \in Nat /\ Cardinality(running["worker"]) \in Nat
      /\ Cardinality(Busy') \in Nat /\ Cardinality(Busy) \in Nat
      /\ Cardinality(Polls) \in Nat /\ MaxConcurrent \in Nat
  BY <1>1, <1>2, ExecutorAssumption, FS_CardinalityType
<1> QED
  BY <1>2, <1>3 DEF SlotsInv, SlotsBounded, Busy

LEMMA SlotsPoll ==
    ASSUME Types, SlotsInv, NEW p \in Polls, Poll(p)
    PROVE  SlotsInv'
<1>1. /\ poll \in [Polls -> PollRecord] /\ running \in [Processes -> SUBSET Tasks]
      /\ IsFiniteSet(running["worker"]) /\ IsFiniteSet(Busy)
  BY BusyIsFinite DEF Types, DbTypes, SlotsInv
<1>2. CASE StartPoll(p) \/ ClaimTask(p)
  <2>1. running' = running /\ Busy' \subseteq Busy
    BY <1>1, <1>2 DEF StartPoll, ClaimTask, Busy, PollRecord
  <2> QED
    BY <2>1, SlotsKept
<1>3. CASE ScanRow(p)
  <2>1. running' = running
    BY <1>3 DEF ScanRow
  <2>2. CASE Full
    <3>1. Busy' \subseteq Busy
      BY <1>1, <1>3, <2>2 DEF ScanRow, Busy, IdlePoll
    <3> QED
      BY <2>1, <3>1, SlotsKept
  <2>3. CASE ~Full
    <3>1. IsFiniteSet(Busy') /\ Cardinality(Busy') <= Cardinality(Polls)
      BY ExecutorAssumption, FS_Subset DEF Busy
    <3>2. /\ Cardinality(running["worker"]) \in Nat /\ Cardinality(Busy') \in Nat
          /\ Cardinality(Polls) \in Nat /\ MaxConcurrent \in Nat
      BY <1>1, <3>1, ExecutorAssumption, FS_CardinalityType
    <3>3. Cardinality(running["worker"]) <= MaxConcurrent - 1
      BY <2>3, <3>2 DEF Full
    <3> QED
      BY <1>1, <2>1, <3>1, <3>2, <3>3 DEF SlotsInv, SlotsBounded, Busy
  <2> QED
    BY <2>2, <2>3
<1>4. ASSUME NEW r \in Runs, LaunchClaimed(p, r) PROVE SlotsInv'
  <2>1. p \in Busy /\ Busy' = Busy \ {p}
    BY <1>1, <1>4 DEF LaunchClaimed, Busy, PollRecord
  <2>2. running'["worker"] = running["worker"] \cup {poll[p].task}
    BY <1>1, <1>4 DEF LaunchClaimed, Launch, Processes
  <2>3. Cardinality(Busy') = Cardinality(Busy) - 1
    BY <1>1, <2>1, FS_RemoveElement
  <2>4. /\ IsFiniteSet(running'["worker"])
        /\ Cardinality(running'["worker"]) <= Cardinality(running["worker"]) + 1
    <3>1. Cardinality(running["worker"]) \in Nat
      BY <1>1, FS_CardinalityType
    <3> DEFINE R == running["worker"]
               t == poll[p].task
    <3>2. /\ IsFiniteSet(R \cup {t})
          /\ Cardinality(R \cup {t}) = IF t \in R THEN Cardinality(R) ELSE Cardinality(R) + 1
      <4> HIDE DEF R, t
      <4> QED
        BY <1>1, FS_AddElement DEF R
    <3> QED
      BY <2>2, <3>1, <3>2
  <2>5. /\ Cardinality(running'["worker"]) \in Nat /\ Cardinality(running["worker"]) \in Nat
        /\ Cardinality(Busy) \in Nat /\ Cardinality(Polls) \in Nat /\ MaxConcurrent \in Nat
    BY <1>1, <2>4, ExecutorAssumption, FS_CardinalityType
  <2> QED
    BY <2>3, <2>4, <2>5 DEF SlotsInv, SlotsBounded, Busy
<1> QED
  BY <1>2, <1>3, <1>4 DEF Poll

LEMMA SlotsStep == ASSUME Types, SlotsInv, [Next]_vars PROVE SlotsInv'
<1> USE DEF db, hist, budget
<1>1. running \in [Processes -> SUBSET Tasks] /\ run \in [Runs -> RunRecord]
  BY DEF Types, DbTypes
<1>2. CASE \E p \in Polls : Poll(p)
  BY <1>2, SlotsPoll
<1>3. CASE \E r \in Runs : RunStep(r)
  <2>1. PICK r \in Runs : RunStep(r)
    BY <1>3
  <2>2. poll' = poll /\ (running' = running \/ Untrack(r))
    BY <2>1 DEF RunStep, Settle, LoopEnds, MarkCompleted, LogAndReadBudget, ChargeBudget,
                MarkFailed, OrphanEnds, SetupThrows, OutcomeLost, ChargeLost
  <2>3. running'["worker"] \subseteq running["worker"]
    BY <1>1, <2>2 DEF Untrack, Processes
  <2> QED
    BY <2>2, <2>3, SlotsKept DEF Busy
<1>4. CASE (\E h \in Hands : Request(h) \/ HandCallLost(h)) \/ Owner \/ BeatStep
           \/ UNCHANGED vars
  <2>1. poll' = poll /\ running'["worker"] = running["worker"]
    BY <1>1, <1>4, BeatFrame DEF Request, ReadByHand, ClaimByHand, LaunchByHand, Launch, Owner,
        CreateTask, EditTask, AskToRun, SetAgent, HandCallLost, BeatStep, vars, Processes
  <2> QED
    BY <2>1, SlotsKept DEF Busy
<1>5. ASSUME NEW proc \in Processes, Crash(proc) PROVE SlotsInv'
  <2>1. running'["worker"] \subseteq running["worker"]
    BY <1>1, <1>5 DEF Crash, Processes
  <2>2. Busy' \subseteq Busy
    BY <1>5 DEF Crash, Busy, IdlePoll
  <2> QED
    BY <2>1, <2>2, SlotsKept
<1>6. ASSUME NEW p \in Polls, PollCallLost(p) PROVE SlotsInv'
  <2>1. running' = running /\ Busy' \subseteq Busy
    BY <1>6 DEF PollCallLost, Types, Busy, PollRecord
  <2> QED
    BY <2>1, SlotsKept
<1> QED
  BY <1>2, <1>3, <1>4, <1>5, <1>6 DEF Next, Faults, RunStep, BeatStep

(* Poll cycles that overlap take at most one slot each beyond the limit:   *)
(* the check of the slots and the claim of a task are two steps.           *)
THEOREM SlotsAreBounded == Spec => []SlotsBounded
<1>1. Init => SlotsInv
  <2>1. SUFFICES ASSUME Init PROVE SlotsInv
    OBVIOUS
  <2>2. running["worker"] = {} /\ Busy = {}
    BY <2>1 DEF Init, Processes, Busy, IdlePoll
  <2>3. /\ IsFiniteSet(running["worker"])
        /\ Cardinality(running["worker"]) = 0 /\ Cardinality(Busy) = 0
    BY <2>2, FS_EmptySet
  <2>4. Cardinality(Polls) \in Nat /\ MaxConcurrent \in Nat \ {0}
    BY ExecutorAssumption, FS_CardinalityType
  <2> QED
    BY <2>3, <2>4 DEF SlotsInv, SlotsBounded, Busy
<1>2. Types /\ SlotsInv /\ [Next]_vars => (Types /\ SlotsInv)'
  BY TypesStep, SlotsStep
<1>3. SlotsInv => SlotsBounded
  BY DEF SlotsInv
<1> QED
  BY <1>1, <1>2, <1>3, TypesInit, PTL DEF Spec

(***************************************************************************)
(* Budgets.                                                                *)
(***************************************************************************)
(* A step that leaves agent a's charges, budget and log rows alone, or     *)
(* drops a heartbeat.                                                      *)
LEMMA BudgetKept ==
    ASSUME NEW a \in Agents, BudgetOf(a), used'[a] = used[a], billed'[a] = billed[a],
           charges'[a] = charges[a], agent[a] = "gone" => agent'[a] = "gone",
           \A r \in Runs : /\ Charging(r, a)' <=> Charging(r, a)
                           /\ Charging(r, a) => /\ run'[r].read = run[r].read
                                                /\ run'[r].cost = run[r].cost,
           \A b \in Beats : Adding(b, a)' => Adding(b, a) /\ beat'[b].read = beat[b].read
    PROVE  BudgetOf(a)'
<1>1. OneCharge(a)'
  BY DEF BudgetOf, OneCharge
<1>2. Balanced(a) => Balanced(a)'
  BY DEF Balanced
<1> QED
  BY <1>1, <1>2 DEF BudgetOf

LEMMA BudgetLog ==
    ASSUME Types, NEW a \in Agents, a \notin skewed', BudgetOf(a), NEW r \in Runs,
           LogAndReadBudget(r), run[r].task \in Tasks
    PROVE  BudgetOf(a)'
<1> USE DEF budget
<1> DEFINE b == AgentOf[run[r].task]
<1>1. /\ run \in [Runs -> RunRecord] /\ b \in Agents
      /\ used \in [Agents -> Nat] /\ billed \in [Agents -> Nat] /\ charges \in [Agents -> Nat]
  BY ExecutorAssumption DEF Types, DbTypes, PastTypes
<1>2. /\ UNCHANGED <<agent, used, beat>> /\ run[r].pc = "log"
      /\ \A s \in Runs \ {r} : run'[s] = run[s]
  BY <1>1 DEF LogAndReadBudget
<1>3. CASE agent[b] = "gone"
  <2>1. UNCHANGED <<billed, charges>> /\ run'[r].pc = "free"
    BY <1>1, <1>3 DEF LogAndReadBudget, FreeRun
  <2> QED
    BY <1>2, <2>1, BudgetKept DEF Charging, Adding
<1>4. CASE agent[b] # "gone"
  <2>1. PICK c \in Costs :
           /\ billed' = [billed EXCEPT ![b] = @ + ToCost(c)]
           /\ run' = [run EXCEPT ![r].pc = "charge", ![r].cost = c, ![r].read = used[b]]
    BY <1>4 DEF LogAndReadBudget
  <2>2. /\ run'[r].pc = "charge" /\ run'[r].cost = c /\ run'[r].read = used[b]
        /\ run'[r].task = run[r].task
    BY <1>1, <2>1 DEF RunRecord
  <2>3. charges' = [charges EXCEPT ![b] = @ + 1] /\ ReadBeside(b)
    BY <1>4 DEF LogAndReadBudget
  <2>4. CASE b # a
    <3>1. billed'[a] = billed[a] /\ charges'[a] = charges[a]
      BY <1>1, <2>1, <2>3, <2>4
    <3>2. ~Charging(r, a)' /\ ~Charging(r, a)
      BY <1>2, <2>2, <2>4 DEF Charging
    <3> QED
      BY <1>2, <3>1, <3>2, BudgetKept DEF Charging, Adding
  <2>5. CASE b = a
    <3>1. (\A s \in Runs : ~Charging(s, a)) /\ (\A e \in Beats : ~Adding(e, a))
      BY <2>3, <2>5 DEF ReadBeside
    <3>2. /\ \A s \in Runs : Charging(s, a)' <=> s = r
          /\ \A e \in Beats : ~Adding(e, a)'
      BY <1>2, <2>2, <2>5, <3>1 DEF Charging, Adding
    <3>3. OneCharge(a)'
      BY <1>2, <2>2, <2>5, <3>2 DEF OneCharge
    <3>4. Within(used[a] - billed[a], 5050 * charges[a])
      BY <1>4, <2>5, <3>1 DEF BudgetOf, Balanced
    <3>5. /\ used[a] \in Nat /\ billed[a] \in Nat /\ charges[a] \in Nat
          /\ c \in Nat /\ ToCost(c) \in Nat /\ Within(ToCost(c) - c, 50)
      BY <1>1, RoundingTypes
    <3>6. /\ billed'[a] = billed[a] + ToCost(c) /\ charges'[a] = charges[a] + 1
          /\ used'[a] = used[a]
      BY <1>1, <1>2, <2>1, <2>3, <2>5
    <3>7. Within(used'[a] + c - billed'[a], 5050 * charges'[a] - 5000)
      BY <3>4, <3>5, <3>6 DEF Within
    <3>8. Balanced(a)'
      BY <2>2, <3>2, <3>7 DEF Balanced
    <3> QED
      BY <3>3, <3>8 DEF BudgetOf
  <2> QED
    BY <2>4, <2>5
<1> QED
  BY <1>3, <1>4

LEMMA BudgetCharge ==
    ASSUME Types, NEW a \in Agents, BudgetOf(a), NEW r \in Runs, ChargeBudget(r),
           run[r].task \in Tasks
    PROVE  BudgetOf(a)'
<1> USE DEF hist
<1> DEFINE b == AgentOf[run[r].task]
<1>1. /\ run \in [Runs -> RunRecord] /\ b \in Agents
      /\ used \in [Agents -> Nat] /\ billed \in [Agents -> Nat] /\ charges \in [Agents -> Nat]
  BY ExecutorAssumption DEF Types, DbTypes, PastTypes
<1>2. /\ UNCHANGED <<agent, billed, charges, beat>>
      /\ used' = IF agent[b] = "gone" THEN used
                 ELSE [used EXCEPT ![b] = ToBudget(run[r].read + run[r].cost)]
      /\ run[r].pc = "charge" /\ run'[r].pc = "free"
      /\ \A s \in Runs \ {r} : run'[s] = run[s]
  BY <1>1 DEF ChargeBudget, FreeRun
<1>3. CASE b # a
  <2>1. used'[a] = used[a]
    BY <1>1, <1>2, <1>3
  <2> QED
    BY <1>2, <1>3, <2>1, BudgetKept DEF Charging, Adding
<1>4. CASE b = a
  <2>1. Charging(r, a) /\ run[r].read = used[a]
    BY <1>2, <1>4 DEF Charging, BudgetOf, OneCharge
  <2>2. /\ \A s \in Runs : ~Charging(s, a)'
        /\ \A e \in Beats : ~Adding(e, a)'
    BY <1>2, <2>1 DEF BudgetOf, OneCharge, Charging, Adding
  <2>3. OneCharge(a)'
    BY <2>2 DEF OneCharge
  <2>4. ASSUME agent'[a] # "gone" PROVE Balanced(a)'
    <3>1. Within(used[a] + run[r].cost - billed[a], 5050 * charges[a] - 5000)
      BY <1>2, <2>1, <2>4 DEF BudgetOf, Balanced
    <3>2. used'[a] = ToBudget(used[a] + run[r].cost)
      BY <1>1, <1>2, <1>4, <2>1, <2>4
    <3>3. /\ used[a] \in Nat /\ billed[a] \in Nat /\ charges[a] \in Nat
          /\ run[r].cost \in Nat
      BY <1>1 DEF RunRecord
    <3>4. used[a] + run[r].cost \in Nat
      BY <3>3
    <3>5. /\ used'[a] \in Nat
          /\ Within(used'[a] - (used[a] + run[r].cost), 5000)
      BY <3>2, <3>4, RoundingTypes
    <3>6. Within(used'[a] - billed'[a], 5050 * charges'[a])
      BY <1>2, <3>1, <3>3, <3>5 DEF Within
    <3> QED
      BY <2>2, <3>6 DEF Balanced
  <2> QED
    BY <2>3, <2>4 DEF BudgetOf
<1> QED
  BY <1>3, <1>4

LEMMA BudgetRun ==
    ASSUME Types, NEW a \in Agents, a \notin skewed', BudgetOf(a), NEW r \in Runs,
           RunStep(r)
    PROVE  BudgetOf(a)'
<1> USE DEF db, hist, budget
<1>1. /\ run \in [Runs -> RunRecord] /\ billed \in [Agents -> Nat]
  BY DEF Types, DbTypes
<1>2. run[r].task \in Tasks
  BY DEF RunStep, Settle, LoopEnds, MarkCompleted, LogAndReadBudget, ChargeBudget, MarkFailed,
         OrphanEnds, SetupThrows, OutcomeLost, ChargeLost, Types, Shape, FreeRun
<1>3. CASE \/ LoopEnds(r) \/ MarkCompleted(r) \/ MarkFailed(r) \/ OrphanEnds(r)
           \/ OutcomeLost(r) \/ SetupThrows(r)
  <2>1. /\ UNCHANGED <<agent, used, billed, charges, beat>>
        /\ run[r].pc # "charge" /\ run'[r].pc # "charge"
        /\ \A s \in Runs \ {r} : run'[s] = run[s]
    BY <1>1, <1>3 DEF LoopEnds, MarkCompleted, MarkFailed, OrphanEnds, OutcomeLost, SetupThrows,
                      Failed, FreeRun, RunRecord
  <2> QED
    BY <2>1, BudgetKept DEF Charging, Adding
<1>4. CASE ChargeLost(r)
  <2> DEFINE b == AgentOf[run[r].task]
  <2>1. /\ UNCHANGED <<agent, used, charges, beat>> /\ b # a
        /\ \A s \in Runs \ {r} : run'[s] = run[s]
    BY <1>1, <1>4 DEF ChargeLost
  <2>2. run'[r].task = run[r].task \/ run'[r] = FreeRun
    BY <1>1, <1>4, Charged DEF ChargeLost
  <2>3. ~Charging(r, a) /\ ~Charging(r, a)'
    BY <2>1, <2>2 DEF Charging, FreeRun
  <2>4. billed'[a] = billed[a]
    BY <1>1, <1>4, <2>1 DEF ChargeLost
  <2> QED
    BY <2>1, <2>3, <2>4, BudgetKept DEF Charging, Adding
<1> QED
  BY <1>2, <1>3, <1>4, BudgetLog, BudgetCharge DEF RunStep, Settle

LEMMA BudgetBeat ==
    ASSUME Types, NEW a \in Agents, a \notin skewed', BudgetOf(a), BeatStep
    PROVE  BudgetOf(a)'
<1> USE DEF db, hist, budget
<1>1. /\ used \in [Agents -> Nat] /\ billed \in [Agents -> Nat] /\ charges \in [Agents -> Nat]
      /\ beat \in [Beats -> BeatRecord] /\ agent \in [Agents -> AgentStatus]
      /\ run' = run
  BY BeatFrame DEF Types, DbTypes, PastTypes
<1>2. ASSUME NEW x \in Agents, NEW s \in BeatStatus, BeatSets(x, s)
      PROVE  agent[a] = "gone" <=> agent'[a] = "gone"
  BY <1>1, <1>2, ExecutorAssumption DEF BeatSets, AgentStatus
<1>3. ASSUME NEW x \in Agents, NEW s \in BeatStatus, NEW c \in Costs, NEW b \in Beats,
             BeatRead(b, x, s, c)
      PROVE  BudgetOf(a)'
  <2>1. /\ UNCHANGED <<agent, used, billed, charges>> /\ ReadBeside(x)
        /\ beat[b].pc = "idle"
        /\ beat'[b] = [pc |-> "write", agent |-> x, to |-> s, cost |-> c, read |-> used[x]]
        /\ \A e \in Beats \ {b} : beat'[e] = beat[e]
    BY <1>1, <1>3 DEF BeatRead
  <2>2. CASE x # a
    <3>1. \A e \in Beats : Adding(e, a)' => Adding(e, a) /\ beat'[e].read = beat[e].read
      BY <2>1, <2>2 DEF Adding
    <3> QED
      BY <1>1, <2>1, <3>1, BudgetKept DEF Charging
  <2>3. CASE x = a
    <3>1. (\A r \in Runs : ~Charging(r, a)) /\ (\A e \in Beats : ~Adding(e, a))
      BY <2>1, <2>3 DEF ReadBeside
    <3>2. /\ \A r \in Runs : ~Charging(r, a)'
          /\ \A e \in Beats : Adding(e, a)' => e = b
      BY <1>1, <2>1, <3>1 DEF Charging, Adding
    <3>3. OneCharge(a)'
      BY <2>1, <2>3, <3>2 DEF OneCharge
    <3>4. Balanced(a) => Balanced(a)'
      BY <2>1, <3>1, <3>2 DEF Balanced
    <3> QED
      BY <2>1, <3>3, <3>4 DEF BudgetOf
  <2> QED
    BY <2>2, <2>3
<1>4. ASSUME NEW b \in Beats, beat[b].pc = "write"
      PROVE  /\ beat[b].agent \in Agents /\ beat[b].to \in BeatStatus
             /\ beat[b].cost \in Nat /\ beat[b].read \in Nat
  BY <1>1, <1>4 DEF BeatRecord, WriteBeat
<1>5. ASSUME NEW b \in Beats, BeatWrite(b) PROVE BudgetOf(a)'
  <2> DEFINE x == beat[b].agent
  <2>1. /\ beat[b].pc = "write" /\ x \in Agents /\ beat'[b].pc = "idle"
        /\ \A e \in Beats \ {b} : beat'[e] = beat[e]
        /\ agent[a] = "gone" <=> agent'[a] = "gone"
    BY <1>1, <1>2, <1>4, <1>5 DEF BeatWrite
  <2>2. CASE x # a
    <3>1. used'[a] = used[a] /\ billed'[a] = billed[a] /\ charges'[a] = charges[a]
      BY <1>1, <1>5, <2>1, <2>2 DEF BeatWrite, BeatAdds, BeatLogs
    <3>2. \A e \in Beats : Adding(e, a)' => Adding(e, a) /\ beat'[e].read = beat[e].read
      BY <2>1 DEF Adding
    <3> QED
      BY <1>1, <2>1, <3>1, <3>2, BudgetKept DEF Charging
  <2>3. CASE x = a
    <3>1. Adding(b, a)
      BY <2>1, <2>3 DEF Adding
    <3>2. /\ beat[b].read = used[a] /\ \A r \in Runs : ~Charging(r, a)'
          /\ \A e \in Beats : ~Adding(e, a)'
      BY <1>1, <2>1, <3>1 DEF BudgetOf, OneCharge, Charging, Adding
    <3>3. OneCharge(a)'
      BY <3>2 DEF OneCharge
    <3>4. ASSUME agent'[a] # "gone" PROVE Balanced(a)'
      <4>1. Within(used[a] - billed[a], 5050 * charges[a])
        BY <1>1, <2>1, <3>2, <3>4 DEF BudgetOf, Balanced, Charging
      <4> DEFINE c == beat[b].cost
      <4>2. /\ used'[a] = ToBudget(used[a] + c) /\ billed'[a] = billed[a] + ToCost(c)
            /\ charges'[a] = charges[a] + 1
        BY <1>1, <1>5, <2>1, <2>3, <3>2, <3>4 DEF BeatWrite, BeatAdds, BeatLogs
      <4>3. used[a] \in Nat /\ billed[a] \in Nat /\ charges[a] \in Nat /\ c \in Nat
        BY <1>1, <1>4, <2>1
      <4>4. used[a] + c \in Nat
        BY <4>3
      <4>5. used'[a] \in Nat /\ Within(used'[a] - (used[a] + c), 5000)
        BY <4>2, <4>4, RoundingTypes
      <4>6. ToCost(c) \in Nat /\ Within(ToCost(c) - c, 50)
        BY <4>3 DEF ToCost, Within
      <4>7. Within(used'[a] - billed'[a], 5050 * charges'[a])
        <5> HIDE DEF c
        <5> QED
          BY <4>1, <4>2, <4>3, <4>5, <4>6 DEF Within
      <4> QED
        BY <3>2, <4>7 DEF Balanced
    <3> QED
      BY <3>3, <3>4 DEF BudgetOf
  <2> QED
    BY <2>2, <2>3
<1>6. ASSUME NEW b \in Beats, BeatLost(b) PROVE BudgetOf(a)'
  <2>1. /\ beat[b].pc = "write" /\ beat'[b].pc = "idle"
        /\ \A e \in Beats \ {b} : beat'[e] = beat[e]
        /\ UNCHANGED <<billed, charges>>
    BY <1>1, <1>6 DEF BeatLost
  <2>2. used'[a] = used[a] /\ (agent[a] = "gone" => agent'[a] = "gone")
    BY <1>1, <1>2, <1>4, <1>6, <2>1 DEF BeatLost, BeatAdds
  <2>3. \A e \in Beats : Adding(e, a)' => Adding(e, a) /\ beat'[e].read = beat[e].read
    BY <2>1 DEF Adding
  <2> QED
    BY <1>1, <2>1, <2>2, <2>3, BudgetKept DEF Charging
<1>7. ASSUME NEW x \in Agents, NEW s \in BeatStatus, NEW c \in Costs, BeatUncharged(x, s, c)
      PROVE  BudgetOf(a)'
  <2>1. UNCHANGED <<used, beat>> /\ x # a
    BY <1>7 DEF BeatUncharged
  <2>2. billed'[a] = billed[a] /\ charges'[a] = charges[a]
        /\ (agent[a] = "gone" => agent'[a] = "gone")
    BY <1>1, <1>2, <1>7, <2>1 DEF BeatUncharged, BeatLogs
  <2> QED
    BY <1>1, <2>1, <2>2, BudgetKept DEF Charging, Adding
<1> QED
  BY <1>3, <1>5, <1>6, <1>7 DEF BeatStep

LEMMA BudgetStep == ASSUME Types, BudgetInv, [Next]_vars PROVE BudgetInv'
<1> USE DEF db, hist, budget
<1>1. SUFFICES ASSUME NEW a \in Agents, a \notin skewed' PROVE BudgetOf(a)'
  BY DEF BudgetInv
<1>2. /\ BudgetOf(a)
      /\ run \in [Runs -> RunRecord] /\ agent \in [Agents -> AgentStatus]
  BY <1>1, PastGrows DEF BudgetInv, Types, DbTypes
<1>3. CASE UNCHANGED <<agent, used, billed, charges, run, beat>>
  BY <1>2, <1>3, BudgetKept DEF Charging, Adding
<1>4. ASSUME NEW r \in Runs, NEW t \in Tasks, NEW proc \in Processes, Launch(r, t, proc),
             UNCHANGED <<agent, used, billed, charges, beat>>
      PROVE  BudgetOf(a)'
  <2>1. /\ run[r].pc # "charge" /\ run'[r].pc # "charge"
        /\ \A s \in Runs \ {r} : run'[s] = run[s]
    BY <1>2, <1>4 DEF Launch, FreeRun
  <2> QED
    BY <1>2, <1>4, <2>1, BudgetKept DEF Charging, Adding
<1>5. ASSUME NEW p \in Polls, Poll(p) \/ PollCallLost(p) PROVE BudgetOf(a)'
  <2>1. CASE StartPoll(p) \/ ScanRow(p) \/ ClaimTask(p) \/ PollCallLost(p)
    BY <1>3, <2>1 DEF StartPoll, ScanRow, ClaimTask, PollCallLost
  <2>2. ASSUME NEW r \in Runs, LaunchClaimed(p, r) PROVE BudgetOf(a)'
    <3>1. poll[p].task \in Tasks
      BY <2>2 DEF LaunchClaimed, Types, Shape
    <3> QED
      BY <1>4, <2>2, <3>1 DEF LaunchClaimed, Processes
  <2> QED
    BY <1>5, <2>1, <2>2 DEF Poll
<1>6. ASSUME NEW h \in Hands, Request(h) \/ HandCallLost(h) PROVE BudgetOf(a)'
  <2>1. CASE ReadByHand(h) \/ ClaimByHand(h) \/ HandCallLost(h)
    BY <1>3, <2>1 DEF ReadByHand, ClaimByHand, HandCallLost
  <2>2. ASSUME NEW r \in Runs, LaunchByHand(h, r) PROVE BudgetOf(a)'
    <3>1. hand[h].task \in Tasks
      BY <2>2 DEF LaunchByHand, Types, Shape, PastTypes
    <3> QED
      BY <1>4, <2>2, <3>1 DEF LaunchByHand, Processes
  <2> QED
    BY <1>6, <2>1, <2>2 DEF Request
<1>7. CASE \/ \E t \in Tasks : \/ CreateTask(t)
                               \/ \E s \in Edits : EditTask(t, s)
                               \/ \E h \in Hands : AskToRun(h, t)
           \/ \E x \in Agents, s \in AgentStatus : SetAgent(x, s)
  <2>1. UNCHANGED <<used, billed, charges, run, beat>>
        /\ (agent[a] = "gone" => agent'[a] = "gone")
    BY <1>2, <1>7 DEF CreateTask, EditTask, AskToRun, SetAgent
  <2> QED
    BY <1>2, <2>1, BudgetKept DEF Charging, Adding
<1>8. ASSUME NEW proc \in Processes, Crash(proc) PROVE BudgetOf(a)'
  <2>1. UNCHANGED <<agent, used, billed, charges>>
    BY <1>8 DEF Crash
  <2>2. ASSUME NEW r \in Runs
        PROVE  /\ Charging(r, a)' <=> Charging(r, a)
               /\ Charging(r, a) => run'[r].read = run[r].read /\ run'[r].cost = run[r].cost
    <3>1. run'[r] = IF run[r].proc = proc THEN FreeRun ELSE run[r]
      BY <1>8 DEF Crash
    <3>2. Charging(r, a) => run[r].proc # proc
      BY <1>1, <1>8 DEF Crash, Charging
    <3> QED
      BY <3>1, <3>2 DEF Charging, FreeRun
  <2>3. \A b \in Beats : Adding(b, a)' => Adding(b, a) /\ beat'[b].read = beat[b].read
    BY <1>8 DEF Crash, Adding
  <2> QED
    BY <1>2, <2>1, <2>2, <2>3, BudgetKept
<1>9. CASE UNCHANGED vars
  BY <1>3, <1>9 DEF vars
<1>10. CASE BeatStep
  BY <1>1, <1>2, <1>10, BudgetBeat
<1>11. ASSUME NEW r \in Runs, RunStep(r) PROVE BudgetOf(a)'
  BY <1>1, <1>2, <1>11, BudgetRun
<1> QED
  BY <1>1, <1>5, <1>6, <1>7, <1>8, <1>9, <1>10, <1>11
  DEF Next, Owner, Faults, RunStep, BeatStep

(* The budget of an agent differs from what its log rows add up to by the  *)
(* rounding of the two columns at most, whatever runs and heartbeats do,   *)
(* unless the agent was deleted, two of its charges overlapped between     *)
(* read and write, one lost a call or one died halfway.                    *)
THEOREM BudgetAccountsForActivity == Spec => []BudgetMatchesActivity
<1>1. Types /\ BudgetInv => BudgetMatchesActivity
  <2>1. SUFFICES ASSUME Types, BudgetInv, NEW a \in Agents, a \notin skewed,
                        agent[a] # "gone", \A r \in Runs : ~Charging(r, a)
                 PROVE  used[a] - billed[a] \in -(5050 * charges[a]) .. 5050 * charges[a]
    BY DEF BudgetMatchesActivity
  <2>2. Within(used[a] - billed[a], 5050 * charges[a])
    BY <2>1 DEF BudgetInv, BudgetOf, Balanced
  <2>3. used[a] \in Nat /\ billed[a] \in Nat /\ charges[a] \in Nat
    BY <2>1 DEF Types, DbTypes, PastTypes
  <2> QED
    BY <2>2, <2>3 DEF Within
<1>2. Types /\ BudgetInv /\ [Next]_vars => (Types /\ BudgetInv)'
  BY TypesStep, BudgetStep
<1>3. Init => Types /\ BudgetInv
  <2>1. ASSUME Init, NEW a \in Agents PROVE BudgetOf(a)
    BY <2>1 DEF Init, BudgetOf, OneCharge, Balanced, Within, Charging, Adding, FreeRun
  <2> QED
    BY <2>1, TypesInit DEF BudgetInv
<1> QED
  BY <1>1, <1>2, <1>3, PTL DEF Spec
===============================================================================
