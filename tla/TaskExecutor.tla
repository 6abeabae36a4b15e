---------------------------- MODULE TaskExecutor ----------------------------
(***************************************************************************)
(* The agent task executor: the worker process polls dashboard_tasks and   *)
(* runs each pending task through a tool loop with a timeout; the API      *)
(* server runs single tasks on an owner's request; the owner edits tasks   *)
(* and switches agents meanwhile.                                          *)
(*                                                                         *)
(* Every database call is one step, and the two processes share only the   *)
(* database: each has a `running` map of its own.  What the tools do is    *)
(* left out; that a loop is still calling them is not.  Two steps that no  *)
(* other step can tell apart from one are one: a log row and the call      *)
(* beside it.  Money is in millionths of a dollar.                         *)
(***************************************************************************)
EXTENDS Integers, FiniteSets

CONSTANTS
    Tasks, Agents,
    AgentOf,        \* [Tasks -> Agents]: agent_id
    Rank,           \* [Tasks -> Nat]: place in ORDER BY priority, created_at
    InitOnline,     \* agents that are online at first, the others offline
    KnownType,      \* agents whose type is in AGENT_TYPE_CONFIGS
    MaxConcurrent,  \* MAX_CONCURRENT
    Lookahead,      \* rows fetched beyond the free slots, 2 in the code
    Polls,          \* poll cycles of the worker in flight at most
    Hands,          \* execute and retry requests in flight at most
    Runs,           \* executions alive at most
    Beats,          \* heartbeats with a cost in flight at most
    BeatStatus,     \* what it makes of the agent's status, "as_is" for none
    Costs,          \* what a run, or the work a heartbeat reports, may cost
    Edits,          \* statuses a PUT may write, "deleted" for a DELETE
    MaxTouches,     \* bound: requests of the owner
    MaxFaults,      \* bound: crashes, calls that fail, throws in the set-up
    NoTask

ASSUME ExecutorAssumption ==
    /\ AgentOf \in [Tasks -> Agents]
    /\ Rank \in [Tasks -> Nat]
    /\ \A t, u \in Tasks : Rank[t] = Rank[u] => t = u
    /\ InitOnline \subseteq Agents /\ KnownType \subseteq Agents
    /\ MaxConcurrent \in Nat \ {0}
    /\ Lookahead \in Nat
    /\ IsFiniteSet(Polls)
    /\ BeatStatus \subseteq {"online", "offline", "as_is"}
    /\ Costs \subseteq Nat
    /\ MaxTouches \in Nat /\ MaxFaults \in Nat
    /\ Edits \subseteq {"pending", "in_progress", "completed", "failed",
                  "cancelled", "deleted"}
    /\ NoTask \notin Tasks

Processes == {"worker", "server"}

VARIABLES
    \* the database
    status,      \* dashboard_tasks.status, "absent" before, "deleted" after
    agent,       \* dashboard_agents.status, "gone" once deleted
    used,        \* dashboard_agents.budget_used_usd
    billed,      \* cost_usd of dashboard_activity, summed by agent, over the
                 \* rows of completed tasks and of heartbeats
    \* the processes
    running,     \* the running map of each process
    poll,        \* poll cycles: position, tasks left of the page, task at hand
    hand,        \* execute and retry requests: position and task
    run,         \* executions: position, task, process, cost, budget as read
    beat,        \* heartbeats: position, agent, status, cost, budget as read
    \* bounds and history
    touches, faults,
    edited,      \* tasks the owner updated or deleted
    byHand,      \* tasks the owner asked to execute or retry
    cut,         \* tasks whose run died with its process, threw in its
                 \* set-up, or lost its update or the answer to its claim
    charges,     \* charges of each agent
    skewed       \* agents of which two charges were between read and write of
                 \* the budget at once, or one lost a call or died halfway

db     == <<status, agent, used, billed>>
budget == <<used, billed, charges, skewed>>
hist   == <<touches, faults, edited, byHand, cut, charges, skewed>>
vars   == <<db, running, poll, hand, run, beat, hist>>

TaskStatus  == {"absent", "pending", "in_progress", "completed", "failed",
                "cancelled", "deleted"}
AgentStatus == {"online", "offline", "gone"}
RunPc  == {"free", "loop", "complete", "log", "charge", "fail", "timed_out",
           "orphan"}

IdlePoll == [pc |-> "idle", page |-> {}, task |-> NoTask]
IdleHand == [pc |-> "idle", task |-> NoTask]
FreeRun  == [pc |-> "free", task |-> NoTask, proc |-> "worker",
             cost |-> 0, read |-> 0]

Init ==
    /\ status  = [t \in Tasks |-> "absent"]
    /\ agent   = [a \in Agents |-> IF a \in InitOnline THEN "online" ELSE "offline"]
    /\ used    = [a \in Agents |-> 0]
    /\ billed  = [a \in Agents |-> 0]
    /\ running = [p \in Processes |-> {}]
    /\ poll    = [p \in Polls |-> IdlePoll]
    /\ hand    = [h \in Hands |-> IdleHand]
    /\ run     = [r \in Runs |-> FreeRun]
    /\ beat    = [b \in Beats |-> [pc |-> "idle"]]
    /\ touches = 0 /\ faults = 0
    /\ edited = {} /\ byHand = {} /\ cut = {}
    /\ charges = [a \in Agents |-> 0] /\ skewed = {}

(* An execution that will still write its task's outcome, and a tool loop  *)
(* that is still calling tools: a timeout ends the first, not the second.  *)
Live(r)      == run[r].pc \notin {"free", "orphan"}
LoopAlive(r) == run[r].pc \in {"loop", "timed_out", "orphan"}

-----------------------------------------------------------------------------
(* The poll cycle of the worker.                                           *)

(* The rows the query returns: pending, with an agent, the first n by      *)
(* priority and age.                                                       *)
Claimable  == {t \in Tasks : status[t] = "pending" /\ agent[AgentOf[t]] # "gone"}
Ahead(t)   == {u \in Claimable : Rank[u] < Rank[t]}
FirstRows(n) == {t \in Claimable : Cardinality(Ahead(t)) < n}

Full == Cardinality(running["worker"]) >= MaxConcurrent

(* A tick of the timer, or the poll at start: nothing keeps a cycle from   *)
(* starting while an earlier one is in flight.                             *)
StartPoll(p) ==
    /\ poll[p].pc = "idle"
    /\ ~Full
    /\ Claimable # {}
    /\ poll' = [poll EXCEPT ![p].pc = "scan", ![p].page =
          FirstRows(MaxConcurrent - Cardinality(running["worker"]) + Lookahead)]
    /\ UNCHANGED <<db, running, hand, run, beat, hist>>

IsNextOf(t, page) == t \in page /\ \A u \in page : Rank[t] <= Rank[u]

CanRun(t) == agent[AgentOf[t]] = "online" /\ AgentOf[t] \in KnownType

(* Mutant: the scan without the check of the slots inside the loop.        *)
ScanRowPastFull(p) ==
    /\ poll[p].pc = "scan"
    /\ \/ /\ poll[p].page = {}
          /\ poll' = [poll EXCEPT ![p] = IdlePoll]
       \/ \E t \in poll[p].page :
             /\ IsNextOf(t, poll[p].page)
             /\ poll' = [poll EXCEPT ![p] =
                   IF t \notin running["worker"] /\ CanRun(t)
                   THEN [pc |-> "claim", page |-> @.page \ {t}, task |-> t]
                   ELSE [@ EXCEPT !.page = poll[p].page \ {t}]]
    /\ UNCHANGED <<db, running, hand, run, beat, hist>>

(* The next row of the page: the loop ends once the slots are taken, skips *)
(* a task it runs already and one whose agent is not online or not known.  *)
ScanRow(p) ==
    /\ poll[p].pc = "scan"
    /\ \/ /\ Full \/ poll[p].page = {}
          /\ poll' = [poll EXCEPT ![p] = IdlePoll]
       \/ /\ ~Full
          /\ \E t \in poll[p].page :
                /\ IsNextOf(t, poll[p].page)
                /\ poll' = [poll EXCEPT ![p] =
                      IF t \notin running["worker"] /\ CanRun(t)
                      THEN [pc |-> "claim", page |-> @.page \ {t}, task |-> t]
                      ELSE [@ EXCEPT !.page = poll[p].page \ {t}]]
    /\ UNCHANGED <<db, running, hand, run, beat, hist>>

(* Mutant: the claim without .eq('status', 'pending').                     *)
ClaimTaskBlindly(p) ==
    /\ poll[p].pc = "claim"
    /\ status' = [status EXCEPT ![poll[p].task] = "in_progress"]
    /\ poll' = [poll EXCEPT ![p].pc = "launch"]
    /\ UNCHANGED <<agent, used, billed, running, hand, run, beat, hist>>

(* The claim: a task that is no longer pending is left alone.              *)
ClaimTask(p) ==
    LET t == poll[p].task IN
    /\ poll[p].pc = "claim"
    /\ \/ /\ status[t] = "pending"
          /\ status' = [status EXCEPT ![t] = "in_progress"]
          /\ poll' = [poll EXCEPT ![p].pc = "launch"]
       \/ /\ status[t] # "pending"
          /\ poll' = [poll EXCEPT ![p].pc = "scan", ![p].task = NoTask]
          /\ UNCHANGED status
    /\ UNCHANGED <<agent, used, billed, running, hand, run, beat, hist>>

(* Mutant: the running map keyed by the agent.                             *)
LaunchKeyedByAgent(r, t, proc) ==
    /\ run[r] = FreeRun
    /\ run' = [run EXCEPT ![r] = [FreeRun EXCEPT !.pc = "loop", !.task = t,
                                                 !.proc = proc]]
    /\ running' = [running EXCEPT ![proc] = @ \cup {AgentOf[t]}]

(* executeTask is started and its promise put in the running map.          *)
Launch(r, t, proc) ==
    /\ run[r] = FreeRun
    /\ run' = [run EXCEPT ![r] = [FreeRun EXCEPT !.pc = "loop", !.task = t,
                                                 !.proc = proc]]
    /\ running' = [running EXCEPT ![proc] = @ \cup {t}]

LaunchClaimed(p, r) ==
    /\ poll[p].pc = "launch"
    /\ Launch(r, poll[p].task, "worker")
    /\ poll' = [poll EXCEPT ![p].pc = "scan", ![p].task = NoTask]
    /\ UNCHANGED <<db, hand, beat, hist>>

-----------------------------------------------------------------------------
(* One execution, in either process.                                       *)

(* Mutant: an error of the loop escapes executeTask and is only logged.    *)
LoopEndsUncaught(r) ==
    /\ run[r].pc = "loop"
    /\ \/ run' = [run EXCEPT ![r].pc = "complete"] /\ UNCHANGED running
       \/ /\ run' = [run EXCEPT ![r] = FreeRun]
          /\ running' = [running EXCEPT ![run[r].proc] = @ \ {run[r].task}]
    /\ UNCHANGED <<db, poll, hand, beat, hist>>

(* The tool loop ends, throws, or loses the race against the timeout, in   *)
(* which case it goes on by itself.                                        *)
LoopEnds(r) ==
    /\ run[r].pc = "loop"
    /\ \E next \in {"complete", "fail", "timed_out"} :
          run' = [run EXCEPT ![r].pc = next]
    /\ UNCHANGED <<db, running, poll, hand, beat, hist>>

OrphanEnds(r) ==
    /\ \/ /\ run[r].pc = "timed_out"
          /\ run' = [run EXCEPT ![r].pc = "fail"]
       \/ /\ run[r].pc = "orphan"
          /\ run' = [run EXCEPT ![r] = FreeRun]
    /\ UNCHANGED <<db, running, poll, hand, beat, hist>>

(* The outcome is written by id alone, whatever the row says now.          *)
Outcome(t, s) ==
    status' = [status EXCEPT ![t] = IF @ = "deleted" THEN @ ELSE s]

(* Mutant: no finally.                                                     *)
KeepTracked(r) == UNCHANGED running

(* The finally of the promise drops the task from the map of its process.  *)
Untrack(r) == running' = [running EXCEPT ![run[r].proc] = @ \ {run[r].task}]

MarkCompleted(r) ==
    /\ run[r].pc = "complete"
    /\ Outcome(run[r].task, "completed")
    /\ run' = [run EXCEPT ![r].pc = "log"]
    /\ UNCHANGED <<agent, used, billed, running, poll, hand, beat, hist>>

(* The budget column keeps cents, the cost of a log row hundredths of one. *)
ToBudget(x) == ((x + 5000) \div 10000) * 10000
ToCost(x)   == ((x + 50) \div 100) * 100

(* The executions and heartbeats of agent a that have read the budget and  *)
(* not written it back.                                                    *)
Charging(r, a) == run[r].pc = "charge" /\ AgentOf[run[r].task] = a
Adding(b, a)   == beat[b].pc = "write" /\ beat[b].agent = a
ReadBeside(a) ==
    skewed' = IF \/ \E r \in Runs : Charging(r, a)
                 \/ \E b \in Beats : Adding(b, a)
              THEN skewed \cup {a} ELSE skewed

(* The activity row with the cost, then the read of the budget: a deleted  *)
(* agent has neither, and is not charged.                                  *)
LogAndReadBudget(r) ==
    LET a == AgentOf[run[r].task] IN
    /\ run[r].pc = "log"
    /\ \/ /\ agent[a] = "gone"
          /\ run' = [run EXCEPT ![r] = FreeRun]
          /\ Untrack(r)
          /\ UNCHANGED budget
       \/ /\ agent[a] # "gone"
          /\ \E c \in Costs :
                /\ billed' = [billed EXCEPT ![a] = @ + ToCost(c)]
                /\ run' = [run EXCEPT ![r].pc = "charge", ![r].cost = c,
                                      ![r].read = used[a]]
          /\ charges' = [charges EXCEPT ![a] = @ + 1]
          /\ ReadBeside(a)
          /\ UNCHANGED <<used, running>>
    /\ UNCHANGED <<status, agent, poll, hand, beat, touches, faults, edited,
                   byHand, cut>>

(* Mutant: the cost replaces the budget instead of being added to it.      *)
OverwriteBudget(r) ==
    /\ run[r].pc = "charge"
    /\ used' = [used EXCEPT ![AgentOf[run[r].task]] = ToBudget(run[r].cost)]
    /\ Untrack(r)
    /\ run' = [run EXCEPT ![r] = FreeRun]
    /\ UNCHANGED <<status, agent, billed, poll, hand, beat, hist>>

ChargeBudget(r) ==
    LET a == AgentOf[run[r].task] IN
    /\ run[r].pc = "charge"
    /\ used' = IF agent[a] = "gone" THEN used
               ELSE [used EXCEPT ![a] = ToBudget(run[r].read + run[r].cost)]
    /\ Untrack(r)
    /\ run' = [run EXCEPT ![r] = FreeRun]
    /\ UNCHANGED <<status, agent, billed, poll, hand, beat, hist>>

(* The loop of a run that timed out is still alive after its failure.      *)
Failed(x) == IF x.pc = "timed_out" THEN [x EXCEPT !.pc = "orphan"] ELSE FreeRun

(* failTask: the failure is written by id alone.                           *)
MarkFailed(r) ==
    /\ run[r].pc \in {"fail", "timed_out"}
    /\ Outcome(run[r].task, "failed")
    /\ Untrack(r)
    /\ run' = [run EXCEPT ![r] = Failed(@)]
    /\ UNCHANGED <<agent, used, billed, poll, hand, beat, hist>>

-----------------------------------------------------------------------------
(* The owner: requests to the API server.                                  *)

Touch == touches < MaxTouches /\ touches' = touches + 1

CreateTask(t) ==
    /\ status[t] = "absent"
    /\ status' = [status EXCEPT ![t] = "pending"]
    /\ UNCHANGED <<agent, used, billed, running, poll, hand, run, beat, hist>>

(* PUT and DELETE of a task: any status is accepted from any other.        *)
EditTask(t, s) ==
    /\ Touch
    /\ status[t] \notin {"absent", "deleted"}
    /\ s # status[t]
    /\ status' = [status EXCEPT ![t] = s]
    /\ edited' = edited \cup {t}
    /\ UNCHANGED <<agent, budget, running, poll, hand, run, beat, faults,
                   byHand, cut>>

(* PATCH of an agent's status, a heartbeat with a status and no cost, and  *)
(* the delete of an agent, whose tasks then have no agent.                 *)
SetAgent(a, s) ==
    /\ Touch
    /\ agent[a] \notin {"gone", s}
    /\ agent' = [agent EXCEPT ![a] = s]
    /\ UNCHANGED <<status, budget, running, poll, hand, run, beat, faults,
                   edited, byHand, cut>>

(* POST execute, and POST retry, which puts a settled task back to pending *)
(* before it does the same.                                                *)
AskToRun(h, t) ==
    /\ Touch
    /\ hand[h].pc = "idle"
    /\ status[t] \notin {"absent", "deleted"}
    /\ \/ UNCHANGED status
       \/ /\ status[t] \in {"failed", "completed"}
          /\ status' = [status EXCEPT ![t] = "pending"]
    /\ hand' = [hand EXCEPT ![h] = [pc |-> "read", task |-> t]]
    /\ byHand' = byHand \cup {t}
    /\ UNCHANGED <<agent, budget, running, poll, run, beat, faults, edited,
                   cut>>

(* A heartbeat with a cost reads the budget ...                            *)
BeatRead(b, a, s, c) ==
    /\ Touch
    /\ beat[b].pc = "idle" /\ agent[a] # "gone"
    /\ beat' = [beat EXCEPT ![b] = [pc |-> "write", agent |-> a, to |-> s,
                                    cost |-> c, read |-> used[a]]]
    /\ ReadBeside(a)
    /\ UNCHANGED <<db, running, poll, hand, run, faults, edited, byHand, cut,
                   charges>>

BeatSets(a, s) ==
    agent' = [agent EXCEPT ![a] = IF @ = "gone" \/ s = "as_is" THEN @ ELSE s]
BeatAdds(b) ==
    LET x == beat[b] IN
    used' = [used EXCEPT ![x.agent] = IF agent[x.agent] = "gone" THEN @
                                      ELSE ToBudget(x.read + x.cost)]
BeatLogs(a, c) ==
    /\ billed' = [billed EXCEPT ![a] = IF agent[a] = "gone" THEN @ ELSE @ + ToCost(c)]
    /\ charges' = [charges EXCEPT ![a] = @ + 1]

(* ... writes it back with the status, and logs its cost.                  *)
BeatWrite(b) ==
    LET x == beat[b] IN
    /\ x.pc = "write"
    /\ BeatSets(x.agent, x.to) /\ BeatAdds(b) /\ BeatLogs(x.agent, x.cost)
    /\ beat' = [beat EXCEPT ![b] = [pc |-> "idle"]]
    /\ UNCHANGED <<status, running, poll, hand, run, touches, faults, edited,
                   byHand, cut, skewed>>

(* executeTaskManually reads the task, this process's map and the agent,   *)
(* which need not be online.                                               *)
ReadByHand(h) ==
    LET t == hand[h].task IN
    /\ hand[h].pc = "read"
    /\ hand' = [hand EXCEPT ![h] =
          IF /\ status[t] # "deleted"
             /\ agent[AgentOf[t]] # "gone"
             /\ t \notin running["server"]
             /\ AgentOf[t] \in KnownType
          THEN [@ EXCEPT !.pc = "claim"] ELSE IdleHand]
    /\ UNCHANGED <<db, running, poll, run, beat, hist>>

(* Its claim is guarded, but whether it matched a row is not looked at.    *)
ClaimByHand(h) ==
    LET t == hand[h].task IN
    /\ hand[h].pc = "claim"
    /\ status' = [status EXCEPT ![t] =
          IF @ \in {"pending", "failed"} THEN "in_progress" ELSE @]
    /\ hand' = [hand EXCEPT ![h].pc = "launch"]
    /\ UNCHANGED <<agent, used, billed, running, poll, run, beat, hist>>

LaunchByHand(h, r) ==
    /\ hand[h].pc = "launch"
    /\ Launch(r, hand[h].task, "server")
    /\ hand' = [hand EXCEPT ![h] = IdleHand]
    /\ UNCHANGED <<db, poll, beat, hist>>

-----------------------------------------------------------------------------
(* Faults.                                                                 *)

Fault == faults < MaxFaults /\ faults' = faults + 1

(* The tasks a process has in hand: claimed, or with an execution alive.   *)
HeldBy(proc) ==
    {run[r].task : r \in {r \in Runs : Live(r) /\ run[r].proc = proc}}
    \cup (IF proc = "worker"
          THEN {poll[p].task : p \in {p \in Polls : poll[p].pc = "launch"}}
          ELSE {hand[h].task : h \in {h \in Hands : hand[h].pc = "launch"}})

(* A process dies and starts again with an empty map.                      *)
Crash(proc) ==
    /\ Fault
    /\ running' = [running EXCEPT ![proc] = {}]
    /\ run' = [r \in Runs |-> IF run[r].proc = proc THEN FreeRun ELSE run[r]]
    /\ IF proc = "worker"
       THEN poll' = [p \in Polls |-> IdlePoll] /\ UNCHANGED <<hand, beat>>
       ELSE /\ hand' = [h \in Hands |-> IdleHand]
            /\ beat' = [b \in Beats |-> [pc |-> "idle"]]
            /\ UNCHANGED poll
    /\ cut' = cut \cup HeldBy(proc)
    /\ skewed' = skewed \cup
          {AgentOf[run[r].task] : r \in {r \in Runs : run[r].pc = "charge"
                                                      /\ run[r].proc = proc}}
    /\ UNCHANGED <<db, touches, edited, byHand, charges>>

(* The tool schemas or the client of the model throw, before the try: the  *)
(* error is logged and the task left as it was claimed.                    *)
SetupThrows(r) ==
    /\ Fault
    /\ run[r].pc = "loop"
    /\ run' = [run EXCEPT ![r] = FreeRun]
    /\ Untrack(r)
    /\ cut' = cut \cup {run[r].task}
    /\ UNCHANGED <<db, poll, hand, beat, touches, edited, byHand, charges, skewed>>

(* A claim that fails leaves the task as it was, or claimed when only its  *)
(* answer is lost.                                                         *)
ClaimLost(t, from) ==
    \/ UNCHANGED <<status, cut>>
    \/ /\ status[t] \in from
       /\ status' = [status EXCEPT ![t] = "in_progress"]
       /\ cut' = cut \cup {t}

(* The read of a row's agent or the claim fails: the cycle skips the row.  *)
PollCallLost(p) ==
    /\ Fault
    /\ \/ /\ poll[p].pc = "scan"
          /\ \E t \in poll[p].page :
                /\ IsNextOf(t, poll[p].page)
                /\ poll' = [poll EXCEPT ![p].page = @ \ {t}]
          /\ UNCHANGED <<status, cut>>
       \/ /\ poll[p].pc = "claim"
          /\ ClaimLost(poll[p].task, {"pending"})
          /\ poll' = [poll EXCEPT ![p].pc = "scan", ![p].task = NoTask]
    /\ UNCHANGED <<agent, budget, running, hand, run, beat, touches, edited, byHand>>

HandCallLost(h) ==
    /\ Fault
    /\ \/ /\ hand[h].pc = "read"
          /\ UNCHANGED <<status, cut>>
       \/ /\ hand[h].pc = "claim"
          /\ ClaimLost(hand[h].task, {"pending", "failed"})
    /\ hand' = [hand EXCEPT ![h] = IdleHand]
    /\ UNCHANGED <<agent, budget, running, poll, run, beat, touches, edited, byHand>>

(* The update of the outcome fails: its error is not looked at.            *)
OutcomeLost(r) ==
    /\ Fault
    /\ \/ /\ run[r].pc = "complete"
          /\ run' = [run EXCEPT ![r].pc = "log"]
          /\ UNCHANGED running
       \/ /\ run[r].pc \in {"fail", "timed_out"}
          /\ run' = [run EXCEPT ![r] = Failed(@)]
          /\ Untrack(r)
    /\ cut' = cut \cup {run[r].task}
    /\ UNCHANGED <<db, poll, hand, beat, touches, edited, byHand, charges, skewed>>

(* The log row, the read or the write of the budget fails: no error is     *)
(* looked at, and without the budget the charge is dropped.                *)
ChargeLost(r) ==
    LET a == AgentOf[run[r].task] IN
    /\ Fault
    /\ \/ /\ run[r].pc = "log"
          /\ \E c \in Costs :
                \/ /\ run' = [run EXCEPT ![r].pc = "charge", ![r].cost = c,
                                         ![r].read = used[a]]
                   /\ UNCHANGED <<billed, running>>
                \/ /\ billed' = [billed EXCEPT ![a] = @ + ToCost(c)]
                   /\ run' = [run EXCEPT ![r] = FreeRun]
                   /\ Untrack(r)
       \/ /\ run[r].pc = "charge"
          /\ run' = [run EXCEPT ![r] = FreeRun]
          /\ Untrack(r)
          /\ UNCHANGED billed
    /\ skewed' = skewed \cup {a}
    /\ UNCHANGED <<status, agent, used, poll, hand, beat, touches, edited, byHand,
                   cut, charges>>

(* The same in a heartbeat: a read that fails leaves the budget out of the *)
(* update, an update that fails ends it, and the error of its row is not   *)
(* looked at.                                                              *)
BeatUncharged(a, s, c) ==
    /\ Fault
    /\ agent[a] # "gone"
    /\ BeatSets(a, s) /\ BeatLogs(a, c)
    /\ skewed' = skewed \cup {a}
    /\ UNCHANGED <<status, used, running, poll, hand, run, beat, touches, edited,
                   byHand, cut>>

BeatLost(b) ==
    LET x == beat[b] IN
    /\ Fault
    /\ x.pc = "write"
    /\ \/ UNCHANGED <<agent, used, skewed>>
       \/ /\ BeatSets(x.agent, x.to) /\ BeatAdds(b)
          /\ skewed' = skewed \cup {x.agent}
    /\ beat' = [beat EXCEPT ![b] = [pc |-> "idle"]]
    /\ UNCHANGED <<status, billed, running, poll, hand, run, touches, edited,
                   byHand, cut, charges>>

-----------------------------------------------------------------------------
Poll(p) == \/ StartPoll(p) \/ ScanRow(p) \/ ClaimTask(p)
           \/ \E r \in Runs : LaunchClaimed(p, r)
Settle(r) == LoopEnds(r) \/ MarkCompleted(r) \/ LogAndReadBudget(r)
             \/ ChargeBudget(r) \/ MarkFailed(r)
Request(h) == \/ ReadByHand(h) \/ ClaimByHand(h)
              \/ \E r \in Runs : LaunchByHand(h, r)
Owner == \/ \E t \in Tasks : \/ CreateTask(t)
                             \/ \E s \in Edits : EditTask(t, s)
                             \/ \E h \in Hands : AskToRun(h, t)
         \/ \E a \in Agents, s \in AgentStatus : SetAgent(a, s)
         \/ \E b \in Beats :
               \/ BeatWrite(b)
               \/ \E a \in Agents, s \in BeatStatus, c \in Costs : BeatRead(b, a, s, c)
Faults == \/ \E proc \in Processes : Crash(proc)
          \/ \E p \in Polls : PollCallLost(p)
          \/ \E h \in Hands : HandCallLost(h)
          \/ \E r \in Runs : SetupThrows(r) \/ OutcomeLost(r) \/ ChargeLost(r)
          \/ \E b \in Beats : BeatLost(b)
          \/ \E a \in Agents, s \in BeatStatus, c \in Costs : BeatUncharged(a, s, c)

Next == \/ \E p \in Polls : Poll(p)
        \/ \E r \in Runs : Settle(r) \/ OrphanEnds(r)
        \/ \E h \in Hands : Request(h)
        \/ Owner
        \/ Faults

(* The poll timer keeps ticking, requests and executions make progress: an *)
(* execution's loop is bounded by its timeout.  An orphaned loop ends too, *)
(* within its iterations.                                                  *)
Fairness == /\ \A p \in Polls : WF_vars(Poll(p))
            /\ \A r \in Runs : WF_vars(Settle(r)) /\ WF_vars(OrphanEnds(r))
            /\ \A h \in Hands : WF_vars(Request(h))

Spec == Init /\ [][Next]_vars /\ Fairness

-----------------------------------------------------------------------------
(* Properties.                                                             *)

(* What dashboard_tasks, dashboard_agents, the running maps and the        *)
(* requests may hold: the CHECKed statuses and the stages of the handlers. *)
TypeOK ==
    /\ status \in [Tasks -> TaskStatus]
    /\ agent \in [Agents -> AgentStatus]
    /\ used \in [Agents -> Nat]
    /\ billed \in [Agents -> Nat]
    /\ running \in [Processes -> SUBSET Tasks]
    /\ poll \in [Polls -> [pc : {"idle", "scan", "claim", "launch"},
                           page : SUBSET Tasks, task : Tasks \cup {NoTask}]]
    /\ hand \in [Hands -> [pc : {"idle", "read", "claim", "launch"},
                           task : Tasks \cup {NoTask}]]
    /\ run \in [Runs -> [pc : RunPc, task : Tasks \cup {NoTask},
                         proc : Processes, cost : Nat, read : Nat]]
    /\ beat \in [Beats -> [pc : {"idle"}] \cup
                  [pc : {"write"}, agent : Agents, to : BeatStatus, cost : Nat,
                   read : Nat]]
    /\ touches \in 0..MaxTouches
    /\ faults \in 0..MaxFaults
    /\ edited \subseteq Tasks /\ byHand \subseteq Tasks /\ cut \subseteq Tasks
    /\ charges \in [Agents -> Nat] /\ skewed \subseteq Agents

Untouched(t) == t \notin edited \cup byHand

(* A task the owner never edited nor started by hand has at most one tool  *)
(* loop calling its tools, a timed-out one included, however many poll     *)
(* cycles overlap and whatever crashed (poll, executeTask).                *)
OneLoopPerTask ==
    \A t \in Tasks : Untouched(t) =>
        Cardinality({p \in Polls : poll[p].pc = "launch" /\ poll[p].task = t}
                    \cup {r \in Runs : run[r].task = t}) <= 1

(* Poll cycles that overlap exceed MAX_CONCURRENT by at most one task for  *)
(* each further cycle, requests by hand notwithstanding (poll).            *)
SlotsBounded ==
    Cardinality(running["worker"])
    + Cardinality({p \in Polls : poll[p].pc \in {"claim", "launch"}})
        <= MaxConcurrent - 1 + Cardinality(Polls)

(* A task is left in_progress with nobody to settle it only if a process   *)
(* died with it, the set-up of its run threw, the update of its outcome or *)
(* the answer to its claim was lost, or the owner wrote the status         *)
(* himself.  Nothing in the code picks such a task up.                     *)
StuckHasCause ==
    \A t \in Tasks \ edited :
        \/ status[t] # "in_progress"
        \/ t \in HeldBy("worker") \cup HeldBy("server")
        \/ t \in cut

(* What an agent's budget says and what its log rows add up to differ by   *)
(* what the two columns round, half a cent and half a hundredth of one for *)
(* each charge, once no run is between its row and its charge: unless two  *)
(* charges of the agent overlapped between read and write, one lost a call *)
(* or died halfway, or the agent was deleted.                              *)
BudgetMatchesActivity ==
    \A a \in Agents :
        \/ a \in skewed \/ agent[a] = "gone" \/ \E r \in Runs : Charging(r, a)
        \/ used[a] - billed[a] \in -(5050 * charges[a]) .. 5050 * charges[a]

(* The outcome of a task the owner does not touch is final: no stale page, *)
(* late execution or restart moves it again.                               *)
OutcomeStands ==
    [][\A t \in Tasks : Untouched(t) /\ Untouched(t)'
          /\ status[t] \in {"completed", "failed"} => status'[t] = status[t]]_vars

(* The window of the query: a task fewer than Lookahead + 1 pending tasks  *)
(* sort before.                                                            *)
Eligible(t) == /\ status[t] = "pending"
               /\ CanRun(t)
               /\ Cardinality(Ahead(t)) <= Lookahead

(* A pending task of an online agent is claimed in the end, as long as no  *)
(* more than Lookahead pending tasks stay ahead of it.  Beyond that, tasks *)
(* of agents that are offline or not executable fill the page for good.    *)
EligibleIsClaimed == \A t \in Tasks : []<>~Eligible(t)

(* Every execution settles its task: the timeout ends the wait for a loop  *)
(* that hangs.                                                             *)
RunsSettle ==
    \A t \in Tasks : (status[t] = "in_progress" /\ t \notin edited)
                        ~> (status[t] # "in_progress" \/ t \in cut \cup edited)
=============================================================================
