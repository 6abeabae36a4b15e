---------------------------- MODULE MemoryWrites ----------------------------
(***************************************************************************)
(* A memory from its store to its enrichment: storeMemory inserts the row, *)
(* its key wraps and an outbox job; pollers claim jobs in batches and run  *)
(* the embed -> link -> extract pipeline under a timeout that does not     *)
(* cancel it; the owner revokes, re-delegates and deletes meanwhile.       *)
(*                                                                         *)
(* Every database write is one step.  supabase-js returns errors instead   *)
(* of throwing them and this code mostly ignores them: a write that is     *)
(* lost is a fault after which the handler goes on.  Text is abstracted:   *)
(* a summary is there or not, a fragment set is counted.                   *)
(***************************************************************************)
EXTENDS Naturals, Sequences, FiniteSets, SequencesExt

CONSTANTS
    Memories,
    Envelopes,    \* memories whose owner has a key: stored encrypted
    Workers,      \* server processes, each with one poller
    Pipes,        \* enrichment pipelines alive at most
    Clients,      \* owner requests in flight at most
    Limit,        \* p_limit of the claim, 20 in the code
    Lease,        \* jobs of one batch that surely end before the claim is
                  \* stale: 15 min over 2 min, 7 in the code
    MaxAttempts,  \* MAX_ATTEMPTS, 6 in the code
    MaxRequests,  \* bound: owner requests
    MaxFaults,    \* bound: crashes, lost calls and overtaken claims
    NoPipe

ASSUME MemoryAssumption ==
    /\ Envelopes \subseteq Memories
    /\ Limit \in Nat \ {0} /\ Lease \in Nat \ {0} /\ MaxAttempts \in Nat \ {0}
    /\ MaxRequests \in Nat /\ MaxFaults \in Nat
    /\ NoPipe \notin Pipes

VARIABLES
    \* the database
    mem,        \* memories rows and their memory_dek_wraps
    job,        \* memory_write_jobs, one per memory
    fragments,  \* complete sets of memory_fragments rows, per memory
    \* the processes
    store,      \* where storeMemory is, per memory
    worker,     \* the poller of each process: its batch and the job at hand
    pipe,       \* runEnrichPipeline or the fire-and-forget triad
    client,     \* revoke and re-delegate requests: what they read
    \* bounds and history
    requests, faults,
    losses,     \* claims of a job that ended without a recorded outcome
    cause       \* what went wrong with each memory, by name

db   == <<mem, job, fragments>>
hist == <<requests, faults, losses, cause>>
vars == <<mem, job, fragments, store, worker, pipe, client, requests, faults,
          losses, cause>>

NoJob    == [status |-> "none", retry |-> FALSE, attempts |-> 0]
NoMemory == [row |-> "absent", encrypted |-> FALSE, wraps |-> {},
             revoked |-> FALSE, summary |-> FALSE, sealed |-> "none",
             embedding |-> FALSE, sealedEmbedding |-> FALSE]
IdleWorker == [at |-> "idle", batch |-> <<>>, pipe |-> NoPipe]

Init ==
    /\ mem = [m \in Memories |-> NoMemory]
    /\ job = [m \in Memories |-> NoJob]
    /\ fragments = [m \in Memories |-> 0]
    /\ store = [m \in Memories |-> "new"]
    /\ worker = [w \in Workers |-> IdleWorker]
    /\ pipe = [p \in Pipes |-> [at |-> "idle"]]
    /\ client = [c \in Clients |-> [at |-> "idle"]]
    /\ requests = 0 /\ faults = 0
    /\ losses = [m \in Memories |-> 0]
    /\ cause = [m \in Memories |-> {}]

Stored(m) == mem[m].row = "stored"

Fault == faults < MaxFaults /\ faults' = faults + 1

Blame(m, c) == cause' = [cause EXCEPT ![m] = @ \cup {c}]

-----------------------------------------------------------------------------
(* storeMemory.  The lexical index is set before the wraps exist, so no    *)
(* revocation can race it: it is left out.                                 *)

Insert(m) ==
    /\ store[m] = "new"
    /\ mem' = [mem EXCEPT ![m].row = "stored", ![m].summary = TRUE,
                          ![m].encrypted = m \in Envelopes]
    /\ store' = [store EXCEPT ![m] = IF m \in Envelopes THEN "wraps"
                                     ELSE "enqueue"]
    /\ UNCHANGED <<job, fragments, worker, pipe, client, hist>>

\* Mutant: the failed wraps are logged and nothing is reverted.
WriteWrapsNoRevert(m) ==
    /\ store[m] = "wraps"
    /\ store' = [store EXCEPT ![m] = "enqueue"]
    /\ \/ /\ mem' = [mem EXCEPT ![m].wraps = IF Stored(m) THEN {"owner", "provider"}
                                              ELSE {}]
          /\ UNCHANGED faults
       \/ Fault /\ UNCHANGED mem
    /\ UNCHANGED <<job, fragments, worker, pipe, client, requests, losses,
                   cause>>

\* A deleted row takes its wraps with it: the insert then fails on the
\* foreign key and the revert updates nothing.
WriteWraps(m) ==
    /\ store[m] = "wraps"
    /\ \/ /\ Stored(m)
          /\ mem' = [mem EXCEPT ![m].wraps = {"owner", "provider"}]
          /\ store' = [store EXCEPT ![m] = "enqueue"]
          /\ UNCHANGED faults
       \/ /\ \/ Fault
             \/ ~Stored(m) /\ UNCHANGED faults
          /\ store' = [store EXCEPT ![m] = "revert"]
          /\ UNCHANGED mem
    /\ UNCHANGED <<job, fragments, worker, pipe, client, requests, losses,
                   cause>>

\* The error of the revert is not looked at.
Revert(m) ==
    /\ store[m] = "revert"
    /\ store' = [store EXCEPT ![m] = "enqueue"]
    /\ \/ /\ mem' = IF Stored(m) THEN [mem EXCEPT ![m].encrypted = FALSE]
                    ELSE mem
          /\ UNCHANGED <<faults, cause>>
       \/ /\ Fault
          /\ Blame(m, "unwrapped")
          /\ UNCHANGED mem
    /\ UNCHANGED <<job, fragments, worker, pipe, client, requests, losses>>

PipesOf(m) == {p \in Pipes : pipe[p].at # "idle" /\ pipe[p].mem = m}

FreePipes == {p \in Pipes : pipe[p].at = "idle"}
FreePipe  == CHOOSE p \in FreePipes : TRUE

\* Two pipelines of one memory are not fenced against each other.
StartPipe(m, w, replace) ==
    /\ FreePipes # {}
    /\ pipe' = [pipe EXCEPT ![FreePipe] =
           [at |-> "embed", mem |-> m, proc |-> w, replace |-> replace]]
    /\ cause' = IF PipesOf(m) = {} THEN cause
                ELSE [cause EXCEPT ![m] = @ \cup {"overlap"}]

\* One job, or the triad at once when the outbox refuses the insert.
Enqueue(m) ==
    /\ store[m] = "enqueue"
    /\ store' = [store EXCEPT ![m] = "stored"]
    /\ \/ /\ Stored(m)
          /\ job' = [job EXCEPT ![m] = [status |-> "pending", retry |-> TRUE,
                                        attempts |-> 0]]
          /\ UNCHANGED <<pipe, faults, cause>>
       \/ /\ \/ Fault
             \/ ~Stored(m) /\ UNCHANGED faults
          /\ \E w \in Workers : StartPipe(m, w, FALSE)
          /\ UNCHANGED job
    /\ UNCHANGED <<mem, fragments, worker, client, requests, losses>>

StoreDies(m) ==
    /\ store[m] \notin {"new", "stored"}
    /\ Fault
    /\ store' = [store EXCEPT ![m] = "stored"]
    /\ cause' = IF store[m] = "enqueue" THEN cause
                ELSE [cause EXCEPT ![m] = @ \cup {"unwrapped"}]
    /\ UNCHANGED <<db, worker, pipe, client, requests, losses>>

-----------------------------------------------------------------------------
(* claim_memory_write_jobs and the sweep of one poller.                    *)

Claims(w)  == ToSet(worker[w].batch)
Holders(m) == {w \in Workers : \E c \in Claims(w) : c.mem = m}

Pending(m) == job[m].status = "pending"
\* Mutant: the claim forgets next_retry_at IS NOT NULL.
DueForever(m) == job[m].status \in {"pending", "failed"}


Due(m)     == job[m].status \in {"pending", "failed"} /\ job[m].retry

\* A claim is stamped once for its whole batch: a job far down a slow batch
\* is stale while its worker is still on the way to it.
Late(m)  == \A w \in Holders(m) :
                \E c \in Claims(w) : c.mem = m /\ c.place > Lease
\* Mutant: the claim has no branch for running jobs.
StaleIgnored(m) == FALSE


Stale(m) == job[m].status = "running" /\ Late(m)

Batches == {s \in SeqOf({m \in Memories : Due(m) \/ Stale(m)}, Limit) :
                /\ s # <<>>
                /\ IsInjective(s)
                /\ Len(s) < Limit =>
                       {m \in Memories : Pending(m)} \subseteq ToSet(s)}

Overtaken(S) == {m \in S : Holders(m) # {}}

Sweep(w) ==
    /\ worker[w].at = "idle"
    /\ \E s \in Batches :
        LET taken == Overtaken(ToSet(s)) IN
        /\ job' = [m \in Memories |->
               IF m \in ToSet(s)
               THEN [job[m] EXCEPT !.status = "running", !.attempts = @ + 1]
               ELSE job[m]]
        /\ worker' = [worker EXCEPT ![w] =
               [at |-> "job", pipe |-> NoPipe,
                batch |-> [i \in 1..Len(s) |->
                    [mem |-> s[i], place |-> i,
                     attempts |-> job[s[i]].attempts + 1]]]]
        /\ faults + Cardinality(taken) <= MaxFaults
        /\ faults' = faults + Cardinality(taken)
        /\ losses' = [m \in Memories |->
               IF m \in taken THEN losses[m] + 1 ELSE losses[m]]
        /\ cause' = [m \in Memories |->
               IF m \in taken THEN cause[m] \cup {"overtaken"} ELSE cause[m]]
    /\ UNCHANGED <<mem, fragments, store, pipe, client, requests>>

InHand(w) == Head(worker[w].batch)

\* Mutant: content that cannot be decrypted is taken as it is.
ReadableAnyway(m) == Stored(m)


Readable(m) == Stored(m) /\ (mem[m].encrypted => "provider" \in mem[m].wraps)

\* rehydrateOpts: row and wrap are read in one step.  A failed read gives no
\* row, or no wrap, exactly as a deleted or a revoked memory does.
Rehydrate(w) ==
    LET m == InHand(w).mem IN
    /\ worker[w].at = "job"
    /\ \/ /\ Readable(m)
          /\ StartPipe(m, w, TRUE)
          /\ worker' = [worker EXCEPT ![w].at = "running",
                                      ![w].pipe = FreePipe]
          /\ UNCHANGED faults
       \/ /\ \/ Fault
             \/ ~Readable(m) /\ UNCHANGED faults
          /\ worker' = [worker EXCEPT ![w].at = "done"]
          /\ Blame(m, "unembedded")
          /\ UNCHANGED pipe
    /\ UNCHANGED <<db, store, client, requests, losses>>

\* Mutant: the timeout resolves the race instead of rejecting it.
TimesOutQuietly(w) ==
    /\ worker[w].at = "running"
    /\ worker' = [worker EXCEPT ![w].at = "done", ![w].pipe = NoPipe]
    /\ UNCHANGED <<db, store, pipe, client, hist>>


\* The race is lost, the pipeline goes on.
TimesOut(w) ==
    /\ worker[w].at = "running"
    /\ worker' = [worker EXCEPT ![w].at = "failed", ![w].pipe = NoPipe]
    /\ UNCHANGED <<db, store, pipe, client, hist>>

NextJob(w) ==
    worker' = [worker EXCEPT ![w] =
        IF Len(@.batch) = 1 THEN IdleWorker
        ELSE [at |-> "job", batch |-> Tail(@.batch), pipe |-> NoPipe]]

\* The outcome goes by the job's id alone, whoever holds the claim now.
MarkDone(m) == job' = [job EXCEPT ![m].status = "done"]

\* Mutant: one attempt too many.
MarkFailedOneMore(c) ==
    job' = [job EXCEPT ![c.mem].status = "failed",
                       ![c.mem].retry = c.attempts <= MaxAttempts]


MarkFailed(c) ==
    job' = [job EXCEPT ![c.mem].status = "failed",
                       ![c.mem].retry = c.attempts < MaxAttempts]

RecordDone(w) ==
    LET m == InHand(w).mem IN
    /\ worker[w].at = "done"
    /\ IF job[m] = NoJob THEN UNCHANGED job ELSE MarkDone(m)
    /\ NextJob(w)
    /\ UNCHANGED <<mem, fragments, store, pipe, client, hist>>

RecordFailed(w) ==
    LET c == InHand(w) IN
    /\ worker[w].at = "failed"
    /\ IF job[c.mem] = NoJob THEN UNCHANGED job ELSE MarkFailed(c)
    /\ NextJob(w)
    /\ UNCHANGED <<mem, fragments, store, pipe, client, hist>>

\* The update is lost: the job stays running until its claim is stale.
LoseOutcome(w) ==
    LET m == InHand(w).mem IN
    /\ worker[w].at \in {"done", "failed"}
    /\ Fault
    /\ losses' = [losses EXCEPT ![m] = @ + 1]
    /\ NextJob(w)
    /\ UNCHANGED <<db, store, pipe, client, requests, cause>>

\* The process dies with its batch and its pipelines.
WorkerDies(w) ==
    /\ worker[w].at # "idle"
    /\ Fault
    /\ worker' = [worker EXCEPT ![w] = IdleWorker]
    /\ pipe' = [p \in Pipes |-> IF pipe[p].at # "idle" /\ pipe[p].proc = w
                                THEN [at |-> "idle"] ELSE pipe[p]]
    /\ losses' = [m \in Memories |-> IF w \in Holders(m) THEN losses[m] + 1
                                     ELSE losses[m]]
    /\ UNCHANGED <<db, store, client, requests, cause>>

-----------------------------------------------------------------------------
(* embedMemory, then the links and the entities.                           *)

Step(p, next) == pipe' = [pipe EXCEPT ![p].at = next]

\* A provider that refuses, by a 429 say, gives no embedding, and no error.
\* The call and the write of its answer are one step: the text is in hand
\* before both.
Embed(p) ==
    LET m == pipe[p].mem IN
    /\ pipe[p].at = "embed"
    /\ \/ /\ mem' = IF Stored(m) THEN [mem EXCEPT ![m].embedding = TRUE]
                    ELSE mem
          /\ Step(p, IF pipe[p].replace THEN "clear" ELSE "insert")
          /\ UNCHANGED <<faults, cause>>
       \/ /\ Fault /\ Blame(m, "unembedded")
          /\ \/ Step(p, "link")
             \/ Step(p, IF pipe[p].replace THEN "clear" ELSE "insert")
          /\ UNCHANGED mem
    /\ UNCHANGED <<job, fragments, store, worker, client, requests, losses>>

\* Mutant: the plain insert of the fire-and-forget path, in the worker.
KeepFragments(p) ==
    /\ pipe[p].at = "clear"
    /\ Step(p, "insert")
    /\ UNCHANGED <<db, store, worker, client, hist>>


ClearFragments(p) ==
    LET m == pipe[p].mem IN
    /\ pipe[p].at = "clear"
    /\ Step(p, "insert")
    /\ \/ fragments' = [fragments EXCEPT ![m] = 0] /\ UNCHANGED <<faults, cause>>
       \/ Fault /\ Blame(m, "uncleared") /\ UNCHANGED fragments
    /\ UNCHANGED <<mem, job, store, worker, client, requests, losses>>

InsertFragments(p) ==
    LET m == pipe[p].mem IN
    /\ pipe[p].at = "insert"
    /\ Step(p, "link")
    /\ \/ /\ fragments' = IF Stored(m) THEN [fragments EXCEPT ![m] = @ + 1]
                          ELSE fragments
          /\ UNCHANGED <<faults, cause>>
       \/ Fault /\ Blame(m, "unembedded") /\ UNCHANGED fragments
    /\ UNCHANGED <<mem, job, store, worker, client, requests, losses>>

\* Links and entities are upserts whose errors are swallowed.
PipeEnds(p) ==
    /\ pipe[p].at = "link"
    /\ pipe' = [pipe EXCEPT ![p] = [at |-> "idle"]]
    /\ worker' = [w \in Workers |->
           IF worker[w].pipe = p
           THEN [worker[w] EXCEPT !.at = "done", !.pipe = NoPipe]
           ELSE worker[w]]
    /\ UNCHANGED <<db, store, client, hist>>

PipeStep(p) ==
    \/ Embed(p) \/ ClearFragments(p) \/ InsertFragments(p) \/ PipeEnds(p)

-----------------------------------------------------------------------------
(* The owner: revokeMemory, redelegateMemory, deleteMemory.  The reads and *)
(* the RPC are apart; the RPC writes what was read.                        *)

Request == requests < MaxRequests /\ requests' = requests + 1

ReadToRevoke(c, m) ==
    /\ client[c].at = "idle"
    /\ Request
    /\ Stored(m) /\ mem[m].encrypted /\ ~mem[m].revoked
    /\ "provider" \in mem[m].wraps
    /\ client' = [client EXCEPT ![c] = [at |-> "revoke", mem |-> m,
           summary |-> mem[m].summary, embedding |-> mem[m].embedding]]
    /\ UNCHANGED <<db, store, worker, pipe, faults, losses, cause>>

\* Plaintext of the memory is in a handler's hands that will write it, or an
\* embedding of it, without asking again whether it may.
UnderWay(m) ==
    \/ store[m] = "enqueue"
    \/ \E p \in PipesOf(m) : pipe[p].at # "link"

\* revoke_memory as the boot DDL has it, with the fragments of migration 043.
\* Nothing writes them again, not even a re-delegation.
Revoke(c) ==
    LET m == client[c].mem IN
    /\ client[c].at = "revoke"
    /\ client' = [client EXCEPT ![c] = [at |-> "idle"]]
    /\ IF Stored(m)
       THEN /\ mem' = [mem EXCEPT ![m].summary = FALSE,
                  ![m].sealed = IF client[c].summary THEN "summary" ELSE "blank",
                  ![m].embedding = FALSE,
                  ![m].sealedEmbedding = client[c].embedding,
                  ![m].revoked = TRUE,
                  ![m].wraps = @ \ {"provider"}]
            /\ fragments' = [fragments EXCEPT ![m] = 0]
            /\ cause' = [cause EXCEPT ![m] = @
                  \cup (IF UnderWay(m) THEN {"raced"} ELSE {})
                  \cup (IF client[c].embedding THEN {} ELSE {"unembedded"})
                  \cup (IF fragments[m] > 0 THEN {"cleared"} ELSE {})]
       ELSE UNCHANGED <<mem, fragments, cause>>
    /\ UNCHANGED <<job, store, worker, pipe, requests, faults, losses>>

ReadToRedelegate(c, m) ==
    /\ client[c].at = "idle"
    /\ Request
    /\ Stored(m) /\ mem[m].encrypted
    /\ "owner" \in mem[m].wraps
    /\ client' = [client EXCEPT ![c] = [at |-> "redelegate", mem |-> m,
           summary |-> mem[m].sealed = "summary",
           embedding |-> mem[m].sealedEmbedding]]
    /\ UNCHANGED <<db, store, worker, pipe, faults, losses, cause>>

\* Nothing asks whether the memory was revoked: a second request finds no
\* ciphertext and writes '' over the restored summary.
Redelegate(c) ==
    LET m == client[c].mem IN
    /\ client[c].at = "redelegate"
    /\ client' = [client EXCEPT ![c] = [at |-> "idle"]]
    /\ IF Stored(m)
       THEN /\ mem' = [mem EXCEPT ![m].summary = client[c].summary,
                  ![m].sealed = "none",
                  ![m].embedding = client[c].embedding,
                  ![m].sealedEmbedding = FALSE,
                  ![m].revoked = FALSE,
                  ![m].wraps = @ \cup {"provider"}]
            /\ cause' = [cause EXCEPT ![m] = @
                  \cup (IF client[c].summary THEN {} ELSE {"blanked"})
                  \cup (IF client[c].embedding THEN {} ELSE {"unembedded"})]
       ELSE UNCHANGED <<mem, cause>>
    /\ UNCHANGED <<job, fragments, store, worker, pipe, requests, faults,
                   losses>>

\* Mutant: memory_write_jobs without ON DELETE CASCADE.
DeleteKeepingJob(m) ==
    /\ Stored(m)
    /\ Request
    /\ mem' = [mem EXCEPT ![m] = [NoMemory EXCEPT !.row = "deleted"]]
    /\ fragments' = [fragments EXCEPT ![m] = 0]
    /\ UNCHANGED <<job, store, worker, pipe, client, faults, losses, cause>>


\* Jobs, wraps and fragments go with the row.
Delete(m) ==
    /\ Stored(m)
    /\ Request
    /\ mem' = [mem EXCEPT ![m] = [NoMemory EXCEPT !.row = "deleted"]]
    /\ job' = [job EXCEPT ![m] = NoJob]
    /\ fragments' = [fragments EXCEPT ![m] = 0]
    /\ UNCHANGED <<store, worker, pipe, client, faults, losses, cause>>

-----------------------------------------------------------------------------
StoreStep(m) ==
    \/ Insert(m) \/ WriteWraps(m) \/ Revert(m) \/ Enqueue(m) \/ StoreDies(m)

WorkerStep(w) ==
    \/ Sweep(w) \/ Rehydrate(w) \/ TimesOut(w)
    \/ RecordDone(w) \/ RecordFailed(w) \/ LoseOutcome(w) \/ WorkerDies(w)

ClientStep(c) ==
    \/ \E m \in Memories : ReadToRevoke(c, m) \/ ReadToRedelegate(c, m)
    \/ Revoke(c) \/ Redelegate(c)

Next ==
    \/ \E m \in Memories : StoreStep(m) \/ Delete(m)
    \/ \E w \in Workers : WorkerStep(w)
    \/ \E p \in Pipes : PipeStep(p)
    \/ \E c \in Clients : ClientStep(c)

\* The poll timer of each process, its event loop and its timeouts; the
\* calls of a pipeline end, by fetch's own timeouts at the latest.
Fairness ==
    /\ \A w \in Workers :
        /\ WF_vars(Sweep(w))
        /\ WF_vars(Rehydrate(w))
        /\ WF_vars(RecordDone(w) \/ RecordFailed(w))
    /\ \A p \in Pipes : WF_vars(PipeStep(p))
    /\ \A m \in Memories : WF_vars(WriteWraps(m) \/ Revert(m) \/ Enqueue(m))

Spec == Init /\ [][Next]_vars /\ Fairness

-----------------------------------------------------------------------------
\* What the rows of memories, memory_dek_wraps and memory_write_jobs and the
\* processes may hold: wraps belong to encrypted rows, a revoked row keeps its
\* owner's alone, a job goes with its memory, and a worker waits for a pipeline
\* of the job it has in hand (storeMemory, revoke_memory, drainWriteJobsOnce).
TypeOK ==
    /\ mem \in [Memories ->
           [row : {"absent", "stored", "deleted"}, encrypted : BOOLEAN,
            wraps : SUBSET {"owner", "provider"}, revoked : BOOLEAN,
            summary : BOOLEAN, sealed : {"none", "summary", "blank"},
            embedding : BOOLEAN, sealedEmbedding : BOOLEAN]]
    /\ job \in [Memories ->
           [status : {"none", "pending", "running", "done", "failed"},
            retry : BOOLEAN, attempts : Nat]]
    /\ fragments \in [Memories -> Nat]
    /\ \A m \in Memories :
        /\ mem[m].wraps # {} => mem[m].encrypted
        /\ mem[m].revoked => mem[m].wraps = {"owner"}
        /\ job[m] # NoJob => Stored(m) /\ store[m] = "stored"
    /\ \A w \in Workers :
        /\ (worker[w].at = "idle") = (worker[w].batch = <<>>)
        /\ (worker[w].at = "running") = (worker[w].pipe # NoPipe)
        /\ worker[w].at = "running" =>
               pipe[worker[w].pipe].mem = InHand(w).mem
    /\ faults \in 0..MaxFaults /\ requests \in 0..MaxRequests

\* A job costs at most MaxAttempts claims, and one more for every claim that
\* ended without a recorded outcome: each claim pays once, and the count
\* stops every job that only fails.
AttemptsPaid == \A m \in Memories : job[m].attempts <= MaxAttempts + losses[m]

\* A memory never has its fragments twice: the retry of a timed-out job
\* replaces what the abandoned pipeline wrote; and a done job wrote them, for
\* good unless a revocation cleared them; two pipelines of the memory that
\* overlapped and a lost call excepted.
FragmentsReplaced ==
    \A m \in Memories : cause[m] \cap {"overlap", "uncleared"} = {} =>
        /\ fragments[m] <= 1
        /\ job[m].status = "done"
           /\ cause[m] \cap {"unembedded", "overtaken", "cleared"} = {}
               => fragments[m] = 1

\* A done job left an embedding, in the open or sealed by a revocation,
\* unless the provider refused, a call was lost, or a revocation or a
\* re-delegation wrote back a state read before the embedding was there.
DoneIsEmbedded ==
    \A m \in Memories : job[m].status = "done" =>
        \/ mem[m].embedding \/ mem[m].sealedEmbedding
        \/ "unembedded" \in cause[m]

\* Encrypted content can be opened by its owner once its store is over,
\* unless the store died or lost its revert after the wraps had failed.
ContentReadable ==
    \A m \in Memories : Stored(m) /\ mem[m].encrypted =>
        \/ "owner" \in mem[m].wraps
        \/ store[m] \in {"wraps", "revert"}
        \/ "unwrapped" \in cause[m]

\* The summary is in the row or sealed in it, through any interleaving of
\* revocations and re-delegations, unless a re-delegation had read a row
\* that was not sealed.
SummaryKept ==
    \A m \in Memories : Stored(m) =>
        \/ mem[m].summary \/ mem[m].sealed = "summary"
        \/ "blanked" \in cause[m]

\* No stored memory loses its content or its summary.
NothingLost == ContentReadable /\ SummaryKept

\* A revoked memory stays sealed: nothing readable is left in its row or its
\* fragments, and no later job, retry or pipeline puts its embedding or its
\* fragments back, unless one held the plaintext when it was revoked.
RevokedStaysSealed ==
    \A m \in Memories : mem[m].revoked /\ "raced" \notin cause[m] =>
        ~mem[m].summary /\ ~mem[m].embedding /\ fragments[m] = 0

Closed(j) == j.status \in {"done", "failed"} /\ (j.status = "failed" => ~j.retry)

\* A done or terminally failed job is never claimed or rewritten, unless one
\* of its claims was overtaken: the late worker then writes by id alone.
OutcomeFinal ==
    [][\A m \in Memories : Closed(job[m]) /\ job'[m] # job[m] =>
           job'[m] = NoJob \/ "overtaken" \in cause[m]]_vars

\* Every job is settled in the end, through crashes, timeouts and lost
\* outcomes: done, failed for good, or gone with its memory.
JobsSettle ==
    <>[](\A m \in Memories : job[m] = NoJob \/ Closed(job[m]))
===============================================================================
