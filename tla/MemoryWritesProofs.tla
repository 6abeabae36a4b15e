--------------------------- MODULE MemoryWritesProofs ---------------------------
(***************************************************************************)
(* What TLAPS proves of MemoryWrites, for any memories, pollers, pipelines *)
(* and batch sizes: its types, that no memory is lost, that a revoked one  *)
(* stays sealed, that a claim is paid once, that an outcome is final, and  *)
(* what a done job leaves behind.                                          *)
(***************************************************************************)
EXTENDS MemoryWrites, FiniteSetTheorems, SequenceTheorems, TLAPS

MemRow == [row : {"absent", "stored", "deleted"}, encrypted : BOOLEAN,
           wraps : SUBSET {"owner", "provider"}, revoked : BOOLEAN,
           summary : BOOLEAN, sealed : {"none", "summary", "blank"},
           embedding : BOOLEAN, sealedEmbedding : BOOLEAN]
JobRow == [status : {"none", "pending", "running", "done", "failed"},
           retry : BOOLEAN, attempts : Nat]
Claim  == [mem : Memories, place : Nat, attempts : Nat]
WorkerRow == [at : {"idle", "job", "running", "done", "failed"}, batch : Seq(Claim),
              pipe : Pipes \cup {NoPipe}]
Rest   == [at |-> "idle"]
Busy   == [at : {"embed", "clear", "insert", "link"}, mem : Memories, proc : Workers,
           replace : BOOLEAN]
Asking == [at : {"revoke", "redelegate"}, mem : Memories, summary : BOOLEAN,
           embedding : BOOLEAN]

(* The rows of a memory that is being stored, is stored, or is gone.       *)
RowShape(m) ==
    /\ ~Stored(m) => /\ mem[m].wraps = {} /\ ~mem[m].encrypted /\ ~mem[m].revoked
                     /\ job[m] = NoJob /\ fragments[m] = 0
    /\ mem[m].wraps # {} => mem[m].encrypted /\ "owner" \in mem[m].wraps
    /\ mem[m].revoked => mem[m].wraps = {"owner"}
    /\ job[m] # NoJob => store[m] = "stored"
    /\ job[m].status = "none" => job[m] = NoJob
    /\ store[m] = "new" => ~Stored(m)
    /\ store[m] \in {"new", "wraps", "revert"} => mem[m].wraps = {}
    /\ store[m] \in {"wraps", "revert"} /\ Stored(m) => mem[m].encrypted
    /\ store[m] # "stored" => fragments[m] = 0

(* A request to seal or unseal is about a memory that has its wraps.       *)
ClientShape(c) ==
    client[c].at # "idle" =>
        /\ client[c] \in Asking
        /\ Stored(client[c].mem) => "owner" \in mem[client[c].mem].wraps
        /\ store[client[c].mem] \notin {"new", "wraps", "revert"}

(* A claim is of a job that was queued, the jobs of a batch are distinct,  *)
(* and a worker waits for a pipeline of its own process and job.           *)
WorkerShape(w) ==
    /\ worker[w].at = "idle" <=> worker[w].batch = <<>>
    /\ worker[w].at = "running" <=> worker[w].pipe # NoPipe
    /\ worker[w].at = "running" =>
           /\ pipe[worker[w].pipe].at # "idle"
           /\ pipe[worker[w].pipe].mem = InHand(w).mem
           /\ pipe[worker[w].pipe].proc = w
    /\ \A c \in Claims(w) : store[c.mem] = "stored"
    /\ \A i, j \in DOMAIN worker[w].batch :
           worker[w].batch[i].mem = worker[w].batch[j].mem => i = j

PipeShape(p) ==
    pipe[p].at # "idle" => pipe[p] \in Busy /\ store[pipe[p].mem] = "stored"

Types ==
    /\ mem \in [Memories -> MemRow] /\ job \in [Memories -> JobRow]
    /\ fragments \in [Memories -> Nat]
    /\ store \in [Memories -> {"new", "wraps", "revert", "enqueue", "stored"}]
    /\ worker \in [Workers -> WorkerRow]
    /\ pipe \in [Pipes -> Busy \cup {Rest}]
    /\ client \in [Clients -> Asking \cup {Rest}]
    /\ requests \in 0..MaxRequests /\ faults \in 0..MaxFaults
    /\ losses \in [Memories -> Nat]
    /\ cause \in [Memories -> SUBSET {"unwrapped", "overlap", "overtaken", "unembedded",
                                      "uncleared", "raced", "blanked",
                                      "cleared"}]
    /\ \A m \in Memories : RowShape(m)
    /\ \A c \in Clients : ClientShape(c)
    /\ \A w \in Workers : WorkerShape(w)
    /\ \A p \in Pipes : PipeShape(p)

(* The owner can open it; the summary of an open memory is in the row, that *)
(* of a revoked one in its seal; a request that revokes has read it.       *)
Opens(m) ==
    Stored(m) /\ mem[m].encrypted =>
        \/ "owner" \in mem[m].wraps
        \/ store[m] \in {"wraps", "revert"}
        \/ "unwrapped" \in cause[m]

Kept(m) ==
    Stored(m) /\ "blanked" \notin cause[m] =>
        IF mem[m].revoked THEN mem[m].sealed = "summary" ELSE mem[m].summary

Read(c) ==
    client[c].at = "revoke" /\ "blanked" \notin cause[client[c].mem] => client[c].summary

LostInv ==
    /\ \A m \in Memories : Opens(m) /\ Kept(m)
    /\ \A c \in Clients : Read(c)

(* Nobody holds the plaintext of a revoked memory, unless it did when the  *)
(* memory was revoked.                                                     *)
Sealed(m) ==
    mem[m].revoked /\ "raced" \notin cause[m] =>
        ~mem[m].summary /\ ~mem[m].embedding /\ fragments[m] = 0 /\ ~UnderWay(m)

SealedInv == \A m \in Memories : Sealed(m)

(* A job that can be claimed again has paid for its claims so far; a claim *)
(* knows the attempts but for those that overtook it.                      *)
Paid(m) ==
    /\ job[m].attempts <= MaxAttempts + losses[m]
    /\ Pending(m) => job[m].attempts = 0
    /\ job[m].status = "failed" /\ job[m].retry
          => job[m].attempts < MaxAttempts + losses[m]
    /\ job[m].status = "running" /\ Holders(m) = {}
          => job[m].attempts < MaxAttempts + losses[m]
    /\ \A w \in Workers : \A c \in Claims(w) :
           c.mem = m => job[m].attempts <= c.attempts + losses[m]

PaidInv == \A m \in Memories : Paid(m)

(* A job nobody overtook is held by one worker at most, while it runs.     *)
Held(m) ==
    "overtaken" \notin cause[m] =>
        /\ \A w, v \in Holders(m) : w = v
        /\ Holders(m) # {} => job[m].status = "running" \/ job[m] = NoJob

HeldInv == \A m \in Memories : Held(m)

(* The embedding is there, or is known to be missing, once a pipeline is   *)
(* past it and until its job is done.                                      *)
Embedded(m) == \/ ~Stored(m) \/ mem[m].embedding \/ mem[m].sealedEmbedding
               \/ "unembedded" \in cause[m]

EmbeddedInv ==
    /\ \A m \in Memories : job[m].status = "done" => Embedded(m)
    /\ \A p \in Pipes : pipe[p].at \in {"clear", "insert", "link"} => Embedded(pipe[p].mem)
    /\ \A w \in Workers : worker[w].at = "done" => Embedded(InHand(w).mem)

(* Pipelines of a memory that never overlapped write its fragments once.   *)
Apart(m) == cause[m] \cap {"overlap", "uncleared"} = {}
Whole(m) == cause[m] \cap {"overlap", "uncleared", "unembedded", "overtaken", "cleared"} = {}

Lone(m) == "overlap" \notin cause[m] => \A p, q \in PipesOf(m) : p = q

Once(m) ==
    Apart(m) =>
        /\ fragments[m] <= 1
        /\ \A p \in PipesOf(m) :
            /\ pipe[p].at = "insert" => fragments[m] = 0
            /\ pipe[p].at = "embed" /\ ~pipe[p].replace => fragments[m] = 0

Finished(m) ==
    Whole(m) =>
        /\ \A p \in PipesOf(m) : pipe[p].at = "link" /\ Stored(m) => fragments[m] = 1
        /\ \A w \in Workers : worker[w].at = "done" /\ InHand(w).mem = m
              => PipesOf(m) = {} /\ (Stored(m) => fragments[m] = 1)
        /\ job[m].status = "done" => PipesOf(m) = {} /\ fragments[m] = 1

FragmentInv == \A m \in Memories : Lone(m) /\ Once(m) /\ Finished(m)

(***************************************************************************)
(* Batches.                                                                *)
(***************************************************************************)
LEMMA HeadIsClaim ==
    ASSUME Types, NEW w \in Workers, worker[w].at # "idle"
    PROVE  /\ InHand(w) \in Claim /\ InHand(w) \in Claims(w)
           /\ InHand(w).mem \in Memories /\ store[InHand(w).mem] = "stored"
           /\ w \in Holders(InHand(w).mem)
           /\ Claims(w) \subseteq Claim
<1> DEFINE b == worker[w].batch
<1>1. b \in Seq(Claim) /\ b # <<>>
  BY DEF Types, WorkerRow, WorkerShape
<1>2. Len(b) \in Nat \ {0} /\ DOMAIN b = 1..Len(b) /\ \A i \in 1..Len(b) : b[i] \in Claim
  BY <1>1, EmptySeq, LenProperties, ElementOfSeq
<1>3. Head(b) = b[1] /\ 1 \in 1..Len(b)
  BY <1>1, <1>2
<1> HIDE DEF b
<1>4. Head(b) \in Claim /\ Head(b) \in ToSet(b) /\ ToSet(b) \subseteq Claim
  BY <1>2, <1>3 DEF ToSet
<1>5. InHand(w) = Head(b) /\ Claims(w) = ToSet(b)
  BY DEF InHand, Claims, b
<1>6. InHand(w).mem \in Memories
  BY <1>4, <1>5 DEF Claim
<1>7. store[InHand(w).mem] = "stored"
  BY <1>4, <1>5 DEF Types, WorkerShape
<1> QED
  BY <1>4, <1>5, <1>6, <1>7 DEF Holders

(* The job in hand is dropped, and only it.                                *)
LEMMA AfterJob ==
    ASSUME Types, NEW w \in Workers, worker[w].at # "idle", NextJob(w)
    PROVE  /\ worker' \in [Workers -> WorkerRow]
           /\ \A v \in Workers \ {w} : worker'[v] = worker[v]
           /\ worker'[w].at \in {"idle", "job"} /\ worker'[w].pipe = NoPipe
           /\ worker'[w].at = "idle" <=> worker'[w].batch = <<>>
           /\ \A i, j \in DOMAIN worker'[w].batch :
                  worker'[w].batch[i].mem = worker'[w].batch[j].mem => i = j
           /\ Claims(w)' \subseteq Claims(w)
           /\ \A c \in Claims(w) : c = InHand(w) \/ c \in Claims(w)'
           /\ \A c \in Claims(w)' : c.mem # InHand(w).mem
<1> DEFINE b == worker[w].batch
<1> DEFINE t == Tail(b)
<1>1. b \in Seq(Claim) /\ b # <<>>
      /\ \A i, j \in DOMAIN b : b[i].mem = b[j].mem => i = j
  BY DEF Types, WorkerRow, WorkerShape
<1>2. Len(b) \in Nat \ {0} /\ DOMAIN b = 1..Len(b)
  BY <1>1, EmptySeq, LenProperties
<1>3. t \in Seq(Claim) /\ Len(t) = Len(b) - 1 /\ \A i \in 1..Len(t) : t[i] = b[i+1]
  BY <1>1, HeadTailProperties
<1>4. DOMAIN t = 1..Len(t) /\ Head(b) = b[1]
  BY <1>1, <1>2, <1>3, LenProperties
<1>5. IdleWorker \in WorkerRow /\ IdleWorker.at = "idle" /\ IdleWorker.batch = <<>>
      /\ IdleWorker.pipe = NoPipe
  BY EmptySeq DEF IdleWorker, WorkerRow
<1>6. worker' = [worker EXCEPT ![w] = IF Len(b) = 1 THEN IdleWorker
                                      ELSE [at |-> "job", batch |-> t, pipe |-> NoPipe]]
  BY DEF NextJob
<1>7. ToSet(t) \subseteq ToSet(b) /\ \A c \in ToSet(b) : c = Head(b) \/ c \in ToSet(t)
  <2> HIDE DEF b, t
  <2>1. ASSUME NEW c \in ToSet(t) PROVE c \in ToSet(b)
    <3>1. PICK i \in 1..Len(t) : c = t[i]
      BY <1>4, <2>1 DEF ToSet
    <3>2. i + 1 \in 1..Len(b) /\ c = b[i + 1]
      BY <1>2, <1>3, <3>1
    <3> QED
      BY <1>2, <3>2 DEF ToSet
  <2>2. ASSUME NEW c \in ToSet(b), c # Head(b) PROVE c \in ToSet(t)
    <3>1. PICK i \in 1..Len(b) : c = b[i]
      BY <1>2 DEF ToSet
    <3>2. i # 1
      BY <1>4, <2>2, <3>1
    <3>3. (i - 1) \in 1..Len(t) /\ t[i - 1] = b[i]
      BY <1>2, <1>3, <3>1, <3>2
    <3> QED
      BY <1>4, <3>1, <3>3 DEF ToSet
  <2> QED
    BY <2>1, <2>2
<1>8. \A c \in ToSet(t) : c.mem # Head(b).mem
  <2> HIDE DEF b, t
  <2> SUFFICES ASSUME NEW c \in ToSet(t), c.mem = Head(b).mem PROVE FALSE
    OBVIOUS
  <2>1. PICK i \in 1..Len(t) : c = t[i]
    BY <1>4 DEF ToSet
  <2>2. i + 1 \in DOMAIN b /\ 1 \in DOMAIN b /\ c = b[i + 1] /\ i + 1 # 1
    BY <1>2, <1>3, <2>1
  <2> QED
    BY <1>1, <1>4, <2>2
<1>9. \A i, j \in DOMAIN t : t[i].mem = t[j].mem => i = j
  <2> HIDE DEF b, t
  <2> SUFFICES ASSUME NEW i \in 1..Len(t), NEW j \in 1..Len(t), t[i].mem = t[j].mem PROVE i = j
    BY <1>4
  <2>1. i + 1 \in DOMAIN b /\ j + 1 \in DOMAIN b /\ b[i + 1].mem = b[j + 1].mem
    BY <1>2, <1>3
  <2>2. i + 1 = j + 1
    BY <1>1, <2>1
  <2> QED
    BY <1>3, <2>2
<1>10. Claims(w) = ToSet(b) /\ InHand(w) = Head(b)
  BY DEF Claims, InHand
<1> HIDE DEF b, t
<1>11. worker \in [Workers -> WorkerRow]
  BY DEF Types
<1>12. CASE Len(b) = 1
  <2>1. worker' = [worker EXCEPT ![w] = IdleWorker]
    BY <1>6, <1>12
  <2>2. worker' \in [Workers -> WorkerRow] /\ worker'[w] = IdleWorker
        /\ \A v \in Workers \ {w} : worker'[v] = worker[v]
    BY <1>5, <1>11, <2>1
  <2>3. DOMAIN t = {} /\ ToSet(t) = {} /\ DOMAIN <<>> = {}
    <3>1. 1..Len(t) = {}
      BY <1>2, <1>3, <1>12
    <3> QED
      BY <1>4, <3>1 DEF ToSet
  <2>4. Claims(w)' = {}
    BY <1>5, <2>2, <2>3 DEF Claims, ToSet
  <2> QED
    BY <1>5, <1>7, <1>10, <2>2, <2>3, <2>4
<1>13. CASE Len(b) # 1
  <2> DEFINE r == [at |-> "job", batch |-> t, pipe |-> NoPipe]
  <2>1. r \in WorkerRow /\ r.at = "job" /\ r.batch = t /\ r.pipe = NoPipe
    BY <1>3 DEF WorkerRow
  <2>2. worker' = [worker EXCEPT ![w] = r]
    BY <1>6, <1>13
  <2> HIDE DEF r
  <2>3. worker' \in [Workers -> WorkerRow] /\ worker'[w] = r
        /\ \A v \in Workers \ {w} : worker'[v] = worker[v]
    BY <1>11, <2>1, <2>2
  <2>4. t # <<>>
    <3>1. Len(t) # 0
      BY <1>2, <1>3, <1>13
    <3> QED
      BY <3>1, EmptySeq
  <2>5. Claims(w)' = ToSet(t)
    BY <2>1, <2>3 DEF Claims
  <2> QED
    BY <1>7, <1>8, <1>9, <1>10, <2>1, <2>3, <2>4, <2>5
<1> QED
  BY <1>12, <1>13

(* What a sweep claims: distinct jobs that were due or stale, each with    *)
(* one attempt more; a claim of a job that is held is a loss.              *)
Swept(w, s) ==
    LET taken == Overtaken(ToSet(s)) IN
    /\ job' = [m \in Memories |->
           IF m \in ToSet(s)
           THEN [job[m] EXCEPT !.status = "running", !.attempts = @ + 1]
           ELSE job[m]]
    /\ worker' = [worker EXCEPT ![w] =
           [at |-> "job", pipe |-> NoPipe,
            batch |-> [i \in 1..Len(s) |->
                [mem |-> s[i], place |-> i, attempts |-> job[s[i]].attempts + 1]]]]
    /\ faults' = faults + Cardinality(taken)
    /\ faults' <= MaxFaults
    /\ losses' = [m \in Memories |-> IF m \in taken THEN losses[m] + 1 ELSE losses[m]]
    /\ cause' = [m \in Memories |->
           IF m \in taken THEN cause[m] \cup {"overtaken"} ELSE cause[m]]

LEMMA SweepTakes ==
    ASSUME Types, NEW w \in Workers, Sweep(w)
    PROVE  \E s : /\ Swept(w, s)
                  /\ \E n \in Nat \ {0} : s \in [1..n -> Memories]
                  /\ IsInjective(s)
                  /\ \A m \in ToSet(s) : m \in Memories /\ (Due(m) \/ Stale(m))
<1>1. PICK s \in Batches : Swept(w, s)
  BY DEF Sweep, Swept
<1> DEFINE S == {m \in Memories : Due(m) \/ Stale(m)}
<1>2. s \in SeqOf(S, Limit) /\ s # <<>> /\ IsInjective(s)
  BY DEF Batches
<1>3. PICK n \in 0..Limit : s \in [1..n -> S]
  BY <1>2 DEF SeqOf
<1>4. n \in Nat \ {0}
  <2>1. CASE n = 0
    <3>1. s \in [1..0 -> S]
      BY <1>3, <2>1
    <3>2. s \in Seq(S) /\ DOMAIN s = {}
      BY <3>1, SeqDef
    <3>3. s = <<>>
      BY <3>2, EmptySeq, LenProperties
    <3> QED
      BY <1>2, <3>3
  <2>2. CASE n # 0
    BY <1>3, <2>2, MemoryAssumption
  <2> QED
    BY <2>1, <2>2
<1>5. \A m \in ToSet(s) : m \in S
  BY <1>3 DEF ToSet
<1>6. s \in [1..n -> Memories]
  BY <1>3
<1> QED
  BY <1>1, <1>2, <1>4, <1>5, <1>6

LEMMA SweptBatch ==
    ASSUME Types, NEW w \in Workers, NEW s, NEW n \in Nat \ {0}, s \in [1..n -> Memories],
           IsInjective(s), Swept(w, s)
    PROVE  /\ worker' \in [Workers -> WorkerRow]
           /\ \A v \in Workers \ {w} : worker'[v] = worker[v]
           /\ worker'[w].at = "job" /\ worker'[w].pipe = NoPipe /\ worker'[w].batch # <<>>
           /\ \A i, j \in DOMAIN worker'[w].batch :
                  worker'[w].batch[i].mem = worker'[w].batch[j].mem => i = j
           /\ \A c \in Claims(w)' : /\ c.mem \in ToSet(s) /\ c.attempts = job'[c.mem].attempts
                                   /\ c \in Claim
           /\ \A m \in ToSet(s) : \E c \in Claims(w)' : c.mem = m
           /\ Cardinality(Overtaken(ToSet(s))) \in Nat
<1> DEFINE e(i) == [mem |-> s[i], place |-> i, attempts |-> job[s[i]].attempts + 1]
<1> DEFINE b == [i \in 1..n |-> e(i)]
<1> DEFINE r == [at |-> "job", pipe |-> NoPipe, batch |-> b]
<1>1. s \in Seq(Memories) /\ Len(s) = n /\ DOMAIN s = 1..n
  <2>1. s \in Seq(Memories)
    BY SeqDef
  <2> QED
    BY <2>1, LenProperties
<1>2. \A i \in 1..n : e(i) \in Claim
  BY DEF Types, JobRow, Claim
<1>3. b \in Seq(Claim) /\ DOMAIN b = 1..n /\ b # <<>>
  <2>1. b \in [1..n -> Claim]
    BY <1>2
  <2>2. b \in Seq(Claim) /\ DOMAIN b = 1..n
    BY <2>1, SeqDef
  <2>3. Len(b) = n
    BY <2>2, LenProperties
  <2> QED
    BY <2>2, <2>3, EmptySeq
<1>4. \A i \in 1..n : /\ b[i] \in Claim /\ b[i].mem = s[i]
                     /\ b[i].attempts = job[s[i]].attempts + 1
  BY <1>2
<1>5. worker' = [worker EXCEPT ![w] = r]
  BY <1>1 DEF Swept
<1>6. r \in WorkerRow /\ r.at = "job" /\ r.pipe = NoPipe /\ r.batch = b
  BY <1>3 DEF WorkerRow
<1> HIDE DEF b, r, e
<1>7. worker' \in [Workers -> WorkerRow] /\ worker'[w] = r
      /\ \A v \in Workers \ {w} : worker'[v] = worker[v]
  BY <1>5, <1>6 DEF Types
<1>8. \A i, j \in DOMAIN b : b[i].mem = b[j].mem => i = j
  BY <1>1, <1>3, <1>4 DEF IsInjective
<1>9. Claims(w)' = ToSet(b)
  BY <1>6, <1>7 DEF Claims
<1>10. ASSUME NEW i \in 1..n PROVE job'[s[i]].attempts = job[s[i]].attempts + 1
  <2>1. PICK m \in Memories : m = s[i] /\ m \in ToSet(s) /\ job[m] \in JobRow
    BY <1>1 DEF ToSet, Types
  <2>2. job'[m] = [job[m] EXCEPT !.status = "running", !.attempts = @ + 1]
    BY <2>1 DEF Swept
  <2> QED
    BY <2>1, <2>2 DEF JobRow
<1>11. \A c \in ToSet(b) : c.mem \in ToSet(s) /\ c.attempts = job'[c.mem].attempts /\ c \in Claim
  BY <1>1, <1>3, <1>4, <1>10 DEF ToSet
<1>12. \A m \in ToSet(s) : \E c \in ToSet(b) : c.mem = m
  BY <1>1, <1>3, <1>4 DEF ToSet
<1>13. IsFiniteSet(ToSet(s))
  <2>1. s \in Surjection(1..n, ToSet(s))
    BY <1>1 DEF Surjection, ToSet
  <2>2. IsFiniteSet(1..n)
    BY FS_Interval
  <2> QED
    BY <2>1, <2>2, FS_Surjection
<1>14. Cardinality(Overtaken(ToSet(s))) \in Nat
  <2>1. Overtaken(ToSet(s)) \subseteq ToSet(s)
    BY DEF Overtaken
  <2> QED
    BY <1>13, <2>1, FS_Subset, FS_CardinalityType
<1> QED
  BY <1>3, <1>6, <1>7, <1>8, <1>9, <1>11, <1>12, <1>14

(***************************************************************************)
(* Types.                                                                  *)
(***************************************************************************)
Causes == SUBSET {"unwrapped", "overlap", "overtaken", "unembedded", "uncleared", "raced",
                  "blanked", "cleared"}

LEMMA TypesAreTypes == Types => TypeOK
<1> SUFFICES ASSUME Types PROVE TypeOK
  OBVIOUS
<1>1. \A w \in Workers :
        /\ (worker[w].at = "idle") = (worker[w].batch = <<>>)
        /\ (worker[w].at = "running") = (worker[w].pipe # NoPipe)
        /\ worker[w].at = "running" => pipe[worker[w].pipe].mem = InHand(w).mem
  BY DEF Types, WorkerShape
<1>2. \A m \in Memories :
        /\ mem[m].wraps # {} => mem[m].encrypted
        /\ mem[m].revoked => mem[m].wraps = {"owner"}
        /\ job[m] # NoJob => Stored(m) /\ store[m] = "stored"
  BY DEF Types, RowShape
<1> QED
  BY <1>1, <1>2 DEF Types, TypeOK, MemRow, JobRow

LEMMA TypesInit == Init => Types
<1> SUFFICES ASSUME Init PROVE Types
  OBVIOUS
<1>1. NoMemory \in MemRow /\ NoMemory.row = "absent" /\ NoMemory.wraps = {}
      /\ NoMemory.encrypted = FALSE /\ NoMemory.revoked = FALSE
  BY DEF NoMemory, MemRow
<1>2. NoJob \in JobRow /\ IdleWorker \in WorkerRow /\ IdleWorker.at = "idle"
      /\ IdleWorker.batch = <<>> /\ IdleWorker.pipe = NoPipe
  BY EmptySeq DEF NoJob, JobRow, IdleWorker, WorkerRow
<1>3. /\ mem \in [Memories -> MemRow] /\ job \in [Memories -> JobRow]
      /\ fragments \in [Memories -> Nat] /\ losses \in [Memories -> Nat]
      /\ store \in [Memories -> {"new", "wraps", "revert", "enqueue", "stored"}]
      /\ cause \in [Memories -> Causes]
  BY <1>1, <1>2 DEF Init, Causes
<1>4. worker \in [Workers -> WorkerRow] /\ pipe \in [Pipes -> Busy \cup {Rest}]
      /\ client \in [Clients -> Asking \cup {Rest}]
  BY <1>2 DEF Init, Rest
<1>5. \A m \in Memories : RowShape(m)
  BY <1>1 DEF Init, RowShape, Stored
<1>6. \A c \in Clients : ClientShape(c)
  BY DEF Init, ClientShape
<1>7. \A p \in Pipes : PipeShape(p)
  BY DEF Init, PipeShape
<1>8. \A w \in Workers : WorkerShape(w)
  <2>1. DOMAIN <<>> = {}
    BY EmptySeq, LenProperties
  <2> QED
    BY <1>2, <2>1 DEF Init, WorkerShape, Claims, ToSet
<1>9. requests \in 0..MaxRequests /\ faults \in 0..MaxFaults
  BY MemoryAssumption DEF Init
<1> QED
  BY <1>3, <1>4, <1>5, <1>6, <1>7, <1>8, <1>9 DEF Types, Causes

(* A memory that is stored stays so until it is deleted, and keeps its     *)
(* owner's wrap.                                                           *)
RowsGoOn ==
    \A m \in Memories :
        /\ store[m] = "stored" => store'[m] = "stored"
        /\ store[m] \notin {"new", "wraps", "revert"} =>
              /\ store'[m] \notin {"new", "wraps", "revert"}
              /\ mem'[m].row = "stored" =>
                    Stored(m) /\ ("owner" \in mem[m].wraps => "owner" \in mem'[m].wraps)

LEMMA ClientsStay ==
    ASSUME Types, RowsGoOn, NEW c \in Clients, client'[c] = client[c] \/ client'[c].at = "idle"
    PROVE  ClientShape(c)'
<1>1. client[c].at # "idle" => client[c].mem \in Memories
  BY DEF Types, ClientShape, Asking
<1> QED
  BY <1>1 DEF Types, ClientShape, RowsGoOn, Stored

LEMMA PipesStay ==
    ASSUME Types, RowsGoOn, NEW p \in Pipes, pipe'[p] = pipe[p] \/ pipe'[p].at = "idle"
    PROVE  PipeShape(p)'
<1>1. pipe[p].at # "idle" => pipe[p].mem \in Memories
  BY DEF Types, PipeShape, Busy
<1> QED
  BY <1>1 DEF Types, PipeShape, RowsGoOn

(* A worker that is left alone keeps its shape, while the pipeline it      *)
(* waits for goes on for the same process and memory.                      *)
LEMMA WorkersStay ==
    ASSUME Types, RowsGoOn, NEW w \in Workers, worker'[w] = worker[w],
           worker[w].at = "running" =>
              /\ pipe'[worker[w].pipe].at # "idle"
              /\ pipe'[worker[w].pipe].mem = pipe[worker[w].pipe].mem
              /\ pipe'[worker[w].pipe].proc = pipe[worker[w].pipe].proc
    PROVE  WorkerShape(w)'
<1>1. WorkerShape(w) /\ Claims(w)' = Claims(w) /\ InHand(w)' = InHand(w)
  BY DEF Types, Claims, InHand
<1>2. Claims(w) \subseteq Claim
  <2>1. worker[w].at = "idle" => Claims(w) = {}
    <3>1. worker[w].at = "idle" => worker[w].batch = <<>>
      BY DEF Types, WorkerShape
    <3>2. DOMAIN <<>> = {}
      BY EmptySeq, LenProperties
    <3> QED
      BY <3>1, <3>2 DEF Claims, ToSet
  <2> QED
    BY <2>1, HeadIsClaim
<1>3. \A c \in Claims(w) : c.mem \in Memories
  BY <1>2 DEF Claim
<1> QED
  BY <1>1, <1>3 DEF WorkerShape, RowsGoOn

(* A pipeline starts where none ran.                                       *)
LEMMA PipeStarts ==
    ASSUME Types, NEW m \in Memories, NEW w \in Workers, NEW replace \in BOOLEAN,
           StartPipe(m, w, replace)
    PROVE  /\ FreePipe \in Pipes /\ pipe[FreePipe].at = "idle" /\ FreePipe # NoPipe
           /\ pipe' \in [Pipes -> Busy \cup {Rest}]
           /\ pipe'[FreePipe].at = "embed" /\ pipe'[FreePipe].mem = m
           /\ pipe'[FreePipe].proc = w /\ pipe'[FreePipe].replace = replace
           /\ pipe'[FreePipe] \in Busy
           /\ \A p \in Pipes \ {FreePipe} : pipe'[p] = pipe[p]
           /\ cause' \in [Memories -> Causes]
           /\ \A k \in Memories : cause[k] \subseteq cause'[k] /\ (k # m => cause'[k] = cause[k])
           /\ PipesOf(m) # {} => "overlap" \in cause'[m]
           /\ "overtaken" \in cause'[m] => "overtaken" \in cause[m]
<1>1. FreePipe \in Pipes /\ pipe[FreePipe].at = "idle"
  <2>1. FreePipe \in FreePipes
    BY DEF StartPipe, FreePipe
  <2> QED
    BY <2>1 DEF FreePipes
<1> DEFINE r == [at |-> "embed", mem |-> m, proc |-> w, replace |-> replace]
<1>2. r \in Busy /\ r.at = "embed" /\ r.mem = m /\ r.proc = w /\ r.replace = replace
  BY DEF Busy
<1>3. pipe' = [pipe EXCEPT ![FreePipe] = r]
  BY DEF StartPipe
<1> HIDE DEF r
<1>4. /\ pipe' \in [Pipes -> Busy \cup {Rest}] /\ pipe'[FreePipe] = r
      /\ \A p \in Pipes \ {FreePipe} : pipe'[p] = pipe[p]
  BY <1>1, <1>2, <1>3 DEF Types
<1>5. /\ cause' \in [Memories -> Causes]
      /\ \A k \in Memories : cause[k] \subseteq cause'[k] /\ (k # m => cause'[k] = cause[k])
      /\ PipesOf(m) # {} => "overlap" \in cause'[m]
      /\ "overtaken" \in cause'[m] => "overtaken" \in cause[m]
  <2>1. CASE PipesOf(m) = {}
    BY <2>1 DEF StartPipe, Types, Causes
  <2>2. CASE PipesOf(m) # {}
    BY <2>2 DEF StartPipe, Types, Causes
  <2> QED
    BY <2>1, <2>2
<1>6. FreePipe # NoPipe
  BY <1>1, MemoryAssumption
<1> QED
  BY <1>1, <1>2, <1>4, <1>5, <1>6

LEMMA RowStays ==
    ASSUME Types, NEW k \in Memories, mem'[k] = mem[k], job'[k] = job[k],
           fragments'[k] = fragments[k], store'[k] = store[k]
    PROVE  RowShape(k)'
BY DEF Types, RowShape, Stored

(* What storeMemory writes of a memory, before it queues the job.          *)
LEMMA StoreRows ==
    ASSUME Types, NEW m \in Memories, Insert(m) \/ WriteWraps(m) \/ Revert(m) \/ StoreDies(m)
    PROVE  /\ mem' \in [Memories -> MemRow]
           /\ store' \in [Memories -> {"new", "wraps", "revert", "enqueue", "stored"}]
           /\ cause' \in [Memories -> Causes] /\ faults' \in 0..MaxFaults
           /\ \A k \in Memories : RowShape(k)'
           /\ RowsGoOn
           /\ \A k \in Memories : cause[k] \subseteq cause'[k]
                                  /\ ("overtaken" \in cause'[k] => "overtaken" \in cause[k])
           /\ UNCHANGED <<job, fragments, worker, pipe, client, requests, losses>>
<1> USE DEF db, hist
<1>1. /\ mem \in [Memories -> MemRow] /\ mem[m] \in MemRow
      /\ store \in [Memories -> {"new", "wraps", "revert", "enqueue", "stored"}]
      /\ cause \in [Memories -> Causes] /\ job \in [Memories -> JobRow]
  BY DEF Types, Causes
<1>2. \A k \in Memories : RowShape(k)
  BY DEF Types
<1>3. CASE Insert(m)
  <2>1. PICK e \in BOOLEAN : e = (m \in Envelopes)
    <3>1. (m \in Envelopes) \in BOOLEAN
      OBVIOUS
    <3> QED
      BY <3>1
  <2>2. mem' = [mem EXCEPT ![m].row = "stored", ![m].summary = TRUE, ![m].encrypted = e]
        /\ store[m] = "new"
    BY <1>3, <2>1 DEF Insert
  <2>3. /\ mem' \in [Memories -> MemRow] /\ \A k \in Memories \ {m} : mem'[k] = mem[k]
        /\ mem'[m].row = "stored" /\ mem'[m].encrypted = e
        /\ mem'[m].wraps = mem[m].wraps /\ mem'[m].revoked = mem[m].revoked
    BY <1>1, <2>2 DEF MemRow
  <2>4. mem[m].wraps = {} /\ ~mem[m].revoked /\ job[m] = NoJob /\ fragments[m] = 0
    BY <1>2, <2>2 DEF RowShape
  <2>5. /\ \A k \in Memories \ {m} : store'[k] = store[k]
        /\ store'[m] = IF e THEN "wraps" ELSE "enqueue"
        /\ store' \in [Memories -> {"new", "wraps", "revert", "enqueue", "stored"}]
    BY <1>1, <1>3, <2>1 DEF Insert
  <2>6. UNCHANGED <<job, fragments, worker, pipe, client, requests, losses, faults, cause>>
    BY <1>3 DEF Insert
  <2>7. RowShape(m)'
    BY <1>2, <2>3, <2>4, <2>5, <2>6 DEF RowShape, Stored
  <2>8. \A k \in Memories : RowShape(k)'
    BY <2>3, <2>5, <2>6, <2>7, RowStays
  <2>9. RowsGoOn
    BY <2>2, <2>3, <2>5 DEF RowsGoOn, Stored
  <2> QED
    BY <1>1, <2>3, <2>5, <2>6, <2>8, <2>9 DEF Types
<1>4. CASE WriteWraps(m)
  <2>1. /\ store[m] = "wraps" /\ ~mem[m].revoked /\ mem[m].wraps = {} /\ job[m] = NoJob
        /\ fragments[m] = 0 /\ (Stored(m) => mem[m].encrypted)
    BY <1>2, <1>4 DEF WriteWraps, RowShape
  <2>2. UNCHANGED <<job, fragments, worker, pipe, client, requests, losses, cause>>
    BY <1>4 DEF WriteWraps
  <2>3. faults' \in 0..MaxFaults
    BY <1>4, MemoryAssumption DEF WriteWraps, Fault, Types
  <2>4. CASE /\ Stored(m) /\ mem' = [mem EXCEPT ![m].wraps = {"owner", "provider"}]
             /\ store' = [store EXCEPT ![m] = "enqueue"]
    <3>1. /\ mem' \in [Memories -> MemRow] /\ \A k \in Memories \ {m} : mem'[k] = mem[k]
          /\ mem'[m].row = mem[m].row /\ mem'[m].encrypted = mem[m].encrypted
          /\ mem'[m].wraps = {"owner", "provider"} /\ mem'[m].revoked = mem[m].revoked
      BY <1>1, <2>4 DEF MemRow
    <3>2. /\ \A k \in Memories \ {m} : store'[k] = store[k]
          /\ store'[m] = "enqueue"
          /\ store' \in [Memories -> {"new", "wraps", "revert", "enqueue", "stored"}]
      BY <1>1, <2>4
    <3>3. RowShape(m)'
      BY <1>2, <2>1, <2>2, <2>4, <3>1, <3>2 DEF RowShape, Stored
    <3>4. \A k \in Memories : RowShape(k)'
      BY <2>2, <3>1, <3>2, <3>3, RowStays
    <3>5. RowsGoOn
      BY <2>1, <3>1, <3>2 DEF RowsGoOn, Stored
    <3> QED
      BY <1>1, <2>2, <2>3, <3>1, <3>2, <3>4, <3>5
  <2>5. CASE store' = [store EXCEPT ![m] = "revert"] /\ UNCHANGED mem
    <3>1. /\ \A k \in Memories \ {m} : store'[k] = store[k]
          /\ store'[m] = "revert"
          /\ store' \in [Memories -> {"new", "wraps", "revert", "enqueue", "stored"}]
      BY <1>1, <2>5
    <3>2. RowShape(m)'
      BY <1>2, <2>1, <2>2, <2>5, <3>1 DEF RowShape, Stored
    <3>3. \A k \in Memories : RowShape(k)'
      BY <2>2, <2>5, <3>1, <3>2, RowStays
    <3>4. RowsGoOn
      BY <2>1, <2>5, <3>1 DEF RowsGoOn, Stored
    <3> QED
      BY <1>1, <2>2, <2>3, <2>5, <3>1, <3>3, <3>4
  <2> QED
    BY <1>4, <2>4, <2>5 DEF WriteWraps
<1>5. CASE Revert(m)
  <2>1. /\ store[m] = "revert" /\ ~mem[m].revoked /\ mem[m].wraps = {} /\ job[m] = NoJob
        /\ fragments[m] = 0
    BY <1>2, <1>5 DEF Revert, RowShape
  <2>2. /\ \A k \in Memories \ {m} : store'[k] = store[k]
        /\ store'[m] = "enqueue"
        /\ store' \in [Memories -> {"new", "wraps", "revert", "enqueue", "stored"}]
    BY <1>1, <1>5 DEF Revert
  <2>3. /\ mem' \in [Memories -> MemRow] /\ \A k \in Memories \ {m} : mem'[k] = mem[k]
        /\ mem'[m].row = mem[m].row /\ mem'[m].wraps = mem[m].wraps
        /\ mem'[m].revoked = mem[m].revoked
        /\ mem'[m].encrypted \in {mem[m].encrypted, FALSE} /\ (~Stored(m) => mem'[m] = mem[m])
    <3>1. CASE Stored(m) /\ mem' = [mem EXCEPT ![m].encrypted = FALSE]
      BY <1>1, <3>1 DEF MemRow
    <3>2. CASE UNCHANGED mem
      BY <1>1, <3>2
    <3> QED
      BY <1>5, <3>1, <3>2 DEF Revert
  <2>4. UNCHANGED <<job, fragments, worker, pipe, client, requests, losses>>
    BY <1>5 DEF Revert
  <2>5. faults' \in 0..MaxFaults
    BY <1>5, MemoryAssumption DEF Revert, Fault, Types
  <2>6. cause' \in [Memories -> Causes] /\ \A k \in Memories : cause[k] \subseteq cause'[k]
        /\ ("overtaken" \in cause'[k] => "overtaken" \in cause[k])
    BY <1>1, <1>5 DEF Revert, Blame, Causes
  <2>7. RowShape(m)'
    BY <1>2, <2>1, <2>2, <2>3, <2>4 DEF RowShape, Stored
  <2>8. \A k \in Memories : RowShape(k)'
    BY <2>2, <2>3, <2>4, <2>7, RowStays
  <2>9. RowsGoOn
    BY <2>1, <2>2, <2>3 DEF RowsGoOn, Stored
  <2> QED
    BY <2>2, <2>3, <2>4, <2>5, <2>6, <2>8, <2>9
<1>6. CASE StoreDies(m)
  <2>1. /\ store[m] \notin {"new", "stored"} /\ \A k \in Memories \ {m} : store'[k] = store[k]
        /\ store'[m] = "stored"
        /\ store' \in [Memories -> {"new", "wraps", "revert", "enqueue", "stored"}]
    BY <1>1, <1>6 DEF StoreDies
  <2>2. UNCHANGED <<mem, job, fragments, worker, pipe, client, requests, losses>>
    BY <1>6 DEF StoreDies
  <2>3. faults' \in 0..MaxFaults
    BY <1>6, MemoryAssumption DEF StoreDies, Fault, Types
  <2>4. cause' \in [Memories -> Causes] /\ \A k \in Memories : cause[k] \subseteq cause'[k]
        /\ ("overtaken" \in cause'[k] => "overtaken" \in cause[k])
    BY <1>1, <1>6 DEF StoreDies, Causes
  <2>5. \A k \in Memories : RowShape(k)'
    <3>1. RowShape(m)'
      BY <1>2, <2>1, <2>2 DEF RowShape, Stored
    <3> QED
      BY <2>1, <2>2, <3>1, RowStays
  <2>6. RowsGoOn
    BY <2>1, <2>2 DEF RowsGoOn, Stored
  <2> QED
    BY <1>1, <2>1, <2>2, <2>3, <2>4, <2>5, <2>6
<1> QED
  BY <1>3, <1>4, <1>5, <1>6

LEMMA StoreTypes ==
    ASSUME Types, NEW m \in Memories, Insert(m) \/ WriteWraps(m) \/ Revert(m) \/ StoreDies(m)
    PROVE  Types'
<1>1. /\ mem' \in [Memories -> MemRow]
      /\ store' \in [Memories -> {"new", "wraps", "revert", "enqueue", "stored"}]
      /\ cause' \in [Memories -> Causes] /\ faults' \in 0..MaxFaults
      /\ \A k \in Memories : RowShape(k)'
      /\ RowsGoOn
      /\ UNCHANGED <<job, fragments, worker, pipe, client, requests, losses>>
  BY StoreRows
<1>2. /\ \A c \in Clients : ClientShape(c)'
      /\ \A w \in Workers : WorkerShape(w)'
      /\ \A p \in Pipes : PipeShape(p)'
  <2>1. \A w \in Workers : worker[w].at = "running" => pipe[worker[w].pipe].at # "idle"
    BY DEF Types, WorkerShape
  <2> QED
    BY <1>1, <2>1, ClientsStay, PipesStay, WorkersStay
<1> QED
  BY <1>1, <1>2 DEF Types, Causes

LEMMA RunningPipe ==
    ASSUME Types, NEW w \in Workers, worker[w].at = "running"
    PROVE  /\ worker[w].pipe \in Pipes /\ pipe[worker[w].pipe].at # "idle"
           /\ pipe[worker[w].pipe].mem = InHand(w).mem
           /\ pipe[worker[w].pipe].proc = w
BY DEF Types, WorkerShape, WorkerRow

LEMMA EnqueueTypes ==
    ASSUME Types, NEW m \in Memories, Enqueue(m)
    PROVE  Types'
<1>1. /\ store \in [Memories -> {"new", "wraps", "revert", "enqueue", "stored"}]
      /\ job \in [Memories -> JobRow]
      /\ \A k \in Memories : RowShape(k)
  BY DEF Types
<1>2. /\ store[m] = "enqueue" /\ \A k \in Memories \ {m} : store'[k] = store[k]
      /\ store'[m] = "stored"
      /\ store' \in [Memories -> {"new", "wraps", "revert", "enqueue", "stored"}]
  BY <1>1 DEF Enqueue
<1>3. UNCHANGED <<mem, fragments, worker, client, requests, losses>>
  BY DEF Enqueue
<1>4. RowsGoOn
  BY <1>2, <1>3 DEF RowsGoOn, Stored
<1>5. CASE /\ Stored(m) /\ UNCHANGED <<pipe, faults, cause>>
           /\ job' = [job EXCEPT ![m] = [status |-> "pending", retry |-> TRUE, attempts |-> 0]]
  <2>1. /\ job' \in [Memories -> JobRow] /\ \A k \in Memories \ {m} : job'[k] = job[k]
        /\ job'[m].status = "pending"
    BY <1>1, <1>5 DEF JobRow
  <2>2. RowShape(m)'
    BY <1>1, <1>2, <1>3, <1>5, <2>1 DEF RowShape, Stored
  <2>3. \A k \in Memories : RowShape(k)'
    BY <1>2, <1>3, <2>1, <2>2, RowStays
  <2>4. /\ \A c \in Clients : ClientShape(c)'
        /\ \A w \in Workers : WorkerShape(w)'
        /\ \A p \in Pipes : PipeShape(p)'
    BY <1>3, <1>4, <1>5, RunningPipe, ClientsStay, PipesStay, WorkersStay
  <2> QED
    BY <1>2, <1>3, <1>5, <2>1, <2>3, <2>4 DEF Types
<1>6. CASE /\ Fault \/ UNCHANGED faults
           /\ \E w \in Workers : StartPipe(m, w, FALSE)
           /\ UNCHANGED job
  <2>1. PICK w \in Workers : StartPipe(m, w, FALSE)
    BY <1>6
  <2>2. RowShape(m)'
    BY <1>1, <1>2, <1>3, <1>6 DEF RowShape, Stored
  <2>3. \A k \in Memories : RowShape(k)'
    BY <1>2, <1>3, <1>6, <2>2, RowStays
  <2>4. PICK f \in Pipes :
           /\ pipe' \in [Pipes -> Busy \cup {Rest}] /\ cause' \in [Memories -> Causes]
           /\ pipe[f].at = "idle" /\ pipe'[f] \in Busy /\ pipe'[f].mem = m
           /\ \A p \in Pipes \ {f} : pipe'[p] = pipe[p]
    BY <2>1, PipeStarts
  <2>5. \A p \in Pipes : PipeShape(p)'
    <3>1. PipeShape(f)'
      BY <1>2, <2>4 DEF PipeShape
    <3> QED
      BY <1>4, <2>4, <3>1, PipesStay
  <2>6. \A v \in Workers : WorkerShape(v)'
    BY <1>3, <1>4, <2>4, RunningPipe, WorkersStay
  <2>7. \A c \in Clients : ClientShape(c)'
    BY <1>3, <1>4, ClientsStay
  <2>8. faults' \in 0..MaxFaults
    BY <1>6, MemoryAssumption DEF Fault, Types
  <2> QED
    BY <1>2, <1>3, <1>6, <2>3, <2>4, <2>5, <2>6, <2>7, <2>8 DEF Types, Causes
<1> QED
  BY <1>5, <1>6 DEF Enqueue

LEMMA DeleteTypes ==
    ASSUME Types, NEW m \in Memories, Delete(m)
    PROVE  Types'
<1> DEFINE gone == [NoMemory EXCEPT !.row = "deleted"]
<1>1. /\ gone \in MemRow /\ gone.row = "deleted" /\ gone.wraps = {} /\ gone.encrypted = FALSE
      /\ gone.revoked = FALSE
  BY DEF NoMemory, MemRow
<1>2. mem' = [mem EXCEPT ![m] = gone] /\ job' = [job EXCEPT ![m] = NoJob]
      /\ fragments' = [fragments EXCEPT ![m] = 0]
      /\ UNCHANGED <<store, worker, pipe, client, faults, losses, cause>>
  BY DEF Delete
<1> HIDE DEF gone
<1>3. NoJob \in JobRow
  BY DEF NoJob, JobRow
<1>4. /\ mem' \in [Memories -> MemRow] /\ mem'[m] = gone
      /\ \A k \in Memories \ {m} : mem'[k] = mem[k]
      /\ job' \in [Memories -> JobRow] /\ job'[m] = NoJob
      /\ \A k \in Memories \ {m} : job'[k] = job[k]
      /\ fragments' \in [Memories -> Nat] /\ fragments'[m] = 0
      /\ \A k \in Memories \ {m} : fragments'[k] = fragments[k]
  BY <1>1, <1>2, <1>3 DEF Types
<1>5. RowShape(m)'
  BY <1>1, <1>2, <1>4 DEF RowShape, Stored
<1>6. \A k \in Memories : RowShape(k)'
  BY <1>2, <1>4, <1>5, RowStays
<1>7. RowsGoOn
  BY <1>1, <1>2, <1>4 DEF RowsGoOn, Stored
<1>8. requests' \in 0..MaxRequests
  BY MemoryAssumption DEF Delete, Request, Types
<1>9. /\ \A c \in Clients : ClientShape(c)'
      /\ \A w \in Workers : WorkerShape(w)'
      /\ \A p \in Pipes : PipeShape(p)'
  BY <1>2, <1>7, RunningPipe, ClientsStay, PipesStay, WorkersStay
<1> QED
  BY <1>2, <1>4, <1>6, <1>8, <1>9 DEF Types

(* The pipelines: none moves to another memory or process, and none starts.*)
LEMMA PipeMoves ==
    ASSUME Types, NEW p \in Pipes, pipe[p].at # "idle",
           NEW at \in {"clear", "insert", "link"}, Step(p, at)
    PROVE  /\ pipe' \in [Pipes -> Busy \cup {Rest}]
           /\ \A q \in Pipes \ {p} : pipe'[q] = pipe[q]
           /\ pipe'[p].at = at /\ pipe'[p].mem = pipe[p].mem /\ pipe'[p].proc = pipe[p].proc
           /\ pipe'[p].replace = pipe[p].replace /\ pipe'[p] \in Busy
           /\ pipe[p].mem \in Memories
<1>1. pipe[p] \in Busy /\ pipe \in [Pipes -> Busy \cup {Rest}]
  BY DEF Types, PipeShape
<1>2. pipe' = [pipe EXCEPT ![p] = [pipe[p] EXCEPT !.at = at]]
  BY DEF Step
<1> DEFINE r == [pipe[p] EXCEPT !.at = at]
<1>3. r \in Busy /\ r.at = at /\ r.mem = pipe[p].mem /\ r.proc = pipe[p].proc
      /\ r.replace = pipe[p].replace
  BY <1>1 DEF Busy
<1> HIDE DEF r
<1>4. pipe' = [pipe EXCEPT ![p] = r]
  BY <1>2 DEF r
<1>5. pipe[p].mem \in Memories
  BY <1>1 DEF Busy
<1> QED
  BY <1>1, <1>3, <1>4, <1>5

LEMMA PipeTypes ==
    ASSUME Types, NEW p \in Pipes, Embed(p) \/ ClearFragments(p) \/ InsertFragments(p)
    PROVE  Types'
<1>1. PICK m \in Memories : /\ m = pipe[p].mem /\ pipe[p].at # "idle" /\ store[m] = "stored"
                            /\ pipe[p] \in Busy
  BY DEF Embed, ClearFragments, InsertFragments, Types, PipeShape, Busy
<1>2. \E at \in {"clear", "insert", "link"} : Step(p, at)
  BY DEF Embed, ClearFragments, InsertFragments
<1>3. /\ pipe' \in [Pipes -> Busy \cup {Rest}]
      /\ \A q \in Pipes \ {p} : pipe'[q] = pipe[q]
      /\ pipe'[p].mem = m /\ pipe'[p].proc = pipe[p].proc /\ pipe'[p].at # "idle"
      /\ pipe'[p] \in Busy
  BY <1>1, <1>2, PipeMoves
<1>4. UNCHANGED <<job, store, worker, client, requests, losses>>
  BY DEF Embed, ClearFragments, InsertFragments
<1>5. /\ cause' \in [Memories -> Causes] /\ faults' \in 0..MaxFaults
  <2>1. UNCHANGED <<faults, cause>> \/ (Fault /\ \E c \in {"unembedded", "uncleared"} : Blame(m, c))
    BY <1>1 DEF Embed, ClearFragments, InsertFragments
  <2> QED
    BY <2>1, MemoryAssumption DEF Fault, Blame, Types, Causes
<1>6. /\ mem' \in [Memories -> MemRow] /\ \A k \in Memories \ {m} : mem'[k] = mem[k]
      /\ mem'[m].row = mem[m].row /\ mem'[m].wraps = mem[m].wraps
      /\ mem'[m].revoked = mem[m].revoked /\ mem'[m].encrypted = mem[m].encrypted
  <2>1. mem' = mem \/ mem' = [mem EXCEPT ![m].embedding = TRUE]
    BY <1>1 DEF Embed, ClearFragments, InsertFragments
  <2>2. mem \in [Memories -> MemRow]
    BY DEF Types
  <2>3. CASE mem' = [mem EXCEPT ![m].embedding = TRUE]
    <3>1. [mem[m] EXCEPT !.embedding = TRUE] \in MemRow
      BY <2>2 DEF MemRow
    <3>2. mem'[m] = [mem[m] EXCEPT !.embedding = TRUE]
          /\ \A k \in Memories \ {m} : mem'[k] = mem[k]
      BY <2>2, <2>3
    <3>3. mem' \in [Memories -> MemRow]
      BY <2>2, <2>3, <3>1
    <3> QED
      BY <2>2, <3>2, <3>3 DEF MemRow
  <2> QED
    BY <2>1, <2>2, <2>3
<1>7. /\ fragments' \in [Memories -> Nat] /\ \A k \in Memories \ {m} : fragments'[k] = fragments[k]
      /\ ~Stored(m) => fragments'[m] = 0
  <2>1. \/ fragments' = fragments
        \/ fragments' = [fragments EXCEPT ![m] = 0]
        \/ Stored(m) /\ fragments' = [fragments EXCEPT ![m] = @ + 1]
    BY <1>1 DEF Embed, ClearFragments, InsertFragments
  <2>2. fragments \in [Memories -> Nat] /\ (~Stored(m) => fragments[m] = 0)
    BY <1>1 DEF Types, RowShape
  <2> QED
    BY <1>1, <2>1, <2>2
<1>8. RowShape(m)'
  <2>1. RowShape(m)
    BY <1>1 DEF Types
  <2> QED
    BY <1>1, <1>4, <1>6, <1>7, <2>1 DEF RowShape, Stored
<1>9. \A k \in Memories : RowShape(k)'
  BY <1>4, <1>6, <1>7, <1>8, RowStays
<1>10. RowsGoOn
  BY <1>1, <1>4, <1>6 DEF RowsGoOn, Stored
<1>11. \A c \in Clients : ClientShape(c)'
  BY <1>4, <1>10, ClientsStay
<1>12. \A q \in Pipes : PipeShape(q)'
  <2>1. PipeShape(p)'
    BY <1>1, <1>3, <1>4 DEF PipeShape
  <2> QED
    BY <1>3, <1>10, <2>1, PipesStay
<1>13. ASSUME NEW w \in Workers PROVE WorkerShape(w)'
  <2>1. ASSUME worker[w].at = "running"
        PROVE  /\ pipe'[worker[w].pipe].at # "idle"
               /\ pipe'[worker[w].pipe].mem = pipe[worker[w].pipe].mem
               /\ pipe'[worker[w].pipe].proc = pipe[worker[w].pipe].proc
    <3>1. PICK q \in Pipes : q = worker[w].pipe /\ pipe[q].at # "idle"
      BY <2>1, RunningPipe
    <3> QED
      BY <1>1, <1>3, <3>1
  <2> QED
    BY <1>4, <1>10, <2>1, WorkersStay
<1> QED
  BY <1>3, <1>4, <1>5, <1>6, <1>7, <1>9, <1>11, <1>12, <1>13 DEF Types, Causes

(* A worker goes on with its batch, and no longer waits for a pipeline.    *)
LEMMA WorkerTurns ==
    ASSUME Types, RowsGoOn, NEW w \in Workers, worker[w].at # "idle",
           worker'[w].batch = worker[w].batch, worker'[w].at \in {"done", "failed"},
           worker'[w].pipe = NoPipe
    PROVE  WorkerShape(w)'
<1>1. WorkerShape(w) /\ Claims(w)' = Claims(w)
  BY DEF Types, Claims
<1>2. \A c \in Claims(w) : c.mem \in Memories
  BY HeadIsClaim DEF Claim
<1> QED
  BY <1>1, <1>2 DEF WorkerShape, RowsGoOn

LEMMA PipeEndTypes ==
    ASSUME Types, NEW p \in Pipes, PipeEnds(p)
    PROVE  /\ Types'
           /\ UNCHANGED <<mem, job, fragments, store, client, requests, faults, losses, cause>>
           /\ pipe[p].at = "link" /\ pipe'[p].at = "idle"
           /\ \A q \in Pipes \ {p} : pipe'[q] = pipe[q]
           /\ \A w \in Workers :
                 \/ worker'[w] = worker[w] /\ worker[w].pipe # p
                 \/ /\ worker[w].at = "running" /\ worker[w].pipe = p /\ worker'[w].at = "done"
                    /\ worker'[w].batch = worker[w].batch /\ worker'[w].pipe = NoPipe
<1>1. UNCHANGED <<mem, job, fragments, store, client, requests, faults, losses, cause>>
  BY DEF PipeEnds, db, hist
<1>2. pipe[p].at = "link" /\ pipe' = [pipe EXCEPT ![p] = Rest]
  BY DEF PipeEnds, Rest
<1>3. pipe' \in [Pipes -> Busy \cup {Rest}] /\ pipe'[p].at = "idle"
      /\ \A q \in Pipes \ {p} : pipe'[q] = pipe[q]
  <2>1. Rest.at = "idle"
    BY DEF Rest
  <2> QED
    BY <1>2, <2>1 DEF Types
<1>4. RowsGoOn
  BY <1>1 DEF RowsGoOn, Stored
<1>5. ASSUME NEW w \in Workers
      PROVE  /\ worker'[w] \in WorkerRow
             /\ \/ worker'[w] = worker[w] /\ worker[w].pipe # p
                \/ /\ worker[w].at = "running" /\ worker[w].pipe = p /\ worker'[w].at = "done"
                   /\ worker'[w].batch = worker[w].batch /\ worker'[w].pipe = NoPipe
  <2>1. worker[w] \in WorkerRow /\ (worker[w].at = "running" <=> worker[w].pipe # NoPipe)
        /\ p # NoPipe
    BY MemoryAssumption DEF Types, WorkerShape
  <2>2. worker'[w] = IF worker[w].pipe = p
                     THEN [worker[w] EXCEPT !.at = "done", !.pipe = NoPipe] ELSE worker[w]
    BY DEF PipeEnds
  <2> QED
    BY <2>1, <2>2 DEF WorkerRow
<1>6. worker' \in [Workers -> WorkerRow]
  <2>1. worker' = [w \in Workers |->
           IF worker[w].pipe = p THEN [worker[w] EXCEPT !.at = "done", !.pipe = NoPipe]
           ELSE worker[w]]
    BY DEF PipeEnds
  <2> QED
    BY <1>5, <2>1
<1>7. \A k \in Memories : RowShape(k)'
  BY <1>1, RowStays
<1>8. \A q \in Pipes : PipeShape(q)'
  BY <1>3, <1>4, PipesStay
<1>9. \A c \in Clients : ClientShape(c)'
  BY <1>1, <1>4, ClientsStay
<1>10. ASSUME NEW w \in Workers PROVE WorkerShape(w)'
  <2>1. CASE worker'[w] = worker[w] /\ worker[w].pipe # p
    <3>1. worker[w].at = "running" => pipe'[worker[w].pipe] = pipe[worker[w].pipe]
                                      /\ pipe[worker[w].pipe].at # "idle"
      BY <1>3, <2>1, RunningPipe
    <3> QED
      BY <1>4, <2>1, <3>1, WorkersStay
  <2>2. CASE worker[w].at = "running" /\ worker'[w].at = "done"
             /\ worker'[w].batch = worker[w].batch /\ worker'[w].pipe = NoPipe
    BY <1>4, <2>2, WorkerTurns
  <2> QED
    BY <1>5, <2>1, <2>2
<1>11. Types'
  BY <1>1, <1>3, <1>6, <1>7, <1>8, <1>9, <1>10 DEF Types
<1> QED
  BY <1>1, <1>2, <1>3, <1>5, <1>11

(* The owner's requests: what they write of the one memory they are about. *)
LEMMA ReadTypes ==
    ASSUME Types, NEW c \in Clients, NEW m \in Memories,
           ReadToRevoke(c, m) \/ ReadToRedelegate(c, m)
    PROVE  /\ Types'
           /\ UNCHANGED <<mem, job, fragments, store, worker, pipe, faults, losses, cause>>
           /\ client'[c].mem = m /\ client'[c].at \in {"revoke", "redelegate"}
           /\ client'[c].at = "revoke" => ReadToRevoke(c, m) /\ client'[c].summary = mem[m].summary
           /\ \A d \in Clients \ {c} : client'[d] = client[d]
<1>1. UNCHANGED <<mem, job, fragments, store, worker, pipe, faults, losses, cause>>
  BY DEF ReadToRevoke, ReadToRedelegate, db
<1>2. requests' \in 0..MaxRequests
  BY MemoryAssumption DEF ReadToRevoke, ReadToRedelegate, Request, Types
<1>3. mem[m] \in MemRow /\ RowShape(m) /\ Stored(m) /\ "owner" \in mem[m].wraps
  <2>1. mem[m] \in MemRow /\ RowShape(m)
    BY DEF Types
  <2>2. Stored(m) /\ mem[m].wraps # {}
    BY DEF ReadToRevoke, ReadToRedelegate
  <2> QED
    BY <2>1, <2>2 DEF RowShape
<1>4. store[m] \notin {"new", "wraps", "revert"}
  BY <1>3 DEF RowShape
<1>5. \E r \in Asking : /\ client' = [client EXCEPT ![c] = r] /\ r.mem = m
                        /\ r.at = "revoke" => ReadToRevoke(c, m) /\ r.summary = mem[m].summary
  <2>1. CASE ReadToRevoke(c, m)
    <3> DEFINE r == [at |-> "revoke", mem |-> m, summary |-> mem[m].summary,
                     embedding |-> mem[m].embedding]
    <3>1. r \in Asking
      BY <1>3 DEF Asking, MemRow
    <3>2. client' = [client EXCEPT ![c] = r] /\ r.mem = m /\ r.summary = mem[m].summary
      BY <2>1 DEF ReadToRevoke
    <3> QED
      BY <2>1, <3>1, <3>2
  <2>2. CASE ReadToRedelegate(c, m)
    <3>1. PICK e \in BOOLEAN : e = (mem[m].sealed = "summary")
      <4>1. (mem[m].sealed = "summary") \in BOOLEAN
        OBVIOUS
      <4> QED
        BY <4>1
    <3> DEFINE r == [at |-> "redelegate", mem |-> m, summary |-> e,
                     embedding |-> mem[m].sealedEmbedding]
    <3>2. r \in Asking /\ r.at # "revoke"
      BY <1>3 DEF Asking, MemRow
    <3>3. client' = [client EXCEPT ![c] = r] /\ r.mem = m
      BY <2>2, <3>1 DEF ReadToRedelegate
    <3> HIDE DEF r
    <3> QED
      BY <3>2, <3>3
  <2> QED
    BY <2>1, <2>2
<1>6. PICK r \in Asking : /\ client' = [client EXCEPT ![c] = r] /\ r.mem = m
                          /\ r.at = "revoke" => ReadToRevoke(c, m) /\ r.summary = mem[m].summary
  BY <1>5
<1>7. /\ client' \in [Clients -> Asking \cup {Rest}] /\ client'[c] = r
      /\ \A d \in Clients \ {c} : client'[d] = client[d]
      /\ r.at \in {"revoke", "redelegate"} /\ r.at # "idle"
  <2>1. client \in [Clients -> Asking \cup {Rest}]
    BY DEF Types
  <2>2. r.at \in {"revoke", "redelegate"}
    BY DEF Asking
  <2> QED
    BY <1>6, <2>1, <2>2
<1>8. RowsGoOn
  BY <1>1 DEF RowsGoOn, Stored
<1>9. \A d \in Clients : ClientShape(d)'
  <2>1. ClientShape(c)'
    BY <1>1, <1>3, <1>4, <1>6, <1>7 DEF ClientShape, Stored
  <2> QED
    BY <1>7, <1>8, <2>1, ClientsStay
<1>10. /\ \A k \in Memories : RowShape(k)'
       /\ \A w \in Workers : WorkerShape(w)'
       /\ \A p \in Pipes : PipeShape(p)'
  BY <1>1, <1>8, RunningPipe, RowStays, PipesStay, WorkersStay
<1>11. Types'
  BY <1>1, <1>2, <1>7, <1>9, <1>10 DEF Types
<1> QED
  BY <1>1, <1>6, <1>7, <1>11

(* A revocation and a re-delegation write the row the request was about,   *)
(* and leave its owner's wrap alone.                                       *)
Answers(c, m) ==
    /\ client' = [client EXCEPT ![c] = Rest]
    /\ UNCHANGED <<job, store, worker, pipe, requests, faults, losses>>
    /\ fragments' \in [Memories -> Nat]
    /\ \A k \in Memories : k # m => fragments'[k] = fragments[k]
    /\ fragments'[m] = fragments[m] \/ (fragments'[m] = 0 /\ "cleared" \in cause'[m])
    /\ cause' \in [Memories -> Causes]
    /\ \A k \in Memories : /\ cause[k] \subseteq cause'[k]
                           /\ k # m => cause'[k] = cause[k] /\ mem'[k] = mem[k]
                           /\ "overtaken" \in cause'[k] => "overtaken" \in cause[k]
                           /\ "overlap" \in cause'[k] => "overlap" \in cause[k]
                           /\ "uncleared" \in cause'[k] => "uncleared" \in cause[k]
                           /\ "unwrapped" \in cause'[k] => "unwrapped" \in cause[k]
    /\ mem' \in [Memories -> MemRow]
    /\ mem'[m].row = mem[m].row /\ mem'[m].encrypted = mem[m].encrypted

LEMMA RevokeWrites ==
    ASSUME Types, NEW c \in Clients, Revoke(c)
    PROVE  \E m \in Memories :
               /\ m = client[c].mem /\ client[c].at = "revoke" /\ client[c] \in Asking
               /\ Answers(c, m)
               /\ ~Stored(m) => mem' = mem /\ cause' = cause /\ fragments' = fragments
               /\ Stored(m) =>
                     /\ fragments'[m] = 0
                     /\ mem'[m].wraps = mem[m].wraps \ {"provider"} /\ mem'[m].revoked
                     /\ ~mem'[m].summary /\ ~mem'[m].embedding
                     /\ mem'[m].sealed = IF client[c].summary THEN "summary" ELSE "blank"
                     /\ mem'[m].sealedEmbedding = client[c].embedding
                     /\ client[c].embedding \/ "unembedded" \in cause'[m]
                     /\ UnderWay(m) => "raced" \in cause'[m]
                     /\ "blanked" \in cause'[m] => "blanked" \in cause[m]
<1>1. client[c] \in Asking /\ client[c].at = "revoke" /\ mem \in [Memories -> MemRow]
      /\ cause \in [Memories -> Causes]
  BY DEF Types, ClientShape, Revoke, Causes
<1>2. PICK m \in Memories : m = client[c].mem
  BY <1>1 DEF Asking
<1>3. PICK s \in BOOLEAN, e \in BOOLEAN : s = client[c].summary /\ e = client[c].embedding
  BY <1>1 DEF Asking
<1>4. client' = [client EXCEPT ![c] = Rest]
      /\ UNCHANGED <<job, store, worker, pipe, requests, faults, losses>>
  BY DEF Revoke, Rest
<1>7. fragments \in [Memories -> Nat]
  BY DEF Types
<1>5. CASE ~Stored(m)
  <2>1. mem' = mem /\ cause' = cause /\ fragments' = fragments
    BY <1>2, <1>5 DEF Revoke
  <2>2. Answers(c, m)
    BY <1>1, <1>4, <1>7, <2>1 DEF Answers
  <2> QED
    BY <1>1, <1>2, <1>5, <2>1, <2>2
<1>6. CASE Stored(m)
  <2> DEFINE seal == IF s THEN "summary" ELSE "blank"
  <2> DEFINE r == [mem[m] EXCEPT !.summary = FALSE, !.sealed = seal, !.embedding = FALSE,
                   !.sealedEmbedding = e, !.revoked = TRUE, !.wraps = mem[m].wraps \ {"provider"}]
  <2> DEFINE why == cause[m] \cup (IF UnderWay(m) THEN {"raced"} ELSE {})
                    \cup (IF e THEN {} ELSE {"unembedded"})
                    \cup (IF fragments[m] > 0 THEN {"cleared"} ELSE {})
  <2>1. mem' = [mem EXCEPT ![m].summary = FALSE, ![m].sealed = seal, ![m].embedding = FALSE,
                  ![m].sealedEmbedding = e, ![m].revoked = TRUE, ![m].wraps = @ \ {"provider"}]
        /\ cause' = [cause EXCEPT ![m] = why] /\ fragments' = [fragments EXCEPT ![m] = 0]
    BY <1>2, <1>3, <1>6 DEF Revoke
  <2>2. /\ r \in MemRow /\ r.row = mem[m].row /\ r.encrypted = mem[m].encrypted
        /\ r.wraps = mem[m].wraps \ {"provider"} /\ r.revoked = TRUE /\ r.summary = FALSE
        /\ r.embedding = FALSE /\ r.sealed = seal /\ r.sealedEmbedding = e
    BY <1>1 DEF MemRow
  <2>3. mem'[m] = r /\ \A k \in Memories \ {m} : mem'[k] = mem[k]
    BY <1>1, <2>1
  <2>4. mem' \in [Memories -> MemRow]
    <3>1. mem' = [mem EXCEPT ![m] = mem'[m]]
      BY <1>1, <2>1
    <3> QED
      BY <1>1, <2>2, <2>3, <3>1
  <2>5. /\ why \in Causes /\ cause[m] \subseteq why /\ (e \/ "unembedded" \in why)
        /\ (UnderWay(m) => "raced" \in why)
        /\ why \subseteq cause[m] \cup {"raced", "unembedded", "cleared"}
        /\ (fragments[m] > 0 => "cleared" \in why)
    BY <1>1 DEF Causes
  <2> HIDE DEF r, why
  <2>6. cause' \in [Memories -> Causes] /\ cause'[m] = why
        /\ \A k \in Memories \ {m} : cause'[k] = cause[k]
    BY <1>1, <2>1, <2>5
  <2>7. /\ fragments' \in [Memories -> Nat] /\ fragments'[m] = 0
        /\ \A k \in Memories \ {m} : fragments'[k] = fragments[k]
        /\ fragments[m] = 0 \/ fragments[m] > 0
    BY <1>7, <2>1
  <2>8. Answers(c, m)
    BY <1>4, <2>2, <2>3, <2>4, <2>5, <2>6, <2>7 DEF Answers
  <2> QED
    BY <1>1, <1>2, <1>3, <1>6, <2>2, <2>3, <2>5, <2>6, <2>7, <2>8
<1> QED
  BY <1>5, <1>6

LEMMA RedelegateWrites ==
    ASSUME Types, NEW c \in Clients, Redelegate(c)
    PROVE  \E m \in Memories :
               /\ m = client[c].mem /\ client[c].at = "redelegate" /\ client[c] \in Asking
               /\ Answers(c, m)
               /\ fragments' = fragments
               /\ ~Stored(m) => mem' = mem /\ cause' = cause
               /\ Stored(m) =>
                     /\ mem'[m].wraps = mem[m].wraps \cup {"provider"} /\ ~mem'[m].revoked
                     /\ mem'[m].summary = client[c].summary
                     /\ client[c].summary \/ "blanked" \in cause'[m]
                     /\ mem'[m].embedding = client[c].embedding
                     /\ client[c].embedding \/ "unembedded" \in cause'[m]
                     /\ mem'[m].sealedEmbedding = FALSE
<1>1. client[c] \in Asking /\ client[c].at = "redelegate" /\ mem \in [Memories -> MemRow]
      /\ cause \in [Memories -> Causes]
  BY DEF Types, ClientShape, Redelegate, Causes
<1>2. PICK m \in Memories : m = client[c].mem
  BY <1>1 DEF Asking
<1>3. PICK s \in BOOLEAN, e \in BOOLEAN : s = client[c].summary /\ e = client[c].embedding
  BY <1>1 DEF Asking
<1>4. client' = [client EXCEPT ![c] = Rest]
      /\ UNCHANGED <<job, fragments, store, worker, pipe, requests, faults, losses>>
  BY DEF Redelegate, Rest
<1>7. fragments \in [Memories -> Nat] /\ fragments' = fragments
  BY DEF Types, Redelegate
<1>5. CASE ~Stored(m)
  <2>1. mem' = mem /\ cause' = cause
    BY <1>2, <1>5 DEF Redelegate
  <2>2. Answers(c, m)
    BY <1>1, <1>4, <1>7, <2>1 DEF Answers
  <2> QED
    BY <1>1, <1>2, <1>5, <1>7, <2>1, <2>2
<1>6. CASE Stored(m)
  <2> DEFINE r == [mem[m] EXCEPT !.summary = s, !.sealed = "none", !.embedding = e,
                   !.sealedEmbedding = FALSE, !.revoked = FALSE,
                   !.wraps = mem[m].wraps \cup {"provider"}]
  <2> DEFINE why == cause[m] \cup (IF s THEN {} ELSE {"blanked"})
                    \cup (IF e THEN {} ELSE {"unembedded"})
  <2>1. mem' = [mem EXCEPT ![m].summary = s, ![m].sealed = "none", ![m].embedding = e,
                  ![m].sealedEmbedding = FALSE, ![m].revoked = FALSE,
                  ![m].wraps = @ \cup {"provider"}]
        /\ cause' = [cause EXCEPT ![m] = why]
    BY <1>2, <1>3, <1>6 DEF Redelegate
  <2>2. /\ r \in MemRow /\ r.row = mem[m].row /\ r.encrypted = mem[m].encrypted
        /\ r.wraps = mem[m].wraps \cup {"provider"} /\ r.revoked = FALSE /\ r.summary = s
        /\ r.embedding = e /\ r.sealedEmbedding = FALSE
    BY <1>1 DEF MemRow
  <2>3. mem'[m] = r /\ \A k \in Memories \ {m} : mem'[k] = mem[k]
    BY <1>1, <2>1
  <2>4. mem' \in [Memories -> MemRow]
    <3>1. mem' = [mem EXCEPT ![m] = mem'[m]]
      BY <1>1, <2>1
    <3> QED
      BY <1>1, <2>2, <2>3, <3>1
  <2>5. /\ why \in Causes /\ cause[m] \subseteq why /\ (e \/ "unembedded" \in why)
        /\ (s \/ "blanked" \in why)
        /\ why \subseteq cause[m] \cup {"blanked", "unembedded"}
    BY <1>1 DEF Causes
  <2> HIDE DEF r, why
  <2>6. cause' \in [Memories -> Causes] /\ cause'[m] = why
        /\ \A k \in Memories \ {m} : cause'[k] = cause[k]
    BY <1>1, <2>1, <2>5
  <2>7. Answers(c, m)
    BY <1>4, <1>7, <2>2, <2>3, <2>4, <2>5, <2>6 DEF Answers
  <2> QED
    BY <1>1, <1>2, <1>3, <1>6, <1>7, <2>2, <2>3, <2>5, <2>6, <2>7
<1> QED
  BY <1>5, <1>6

LEMMA AnswerTypes ==
    ASSUME Types, NEW c \in Clients, Revoke(c) \/ Redelegate(c)
    PROVE  Types'
<1>1. PICK m \in Memories :
         /\ m = client[c].mem /\ client[c].at # "idle"
         /\ Answers(c, m)
         /\ ~Stored(m) => mem' = mem /\ fragments' = fragments
         /\ Stored(m) =>
               \/ mem'[m].wraps = mem[m].wraps \ {"provider"}
               \/ mem'[m].wraps = mem[m].wraps \cup {"provider"} /\ ~mem'[m].revoked
  <2>1. CASE Revoke(c)
    BY <2>1, RevokeWrites
  <2>2. CASE Redelegate(c)
    BY <2>2, RedelegateWrites
  <2> QED
    BY <2>1, <2>2
<1>2. /\ client' = [client EXCEPT ![c] = Rest]
      /\ fragments' \in [Memories -> Nat] /\ (store[m] # "stored" => fragments[m] = 0)
      /\ \A k \in Memories : k # m => fragments'[k] = fragments[k]
      /\ fragments'[m] \in {0, fragments[m]}
      /\ UNCHANGED <<job, store, worker, pipe, requests, faults, losses>>
      /\ cause' \in [Memories -> Causes] /\ mem' \in [Memories -> MemRow]
      /\ \A k \in Memories : k # m => mem'[k] = mem[k]
      /\ mem'[m].row = mem[m].row /\ mem'[m].encrypted = mem[m].encrypted
  BY <1>1 DEF Answers, Types, RowShape
<1>3. /\ client' \in [Clients -> Asking \cup {Rest}] /\ client'[c].at = "idle"
      /\ \A d \in Clients \ {c} : client'[d] = client[d]
  <2>1. Rest.at = "idle"
    BY DEF Rest
  <2> QED
    BY <1>2, <2>1 DEF Types
<1>4. RowShape(m) /\ store[m] \notin {"new", "wraps", "revert"} /\ mem[m] \in MemRow
      /\ (Stored(m) => "owner" \in mem[m].wraps)
  BY <1>1 DEF Types, ClientShape
<1>5. RowShape(m)'
  <2>1. CASE ~Stored(m)
    BY <1>1, <1>2, <2>1, RowStays
  <2>2. CASE Stored(m)
    <3>1. /\ "owner" \in mem'[m].wraps /\ mem[m].encrypted
          /\ (mem'[m].revoked => mem'[m].wraps = {"owner"})
      <4>1. mem[m].wraps \subseteq {"owner", "provider"}
        BY <1>4 DEF MemRow
      <4> QED
        BY <1>1, <1>4, <2>2, <4>1 DEF RowShape
    <3> QED
      BY <1>2, <1>4, <2>2, <3>1 DEF RowShape, Stored
  <2> QED
    BY <2>1, <2>2
<1>6. \A k \in Memories : RowShape(k)'
  BY <1>2, <1>5, RowStays
<1>7. RowsGoOn
  BY <1>1, <1>2, <1>4 DEF RowsGoOn, Stored
<1>8. /\ \A d \in Clients : ClientShape(d)'
      /\ \A w \in Workers : WorkerShape(w)'
      /\ \A p \in Pipes : PipeShape(p)'
  BY <1>2, <1>3, <1>7, RunningPipe, ClientsStay, PipesStay, WorkersStay
<1> QED
  BY <1>2, <1>3, <1>6, <1>8 DEF Types, Causes

(* A queued job may change in any way but vanish.                          *)
LEMMA JobStays ==
    ASSUME Types, NEW k \in Memories, mem'[k] = mem[k], fragments'[k] = fragments[k],
           store'[k] = store[k], job[k] # NoJob, job'[k].status # "none"
    PROVE  RowShape(k)'
<1>1. RowShape(k)
  BY DEF Types
<1>2. job'[k] # NoJob
  BY DEF NoJob
<1> QED
  BY <1>1, <1>2 DEF RowShape, Stored

(* What a worker writes of the job it drops, when it writes.               *)
Records(w) ==
    LET m == InHand(w).mem IN
    /\ job' \in [Memories -> JobRow]
    /\ \A k \in Memories \ {m} : job'[k] = job[k]
    /\ \/ job'[m] = job[m]
       \/ /\ job[m] # NoJob /\ job'[m].attempts = job[m].attempts
          /\ \/ worker[w].at = "done" /\ job'[m].status = "done"
             \/ /\ worker[w].at = "failed" /\ job'[m].status = "failed"
                /\ job'[m].retry = (InHand(w).attempts < MaxAttempts)

LEMMA JobDropped ==
    ASSUME Types, NEW w \in Workers, RecordDone(w) \/ RecordFailed(w) \/ LoseOutcome(w)
    PROVE  /\ worker[w].at \in {"done", "failed"} /\ NextJob(w) /\ Records(w)
           /\ LoseOutcome(w) => job' = job
           /\ ~LoseOutcome(w) => job'[InHand(w).mem] = NoJob \/ job'[InHand(w).mem].status
                                       = worker[w].at
           /\ losses' \in [Memories -> Nat] /\ faults' \in 0..MaxFaults
           /\ \A k \in Memories : losses'[k] >= losses[k]
           /\ LoseOutcome(w) => losses'[InHand(w).mem] = losses[InHand(w).mem] + 1
           /\ UNCHANGED <<mem, fragments, store, pipe, client, requests, cause>>
<1>1. PICK m \in Memories : m = InHand(w).mem /\ worker[w].at \in {"done", "failed"}
  BY HeadIsClaim DEF RecordDone, RecordFailed, LoseOutcome
<1>2. job \in [Memories -> JobRow] /\ losses \in [Memories -> Nat] /\ faults \in 0..MaxFaults
  BY DEF Types
<1>3. NextJob(w) /\ UNCHANGED <<mem, fragments, store, pipe, client, requests, cause>>
  BY DEF RecordDone, RecordFailed, LoseOutcome, db, hist
<1>4. /\ losses' \in [Memories -> Nat] /\ faults' \in 0..MaxFaults
      /\ \A k \in Memories : losses'[k] >= losses[k]
      /\ LoseOutcome(w) => losses'[m] = losses[m] + 1
  <2>1. CASE LoseOutcome(w)
    BY <1>1, <1>2, <2>1, MemoryAssumption DEF LoseOutcome, Fault
  <2>2. CASE ~LoseOutcome(w)
    <3>1. UNCHANGED <<losses, faults>>
      BY <2>2 DEF RecordDone, RecordFailed, hist
    <3> QED
      BY <1>2, <2>2, <3>1
  <2> QED
    BY <2>1, <2>2
<1>5. CASE RecordDone(w) /\ job[m] # NoJob
  <2>1. job' = [job EXCEPT ![m].status = "done"] /\ worker[w].at = "done"
    BY <1>1, <1>5 DEF RecordDone, MarkDone
  <2>2. /\ job' \in [Memories -> JobRow] /\ \A k \in Memories \ {m} : job'[k] = job[k]
        /\ job'[m].status = "done" /\ job'[m].attempts = job[m].attempts
    BY <1>2, <2>1 DEF JobRow
  <2>3. Records(w)
    BY <1>1, <1>5, <2>1, <2>2 DEF Records
  <2>4. LoseOutcome(w) => job' = job
    BY DEF LoseOutcome, db
  <2> QED
    BY <1>1, <1>3, <1>4, <2>1, <2>2, <2>3, <2>4
<1>6. CASE RecordFailed(w) /\ job[m] # NoJob
  <2>1. PICK e \in BOOLEAN : e = (InHand(w).attempts < MaxAttempts)
    <3>1. (InHand(w).attempts < MaxAttempts) \in BOOLEAN
      BY HeadIsClaim, <1>1, MemoryAssumption DEF Claim
    <3> QED
      BY <3>1
  <2>2. job' = [job EXCEPT ![m].status = "failed", ![m].retry = e] /\ worker[w].at = "failed"
    BY <1>1, <1>6, <2>1 DEF RecordFailed, MarkFailed
  <2>3. /\ job' \in [Memories -> JobRow] /\ \A k \in Memories \ {m} : job'[k] = job[k]
        /\ job'[m].status = "failed" /\ job'[m].attempts = job[m].attempts
        /\ job'[m].retry = e
    BY <1>2, <2>2 DEF JobRow
  <2>4. Records(w)
    BY <1>1, <1>6, <2>1, <2>2, <2>3 DEF Records
  <2>5. LoseOutcome(w) => job' = job
    BY DEF LoseOutcome, db
  <2> QED
    BY <1>1, <1>3, <1>4, <2>2, <2>3, <2>4, <2>5
<1>7. CASE job' = job /\ (LoseOutcome(w) \/ job[m] = NoJob)
  <2>1. Records(w)
    BY <1>1, <1>2, <1>7 DEF Records
  <2> QED
    BY <1>1, <1>3, <1>4, <1>7, <2>1
<1> QED
  BY <1>1, <1>5, <1>6, <1>7 DEF RecordDone, RecordFailed, LoseOutcome, db

LEMMA DropTypes ==
    ASSUME Types, NEW w \in Workers, RecordDone(w) \/ RecordFailed(w) \/ LoseOutcome(w)
    PROVE  Types'
<1>1. PICK m \in Memories : m = InHand(w).mem /\ worker[w].at # "idle"
  BY HeadIsClaim DEF RecordDone, RecordFailed, LoseOutcome
<1>2. /\ NextJob(w) /\ Records(w) /\ losses' \in [Memories -> Nat] /\ faults' \in 0..MaxFaults
      /\ UNCHANGED <<mem, fragments, store, pipe, client, requests, cause>>
  BY JobDropped
<1>3. /\ job' \in [Memories -> JobRow] /\ \A k \in Memories \ {m} : job'[k] = job[k]
      /\ job'[m] = job[m] \/ (job[m] # NoJob /\ job'[m].status # "none")
  BY <1>1, <1>2 DEF Records
<1>4. \A k \in Memories : RowShape(k)'
  BY <1>2, <1>3, RowStays, JobStays
<1>5. RowsGoOn
  BY <1>2 DEF RowsGoOn, Stored
<1>6. /\ worker' \in [Workers -> WorkerRow]
      /\ \A v \in Workers \ {w} : worker'[v] = worker[v]
      /\ worker'[w].at \in {"idle", "job"} /\ worker'[w].pipe = NoPipe
      /\ worker'[w].at = "idle" <=> worker'[w].batch = <<>>
      /\ \A i, j \in DOMAIN worker'[w].batch :
             worker'[w].batch[i].mem = worker'[w].batch[j].mem => i = j
      /\ Claims(w)' \subseteq Claims(w)
  BY <1>1, <1>2, AfterJob
<1>7. WorkerShape(w)'
  <2>1. \A c \in Claims(w) : store[c.mem] = "stored"
    BY DEF Types, WorkerShape
  <2> QED
    BY <1>2, <1>6, <2>1 DEF WorkerShape
<1>8. /\ \A c \in Clients : ClientShape(c)'
      /\ \A v \in Workers : WorkerShape(v)'
      /\ \A p \in Pipes : PipeShape(p)'
  BY <1>2, <1>5, <1>6, <1>7, RunningPipe, ClientsStay, PipesStay, WorkersStay
<1> QED
  BY <1>2, <1>3, <1>4, <1>6, <1>8 DEF Types

LEMMA SweepTypes ==
    ASSUME Types, NEW w \in Workers, Sweep(w)
    PROVE  Types'
<1>1. PICK s : /\ Swept(w, s)
               /\ \E n \in Nat \ {0} : s \in [1..n -> Memories]
               /\ IsInjective(s)
               /\ \A m \in ToSet(s) : m \in Memories /\ (Due(m) \/ Stale(m))
  BY SweepTakes
<1>2. UNCHANGED <<mem, fragments, store, pipe, client, requests>>
  BY DEF Sweep
<1>3. /\ worker' \in [Workers -> WorkerRow]
      /\ \A v \in Workers \ {w} : worker'[v] = worker[v]
      /\ worker'[w].at = "job" /\ worker'[w].pipe = NoPipe /\ worker'[w].batch # <<>>
      /\ \A i, j \in DOMAIN worker'[w].batch :
             worker'[w].batch[i].mem = worker'[w].batch[j].mem => i = j
      /\ \A c \in Claims(w)' : c.mem \in ToSet(s)
      /\ Cardinality(Overtaken(ToSet(s))) \in Nat
  BY <1>1, SweptBatch
<1>4. \A m \in ToSet(s) : m \in Memories /\ job[m] # NoJob /\ store[m] = "stored"
  <2> SUFFICES ASSUME NEW m \in ToSet(s) PROVE m \in Memories /\ job[m] # NoJob /\ store[m] = "stored"
    OBVIOUS
  <2>1. m \in Memories /\ job[m].status # "none"
    BY <1>1 DEF Due, Stale
  <2> QED
    BY <2>1 DEF Types, RowShape, NoJob
<1>5. ASSUME NEW k \in Memories
      PROVE  /\ job'[k] \in JobRow
             /\ job'[k] = job[k] \/ (k \in ToSet(s) /\ job'[k].status = "running")
  <2>1. job[k] \in JobRow
    BY DEF Types
  <2>2. job'[k] = IF k \in ToSet(s)
                  THEN [job[k] EXCEPT !.status = "running", !.attempts = @ + 1] ELSE job[k]
    BY <1>1 DEF Swept
  <2>3. [job[k] EXCEPT !.status = "running", !.attempts = @ + 1] \in JobRow
        /\ [job[k] EXCEPT !.status = "running", !.attempts = @ + 1].status = "running"
    <3>1. job[k].attempts + 1 \in Nat
      BY <2>1 DEF JobRow
    <3> DEFINE n == job[k].attempts + 1
    <3> HIDE DEF n
    <3>2. [job[k] EXCEPT !.status = "running", !.attempts = n] \in JobRow
          /\ [job[k] EXCEPT !.status = "running", !.attempts = n].status = "running"
      BY <2>1, <3>1 DEF JobRow, n
    <3> QED
      BY <3>2 DEF n
  <2> QED
    BY <2>1, <2>2, <2>3
<1>6. job' \in [Memories -> JobRow]
  <2>1. job' = [m \in Memories |->
           IF m \in ToSet(s) THEN [job[m] EXCEPT !.status = "running", !.attempts = @ + 1]
           ELSE job[m]]
    BY <1>1 DEF Swept
  <2> QED
    BY <1>5, <2>1
<1>7. faults' \in 0..MaxFaults /\ losses' \in [Memories -> Nat] /\ cause' \in [Memories -> Causes]
  <2>1. PICK n \in Nat : n = Cardinality(Overtaken(ToSet(s)))
    BY <1>3
  <2>2. faults' = faults + n /\ faults' <= MaxFaults
    BY <1>1, <2>1 DEF Swept
  <2>3. faults' \in 0..MaxFaults
    BY <2>2, MemoryAssumption DEF Types
  <2>4. losses' \in [Memories -> Nat]
    <3> DEFINE taken == Overtaken(ToSet(s))
    <3>1. losses' = [m \in Memories |-> IF m \in taken THEN losses[m] + 1 ELSE losses[m]]
      BY <1>1 DEF Swept
    <3>2. \A m \in Memories : losses[m] \in Nat
      BY DEF Types
    <3> HIDE DEF taken
    <3> QED
      BY <3>1, <3>2
  <2>5. cause' \in [Memories -> Causes]
    BY <1>1 DEF Types, Swept, Causes
  <2> QED
    BY <2>3, <2>4, <2>5
<1>8. \A k \in Memories : RowShape(k)'
  BY <1>2, <1>4, <1>5, RowStays, JobStays
<1>9. RowsGoOn
  BY <1>2 DEF RowsGoOn, Stored
<1>10. WorkerShape(w)'
  BY <1>2, <1>3, <1>4 DEF WorkerShape
<1>11. /\ \A c \in Clients : ClientShape(c)'
       /\ \A v \in Workers : WorkerShape(v)'
       /\ \A p \in Pipes : PipeShape(p)'
  BY <1>2, <1>3, <1>9, <1>10, RunningPipe, ClientsStay, PipesStay, WorkersStay
<1> QED
  BY <1>2, <1>3, <1>6, <1>7, <1>8, <1>11 DEF Types, Causes

(* A worker changes only the step it is at, or the pipeline it waits for.  *)
LEMMA WorkerMoves ==
    ASSUME Types, NEW w \in Workers, worker[w].at # "idle", NEW p \in Pipes \cup {NoPipe},
           NEW at \in {"running", "done", "failed"},
           worker' = [worker EXCEPT ![w] = [worker[w] EXCEPT !.at = at, !.pipe = p]]
    PROVE  /\ worker' \in [Workers -> WorkerRow]
           /\ \A v \in Workers \ {w} : worker'[v] = worker[v]
           /\ worker'[w].at = at /\ worker'[w].pipe = p /\ worker'[w].batch = worker[w].batch
           /\ \A v \in Workers : Claims(v)' = Claims(v) /\ InHand(v)' = InHand(v)
           /\ \A m \in Memories : Holders(m)' = Holders(m)
<1>1. worker \in [Workers -> WorkerRow] /\ worker[w] \in WorkerRow
  BY DEF Types
<1> DEFINE r == [worker[w] EXCEPT !.at = at, !.pipe = p]
<1>2. r \in WorkerRow /\ r.at = at /\ r.pipe = p /\ r.batch = worker[w].batch
  BY <1>1 DEF WorkerRow
<1>3. worker' = [worker EXCEPT ![w] = r]
  OBVIOUS
<1> HIDE DEF r
<1>4. /\ worker' \in [Workers -> WorkerRow] /\ worker'[w] = r
      /\ \A v \in Workers \ {w} : worker'[v] = worker[v]
  BY <1>1, <1>2, <1>3
<1>5. \A v \in Workers : worker'[v].batch = worker[v].batch
  BY <1>2, <1>4
<1>6. \A v \in Workers : Claims(v)' = Claims(v) /\ InHand(v)' = InHand(v)
  BY <1>5 DEF Claims, InHand
<1>7. \A m \in Memories : Holders(m)' = Holders(m)
  BY <1>6 DEF Holders
<1> QED
  BY <1>2, <1>4, <1>6, <1>7

LEMMA RehydrateMoves ==
    ASSUME Types, NEW w \in Workers, Rehydrate(w)
    PROVE  /\ Types'
           /\ UNCHANGED <<mem, job, fragments, store, client, requests, losses>>
           /\ \A v \in Workers \ {w} : worker'[v] = worker[v]
           /\ worker[w].at = "job" /\ worker'[w].at \in {"running", "done"}
           /\ \A v \in Workers : Claims(v)' = Claims(v) /\ InHand(v)' = InHand(v)
           /\ \A m \in Memories : Holders(m)' = Holders(m)
           /\ \A m \in Memories : cause[m] \subseteq cause'[m]
                                  /\ ("overtaken" \in cause'[m] => "overtaken" \in cause[m])
           /\ \/ Readable(InHand(w).mem) /\ StartPipe(InHand(w).mem, w, TRUE)
                 /\ worker'[w].at = "running"
              \/ UNCHANGED pipe /\ "unembedded" \in cause'[InHand(w).mem]
                 /\ worker'[w].at = "done"
<1>1. PICK m \in Memories : /\ m = InHand(w).mem /\ worker[w].at = "job"
                            /\ store[m] = "stored" /\ worker[w].pipe = NoPipe
  BY HeadIsClaim DEF Rehydrate, Types, WorkerShape
<1>2. UNCHANGED <<mem, job, fragments, store, client, requests, losses>>
  BY DEF Rehydrate, db
<1>3. RowsGoOn
  BY <1>2 DEF RowsGoOn, Stored
<1>4. /\ \A k \in Memories : RowShape(k)'
      /\ \A c \in Clients : ClientShape(c)'
  BY <1>2, <1>3, RowStays, ClientsStay
<1>5. worker \in [Workers -> WorkerRow] /\ worker[w] \in WorkerRow
  BY DEF Types
<1>6. CASE /\ Readable(m) /\ StartPipe(m, w, TRUE) /\ UNCHANGED faults
           /\ worker' = [worker EXCEPT ![w].at = "running", ![w].pipe = FreePipe]
  <2>1. PICK f \in Pipes :
           /\ f = FreePipe /\ f # NoPipe /\ pipe[f].at = "idle"
           /\ pipe' \in [Pipes -> Busy \cup {Rest}]
           /\ pipe'[f].at = "embed" /\ pipe'[f].mem = m /\ pipe'[f].proc = w
           /\ pipe'[f] \in Busy
           /\ \A p \in Pipes \ {f} : pipe'[p] = pipe[p]
           /\ cause' \in [Memories -> Causes]
           /\ \A k \in Memories : cause[k] \subseteq cause'[k]
                                  /\ ("overtaken" \in cause'[k] => "overtaken" \in cause[k])
    BY <1>6, PipeStarts
  <2>2. worker' = [worker EXCEPT ![w] = [worker[w] EXCEPT !.at = "running", !.pipe = f]]
    BY <1>5, <1>6, <2>1
  <2>3. /\ worker' \in [Workers -> WorkerRow]
        /\ \A v \in Workers \ {w} : worker'[v] = worker[v]
        /\ worker'[w].at = "running" /\ worker'[w].pipe = f
        /\ worker'[w].batch = worker[w].batch
        /\ \A v \in Workers : Claims(v)' = Claims(v) /\ InHand(v)' = InHand(v)
        /\ \A k \in Memories : Holders(k)' = Holders(k)
    BY <1>1, <2>2, WorkerMoves
  <2>4. WorkerShape(w)'
    <3>1. WorkerShape(w) /\ worker[w].batch # <<>>
      BY <1>1 DEF Types, WorkerShape
    <3>2. InHand(w)' = InHand(w) /\ Claims(w)' = Claims(w)
      BY <2>3
    <3> QED
      BY <1>1, <1>2, <2>1, <2>3, <3>1, <3>2 DEF WorkerShape
  <2>5. \A v \in Workers : WorkerShape(v)'
    <3>1. ASSUME NEW v \in Workers, v # w PROVE WorkerShape(v)'
      <4>1. worker'[v] = worker[v]
        BY <2>3, <3>1
      <4>2. worker[v].at = "running" => pipe'[worker[v].pipe] = pipe[worker[v].pipe]
                                        /\ pipe[worker[v].pipe].at # "idle"
        BY <2>1, RunningPipe
      <4> QED
        BY <1>3, <4>1, <4>2, WorkersStay
    <3> QED
      BY <2>4, <3>1
  <2>6. \A p \in Pipes : PipeShape(p)'
    <3>1. PipeShape(f)'
      BY <1>1, <1>2, <2>1 DEF PipeShape
    <3> QED
      BY <1>3, <2>1, <3>1, PipesStay
  <2>7. Types'
    BY <1>2, <1>4, <1>6, <2>1, <2>3, <2>5, <2>6 DEF Types, Causes
  <2> QED
    BY <1>1, <1>2, <1>6, <2>1, <2>3, <2>7
<1>7. CASE /\ Fault \/ UNCHANGED faults
           /\ worker' = [worker EXCEPT ![w].at = "done"]
           /\ Blame(m, "unembedded") /\ UNCHANGED pipe
  <2>1. worker' = [worker EXCEPT ![w] = [worker[w] EXCEPT !.at = "done", !.pipe = NoPipe]]
    <3>1. [worker[w] EXCEPT !.at = "done", !.pipe = NoPipe] = [worker[w] EXCEPT !.at = "done"]
      BY <1>1, <1>5 DEF WorkerRow
    <3> QED
      BY <1>7, <3>1
  <2>2. /\ worker' \in [Workers -> WorkerRow]
        /\ \A v \in Workers \ {w} : worker'[v] = worker[v]
        /\ worker'[w].at = "done" /\ worker'[w].pipe = NoPipe
        /\ worker'[w].batch = worker[w].batch
        /\ \A v \in Workers : Claims(v)' = Claims(v) /\ InHand(v)' = InHand(v)
        /\ \A k \in Memories : Holders(k)' = Holders(k)
    BY <1>1, <2>1, WorkerMoves
  <2>3. /\ cause' \in [Memories -> Causes] /\ "unembedded" \in cause'[m]
        /\ \A k \in Memories : cause[k] \subseteq cause'[k]
                               /\ ("overtaken" \in cause'[k] => "overtaken" \in cause[k])
    BY <1>7 DEF Blame, Types, Causes
  <2>4. faults' \in 0..MaxFaults
    BY <1>7, MemoryAssumption DEF Fault, Types
  <2>5. WorkerShape(w)'
    BY <1>1, <1>3, <2>2, WorkerTurns
  <2>6. /\ \A v \in Workers : WorkerShape(v)'
        /\ \A p \in Pipes : PipeShape(p)'
    BY <1>3, <1>7, <2>2, <2>5, RunningPipe, PipesStay, WorkersStay
  <2>7. Types'
    BY <1>2, <1>4, <1>7, <2>2, <2>3, <2>4, <2>6 DEF Types, Causes
  <2> QED
    BY <1>1, <1>2, <1>7, <2>2, <2>3, <2>7
<1> QED
  BY <1>1, <1>6, <1>7 DEF Rehydrate

LEMMA TimeoutTypes ==
    ASSUME Types, NEW w \in Workers, TimesOut(w)
    PROVE  /\ Types'
           /\ UNCHANGED <<mem, job, fragments, store, pipe, client, requests, faults, losses,
                          cause>>
           /\ \A v \in Workers \ {w} : worker'[v] = worker[v]
           /\ worker[w].at = "running" /\ worker'[w].at = "failed"
           /\ \A v \in Workers : Claims(v)' = Claims(v) /\ InHand(v)' = InHand(v)
           /\ \A m \in Memories : Holders(m)' = Holders(m)
<1>1. UNCHANGED <<mem, job, fragments, store, pipe, client, requests, faults, losses, cause>>
      /\ worker[w].at = "running"
  BY DEF TimesOut, db, hist
<1>2. RowsGoOn
  BY <1>1 DEF RowsGoOn, Stored
<1>3. worker' = [worker EXCEPT ![w] = [worker[w] EXCEPT !.at = "failed", !.pipe = NoPipe]]
  BY DEF TimesOut, Types
<1>4. /\ worker' \in [Workers -> WorkerRow]
      /\ \A v \in Workers \ {w} : worker'[v] = worker[v]
      /\ worker'[w].at = "failed" /\ worker'[w].pipe = NoPipe
      /\ worker'[w].batch = worker[w].batch
      /\ \A v \in Workers : Claims(v)' = Claims(v) /\ InHand(v)' = InHand(v)
      /\ \A k \in Memories : Holders(k)' = Holders(k)
  BY <1>1, <1>3, WorkerMoves
<1>5. WorkerShape(w)'
  BY <1>1, <1>2, <1>4, WorkerTurns
<1>6. /\ \A k \in Memories : RowShape(k)'
      /\ \A c \in Clients : ClientShape(c)'
      /\ \A v \in Workers : WorkerShape(v)'
      /\ \A p \in Pipes : PipeShape(p)'
  BY <1>1, <1>2, <1>4, <1>5, RunningPipe, RowStays, ClientsStay, PipesStay, WorkersStay
<1>7. Types'
  BY <1>1, <1>4, <1>6 DEF Types
<1> QED
  BY <1>1, <1>4, <1>7

LEMMA NoClaims == ASSUME NEW w \in Workers, worker[w].batch = <<>> PROVE Claims(w) = {}
<1>1. DOMAIN <<>> = {}
  BY EmptySeq, LenProperties
<1> QED
  BY <1>1 DEF Claims, ToSet

LEMMA DeathTypes ==
    ASSUME Types, NEW w \in Workers, WorkerDies(w)
    PROVE  /\ Types'
           /\ UNCHANGED <<mem, job, fragments, store, client, requests, cause>>
           /\ worker'[w] = IdleWorker /\ Claims(w)' = {}
           /\ \A v \in Workers \ {w} : worker'[v] = worker[v] /\ Claims(v)' = Claims(v)
           /\ \A p \in Pipes : pipe'[p] = pipe[p] \/ pipe'[p].at = "idle"
           /\ \A m \in Memories : losses'[m] = losses[m] + (IF w \in Holders(m) THEN 1 ELSE 0)
<1>1. UNCHANGED <<mem, job, fragments, store, client, requests, cause>>
  BY DEF WorkerDies, db
<1>2. RowsGoOn
  BY <1>1 DEF RowsGoOn, Stored
<1>3. Rest.at = "idle" /\ IdleWorker \in WorkerRow /\ IdleWorker.at = "idle"
      /\ IdleWorker.batch = <<>> /\ IdleWorker.pipe = NoPipe
  BY EmptySeq DEF Rest, IdleWorker, WorkerRow
<1>4. /\ worker' \in [Workers -> WorkerRow] /\ worker'[w] = IdleWorker
      /\ \A v \in Workers \ {w} : worker'[v] = worker[v]
  BY <1>3 DEF WorkerDies, Types
<1>5. Claims(w)' = {} /\ \A v \in Workers \ {w} : Claims(v)' = Claims(v)
  <2>1. DOMAIN <<>> = {}
    BY EmptySeq, LenProperties
  <2> QED
    BY <1>3, <1>4, <2>1 DEF Claims, ToSet
<1>6. /\ pipe' \in [Pipes -> Busy \cup {Rest}]
      /\ \A p \in Pipes : \/ pipe'[p] = pipe[p]
                          \/ pipe'[p].at = "idle" /\ pipe[p].proc = w
  <2>1. pipe' = [p \in Pipes |-> IF pipe[p].at # "idle" /\ pipe[p].proc = w THEN Rest
                                 ELSE pipe[p]]
    BY DEF WorkerDies, Rest
  <2> QED
    BY <1>3, <2>1 DEF Types
<1>7. losses' \in [Memories -> Nat]
      /\ \A m \in Memories : losses'[m] = losses[m] + (IF w \in Holders(m) THEN 1 ELSE 0)
  BY DEF WorkerDies, Types
<1>8. faults' \in 0..MaxFaults
  BY MemoryAssumption DEF WorkerDies, Fault, Types
<1>9. /\ \A k \in Memories : RowShape(k)'
      /\ \A c \in Clients : ClientShape(c)'
      /\ \A p \in Pipes : PipeShape(p)'
  BY <1>1, <1>2, <1>6, RowStays, ClientsStay, PipesStay
<1>10. WorkerShape(w)'
  <2>1. DOMAIN <<>> = {}
    BY EmptySeq, LenProperties
  <2> QED
    BY <1>3, <1>4, <1>5, <2>1 DEF WorkerShape
<1>11. ASSUME NEW v \in Workers, v # w PROVE WorkerShape(v)'
  <2>1. worker[v].at = "running" => pipe'[worker[v].pipe] = pipe[worker[v].pipe]
                                    /\ pipe[worker[v].pipe].at # "idle"
    BY <1>6, <1>11, RunningPipe
  <2> QED
    BY <1>2, <1>4, <1>11, <2>1, WorkersStay
<1>12. Types'
  BY <1>1, <1>4, <1>6, <1>7, <1>8, <1>9, <1>10, <1>11 DEF Types
<1> QED
  BY <1>1, <1>4, <1>5, <1>6, <1>7, <1>12

LEMMA TypesStep == Types /\ [Next]_vars => Types'
<1> SUFFICES ASSUME Types, [Next]_vars PROVE Types'
  OBVIOUS
<1>1. ASSUME NEW m \in Memories, StoreStep(m) \/ Delete(m) PROVE Types'
  BY <1>1, StoreTypes, EnqueueTypes, DeleteTypes DEF StoreStep
<1>2. ASSUME NEW w \in Workers, WorkerStep(w) PROVE Types'
  BY <1>2, SweepTypes, RehydrateMoves, TimeoutTypes, DropTypes, DeathTypes DEF WorkerStep
<1>3. ASSUME NEW p \in Pipes, PipeStep(p) PROVE Types'
  BY <1>3, PipeTypes, PipeEndTypes DEF PipeStep
<1>4. ASSUME NEW c \in Clients, ClientStep(c) PROVE Types'
  BY <1>4, ReadTypes, AnswerTypes DEF ClientStep
<1>5. CASE UNCHANGED vars
  <2>1. UNCHANGED <<mem, job, fragments, store, worker, pipe, client, requests, faults,
                    losses, cause>>
    BY <1>5 DEF vars
  <2>2. RowsGoOn
    BY <2>1 DEF RowsGoOn, Stored
  <2>3. /\ \A k \in Memories : RowShape(k)'
        /\ \A c \in Clients : ClientShape(c)'
        /\ \A v \in Workers : WorkerShape(v)'
        /\ \A p \in Pipes : PipeShape(p)'
    BY <2>1, <2>2, RunningPipe, RowStays, ClientsStay, PipesStay, WorkersStay
  <2> QED
    BY <2>1, <2>3 DEF Types
<1> QED
  BY <1>1, <1>2, <1>3, <1>4, <1>5 DEF Next

LEMMA TypesAlways == Spec => []Types
<1> QED
  BY TypesInit, TypesStep, PTL DEF Spec

(* The rows and processes hold what they may (TypeOK): wraps belong to     *)
(* encrypted rows, a job to a stored memory, and a worker waits for a      *)
(* pipeline of the job in its hand (drainWriteJobsOnce).                   *)
THEOREM MemoryTyping == Spec => []TypeOK
BY TypesAlways, TypesAreTypes, PTL

(***************************************************************************)
(* What the steps of a pipeline write.                                     *)
(***************************************************************************)
LEMMA PipeWrites ==
    ASSUME Types, NEW p \in Pipes, Embed(p) \/ ClearFragments(p) \/ InsertFragments(p)
    PROVE  \E m \in Memories :
               /\ m = pipe[p].mem /\ pipe[p].at # "idle" /\ store[m] = "stored"
               /\ UNCHANGED <<job, store, worker, client, requests, losses>>
               /\ \A k \in Memories \ {m} : /\ mem'[k] = mem[k] /\ cause'[k] = cause[k]
                                            /\ fragments'[k] = fragments[k]
               /\ cause'[m] \in {cause[m], cause[m] \cup {"unembedded"},
                                 cause[m] \cup {"uncleared"}}
               /\ mem'[m].row = mem[m].row /\ mem'[m].wraps = mem[m].wraps
               /\ mem'[m].revoked = mem[m].revoked /\ mem'[m].encrypted = mem[m].encrypted
               /\ mem'[m].summary = mem[m].summary /\ mem'[m].sealed = mem[m].sealed
               /\ mem'[m].sealedEmbedding = mem[m].sealedEmbedding
               /\ mem'[m].embedding = mem[m].embedding \/ (Embed(p) /\ mem'[m].embedding)
               /\ Embed(p) => \/ ~Stored(m) \/ mem'[m].embedding
                              \/ "unembedded" \in cause'[m]
<1>1. PICK m \in Memories : /\ m = pipe[p].mem /\ pipe[p].at # "idle" /\ store[m] = "stored"
                            /\ pipe[p] \in Busy
  BY DEF Embed, ClearFragments, InsertFragments, Types, PipeShape, Busy
<1>2. UNCHANGED <<job, store, worker, client, requests, losses>>
  BY DEF Embed, ClearFragments, InsertFragments
<1>3. /\ mem \in [Memories -> MemRow] /\ cause \in [Memories -> Causes]
      /\ fragments \in [Memories -> Nat]
  BY DEF Types, Causes
<1>4. /\ cause'[m] \in {cause[m], cause[m] \cup {"unembedded"}, cause[m] \cup {"uncleared"}}
      /\ \A k \in Memories \ {m} : cause'[k] = cause[k]
  <2>1. UNCHANGED <<faults, cause>> \/ \E c \in {"unembedded", "uncleared"} : Blame(m, c)
    BY <1>1 DEF Embed, ClearFragments, InsertFragments
  <2> QED
    BY <1>3, <2>1 DEF Blame
<1>5. \A k \in Memories \ {m} : fragments'[k] = fragments[k]
  <2>1. \/ fragments' = fragments
        \/ fragments' = [fragments EXCEPT ![m] = 0]
        \/ fragments' = [fragments EXCEPT ![m] = @ + 1]
    BY <1>1 DEF Embed, ClearFragments, InsertFragments
  <2> QED
    BY <1>3, <2>1
<1>6. CASE Embed(p) /\ Stored(m) /\ mem' = [mem EXCEPT ![m].embedding = TRUE]
  <2> DEFINE r == [mem[m] EXCEPT !.embedding = TRUE]
  <2>1. /\ r.row = mem[m].row /\ r.wraps = mem[m].wraps /\ r.revoked = mem[m].revoked
        /\ r.encrypted = mem[m].encrypted /\ r.summary = mem[m].summary
        /\ r.sealed = mem[m].sealed /\ r.sealedEmbedding = mem[m].sealedEmbedding
        /\ r.embedding = TRUE
    BY <1>3 DEF MemRow
  <2>2. mem'[m] = r /\ \A k \in Memories \ {m} : mem'[k] = mem[k]
    BY <1>3, <1>6
  <2> HIDE DEF r
  <2> QED
    BY <1>1, <1>2, <1>4, <1>5, <1>6, <2>1, <2>2
<1>7. CASE mem' = mem /\ (Embed(p) => ~Stored(m) \/ "unembedded" \in cause'[m])
  BY <1>1, <1>2, <1>4, <1>5, <1>7
<1> QED
  <2>1. CASE Embed(p)
    <3>1. \/ mem' = IF Stored(m) THEN [mem EXCEPT ![m].embedding = TRUE] ELSE mem
          \/ mem' = mem /\ Blame(m, "unembedded")
      BY <1>1, <2>1 DEF Embed
    <3>2. Blame(m, "unembedded") => "unembedded" \in cause'[m]
      BY <1>3 DEF Blame
    <3> QED
      BY <1>6, <1>7, <2>1, <3>1, <3>2
  <2>2. CASE ~Embed(p)
    <3>1. mem' = mem
      BY <2>2 DEF ClearFragments, InsertFragments
    <3> QED
      BY <1>7, <2>2, <3>1
  <2> QED
    BY <2>1, <2>2

(***************************************************************************)
(* No memory is lost: its owner can open it, and it keeps its summary.     *)
(***************************************************************************)
(* A row that keeps its summary, its seal and its wraps.                   *)
LEMMA RowKept ==
    ASSUME Types, LostInv, NEW k \in Memories, cause[k] \subseteq cause'[k],
           mem'[k].row = mem[k].row, mem'[k].encrypted = mem[k].encrypted,
           mem'[k].wraps = mem[k].wraps, mem'[k].revoked = mem[k].revoked,
           mem'[k].summary = mem[k].summary, mem'[k].sealed = mem[k].sealed,
           store'[k] = store[k] \/ store[k] \notin {"wraps", "revert"}
    PROVE  Opens(k)' /\ Kept(k)'
<1>1. Opens(k) /\ Kept(k)
  BY DEF LostInv
<1> QED
  BY <1>1 DEF Opens, Kept, Stored

LEMMA RequestKept ==
    ASSUME Types, LostInv, NEW c \in Clients, client'[c] = client[c] \/ client'[c].at = "idle",
           \A k \in Memories : cause[k] \subseteq cause'[k]
    PROVE  Read(c)'
<1>1. Read(c) /\ (client[c].at # "idle" => client[c].mem \in Memories)
  BY DEF LostInv, Types, ClientShape, Asking
<1> QED
  BY <1>1 DEF Read

LEMMA LostInit == Init => LostInv
BY DEF Init, LostInv, Opens, Kept, Read, Stored, NoMemory

LEMMA LostStep == Types /\ LostInv /\ [Next]_vars => LostInv'
<1> SUFFICES ASSUME Types, LostInv, [Next]_vars PROVE LostInv'
  OBVIOUS
<1> USE DEF db, hist
<1>1. /\ mem \in [Memories -> MemRow] /\ cause \in [Memories -> Causes]
      /\ store \in [Memories -> {"new", "wraps", "revert", "enqueue", "stored"}]
      /\ \A k \in Memories : RowShape(k) /\ Opens(k) /\ Kept(k)
  BY DEF LostInv, Types, Causes
<1>2. ASSUME UNCHANGED <<mem, client>>, \A k \in Memories : cause[k] \subseteq cause'[k],
             \A k \in Memories : store'[k] = store[k] \/ store[k] \notin {"wraps", "revert"}
      PROVE  LostInv'
  <2>1. \A k \in Memories : Opens(k)' /\ Kept(k)'
    BY <1>2, RowKept
  <2>2. \A c \in Clients : Read(c)'
    BY <1>2, RequestKept
  <2> QED
    BY <2>1, <2>2 DEF LostInv
<1>3. ASSUME NEW m \in Memories, Opens(m)' /\ Kept(m)', UNCHANGED client,
             \A k \in Memories : cause[k] \subseteq cause'[k],
             \A k \in Memories \ {m} : mem'[k] = mem[k] /\ store'[k] = store[k]
      PROVE  LostInv'
  <2>1. \A k \in Memories : Opens(k)' /\ Kept(k)'
    BY <1>3, RowKept
  <2>2. \A c \in Clients : Read(c)'
    BY <1>3, RequestKept
  <2> QED
    BY <2>1, <2>2 DEF LostInv
<1>4. ASSUME NEW m \in Memories, StoreStep(m) \/ Delete(m) PROVE LostInv'
  <2>1. CASE Insert(m)
    <3>1. PICK e \in BOOLEAN : e = (m \in Envelopes)
      <4>1. (m \in Envelopes) \in BOOLEAN
        OBVIOUS
      <4> QED
        BY <4>1
    <3>2. mem' = [mem EXCEPT ![m].row = "stored", ![m].summary = TRUE, ![m].encrypted = e]
          /\ store' = [store EXCEPT ![m] = IF e THEN "wraps" ELSE "enqueue"]
          /\ UNCHANGED <<client, cause>> /\ store[m] = "new"
      BY <2>1, <3>1 DEF Insert
    <3>3. /\ \A k \in Memories \ {m} : mem'[k] = mem[k] /\ store'[k] = store[k]
          /\ mem'[m].summary /\ mem'[m].encrypted = e /\ mem'[m].revoked = mem[m].revoked
          /\ store'[m] = IF e THEN "wraps" ELSE "enqueue"
      BY <1>1, <3>2 DEF MemRow
    <3>4. ~mem[m].revoked
      BY <1>1, <3>2 DEF RowShape
    <3>5. Opens(m)' /\ Kept(m)'
      BY <3>3, <3>4 DEF Opens, Kept
    <3> QED
      BY <1>3, <3>2, <3>3, <3>5
  <2>2. CASE WriteWraps(m)
    <3>1. UNCHANGED <<client, cause>> /\ store[m] = "wraps"
      BY <2>2 DEF WriteWraps
    <3>2. CASE /\ mem' = [mem EXCEPT ![m].wraps = {"owner", "provider"}]
               /\ store' = [store EXCEPT ![m] = "enqueue"]
      <4>1. /\ \A k \in Memories \ {m} : mem'[k] = mem[k] /\ store'[k] = store[k]
            /\ mem'[m].row = mem[m].row /\ mem'[m].wraps = {"owner", "provider"}
            /\ mem'[m].revoked = mem[m].revoked
            /\ mem'[m].summary = mem[m].summary /\ mem'[m].sealed = mem[m].sealed
        BY <1>1, <3>2 DEF MemRow
      <4>2. Opens(m)' /\ Kept(m)'
        BY <1>1, <3>1, <4>1 DEF Opens, Kept, Stored
      <4> QED
        BY <1>3, <3>1, <4>1, <4>2
    <3>3. CASE UNCHANGED mem /\ store' = [store EXCEPT ![m] = "revert"]
      <4>1. store'[m] = "revert" /\ \A k \in Memories \ {m} : store'[k] = store[k]
        BY <1>1, <3>3
      <4>2. Opens(m)' /\ Kept(m)'
        BY <1>1, <3>1, <3>3, <4>1 DEF Opens, Kept, Stored
      <4> QED
        BY <1>3, <3>1, <3>3, <4>1, <4>2
    <3> QED
      BY <2>2, <3>2, <3>3 DEF WriteWraps
  <2>3. CASE Revert(m)
    <3>1. UNCHANGED client /\ \A k \in Memories \ {m} : store'[k] = store[k]
      BY <1>1, <2>3 DEF Revert
    <3>2. CASE Stored(m) /\ mem' = [mem EXCEPT ![m].encrypted = FALSE] /\ UNCHANGED cause
      <4>1. /\ \A k \in Memories \ {m} : mem'[k] = mem[k]
            /\ mem'[m].row = mem[m].row /\ mem'[m].encrypted = FALSE
            /\ mem'[m].revoked = mem[m].revoked
            /\ mem'[m].summary = mem[m].summary /\ mem'[m].sealed = mem[m].sealed
        BY <1>1, <3>2 DEF MemRow
      <4>2. Opens(m)' /\ Kept(m)'
        BY <1>1, <3>2, <4>1 DEF Opens, Kept, Stored
      <4> QED
        BY <1>3, <3>1, <3>2, <4>1, <4>2
    <3>3. CASE ~Stored(m) /\ UNCHANGED <<mem, cause>>
      <4>1. Opens(m)' /\ Kept(m)'
        BY <3>3 DEF Opens, Kept, Stored
      <4> QED
        BY <1>3, <3>1, <3>3, <4>1
    <3>4. CASE UNCHANGED mem /\ Blame(m, "unwrapped")
      <4>1. "unwrapped" \in cause'[m] /\ \A k \in Memories : cause[k] \subseteq cause'[k]
        BY <1>1, <3>4 DEF Blame
      <4>2. Opens(m)' /\ Kept(m)'
        BY <1>1, <3>4, <4>1 DEF Opens, Kept, Stored
      <4> QED
        BY <1>3, <3>1, <3>4, <4>1, <4>2
    <3> QED
      BY <2>3, <3>2, <3>3, <3>4 DEF Revert
  <2>4. CASE Enqueue(m)
    <3>1. UNCHANGED <<mem, client>> /\ store[m] = "enqueue"
          /\ \A k \in Memories \ {m} : store'[k] = store[k]
      BY <1>1, <2>4 DEF Enqueue
    <3>2. \A k \in Memories : cause[k] \subseteq cause'[k]
      <4>1. CASE UNCHANGED cause
        BY <4>1
      <4>2. CASE \E w \in Workers : StartPipe(m, w, FALSE)
        BY <4>2, PipeStarts
      <4> QED
        BY <2>4, <4>1, <4>2 DEF Enqueue
    <3> QED
      BY <1>2, <3>1, <3>2
  <2>5. CASE StoreDies(m)
    <3>1. /\ UNCHANGED <<mem, client>> /\ \A k \in Memories : cause[k] \subseteq cause'[k]
          /\ \A k \in Memories \ {m} : store'[k] = store[k]
          /\ store[m] \in {"wraps", "revert"} => "unwrapped" \in cause'[m]
      BY <1>1, <2>5 DEF StoreDies
    <3>2. Opens(m)' /\ Kept(m)'
      BY <1>1, <3>1 DEF Opens, Kept, Stored
    <3> QED
      BY <1>3, <3>1, <3>2
  <2>6. CASE Delete(m)
    <3> DEFINE gone == [NoMemory EXCEPT !.row = "deleted"]
    <3>1. gone.row = "deleted"
      BY DEF NoMemory
    <3>2. mem' = [mem EXCEPT ![m] = gone] /\ UNCHANGED <<store, client, cause>>
      BY <2>6 DEF Delete
    <3> HIDE DEF gone
    <3>3. mem'[m].row = "deleted" /\ \A k \in Memories \ {m} : mem'[k] = mem[k]
      BY <1>1, <3>1, <3>2
    <3>4. Opens(m)' /\ Kept(m)'
      BY <3>3 DEF Opens, Kept, Stored
    <3> QED
      BY <1>3, <3>2, <3>3, <3>4
  <2> QED
    BY <1>4, <2>1, <2>2, <2>3, <2>4, <2>5, <2>6 DEF StoreStep
<1>5. ASSUME NEW w \in Workers, WorkerStep(w) PROVE LostInv'
  <2>1. UNCHANGED <<mem, store, client>>
    BY <1>5 DEF WorkerStep, Sweep, Rehydrate, TimesOut, RecordDone, RecordFailed, LoseOutcome,
                WorkerDies
  <2>2. \A k \in Memories : cause[k] \subseteq cause'[k]
    <3>1. CASE Sweep(w)
      <4>1. PICK s : Swept(w, s)
        BY <3>1, SweepTakes
      <4> QED
        BY <1>1, <4>1 DEF Swept
    <3>2. CASE Rehydrate(w)
      BY <3>2, RehydrateMoves
    <3>3. CASE UNCHANGED cause
      BY <3>3
    <3> QED
      BY <1>5, <3>1, <3>2, <3>3 DEF WorkerStep, TimesOut, RecordDone, RecordFailed,
                                   LoseOutcome, WorkerDies
  <2> QED
    BY <1>2, <2>1, <2>2
<1>6. ASSUME NEW p \in Pipes, PipeStep(p) PROVE LostInv'
  <2>1. CASE PipeEnds(p)
    BY <1>2, <2>1 DEF PipeEnds
  <2>2. CASE ~PipeEnds(p)
    <3>1. PICK m \in Memories :
             /\ UNCHANGED <<store, client>>
             /\ \A k \in Memories \ {m} : mem'[k] = mem[k] /\ cause'[k] = cause[k]
             /\ cause[m] \subseteq cause'[m]
             /\ mem'[m].row = mem[m].row /\ mem'[m].wraps = mem[m].wraps
             /\ mem'[m].revoked = mem[m].revoked /\ mem'[m].encrypted = mem[m].encrypted
             /\ mem'[m].summary = mem[m].summary /\ mem'[m].sealed = mem[m].sealed
      BY <1>6, <2>2, PipeWrites DEF PipeStep
    <3>2. Opens(m)' /\ Kept(m)'
      BY <3>1, RowKept
    <3> QED
      BY <1>3, <3>1, <3>2
  <2> QED
    BY <2>1, <2>2
<1>7. ASSUME NEW c \in Clients, ClientStep(c) PROVE LostInv'
  <2>1. ASSUME NEW m \in Memories, ReadToRevoke(c, m) \/ ReadToRedelegate(c, m) PROVE LostInv'
    <3>1. /\ UNCHANGED <<mem, store, cause>>
          /\ client'[c].mem = m
          /\ client'[c].at = "revoke" => ReadToRevoke(c, m) /\ client'[c].summary = mem[m].summary
          /\ \A d \in Clients \ {c} : client'[d] = client[d]
      BY <2>1, ReadTypes
    <3>2. \A k \in Memories : Opens(k)' /\ Kept(k)'
      BY <3>1, RowKept
    <3>3. Read(c)'
      <4>1. ReadToRevoke(c, m) => Stored(m) /\ ~mem[m].revoked
        BY DEF ReadToRevoke
      <4> QED
        BY <1>1, <3>1, <4>1 DEF Read, Kept
    <3>4. \A d \in Clients : Read(d)'
      BY <3>1, <3>3, RequestKept
    <3> QED
      BY <3>2, <3>4 DEF LostInv
  <2>2. ASSUME NEW m \in Memories, Answers(c, m), m = client[c].mem, Opens(m)' /\ Kept(m)'
        PROVE  LostInv'
    <3>1. /\ client' = [client EXCEPT ![c] = Rest] /\ UNCHANGED store
          /\ \A k \in Memories : cause[k] \subseteq cause'[k]
          /\ \A k \in Memories \ {m} : mem'[k] = mem[k]
      BY <2>2 DEF Answers
    <3>2. \A k \in Memories : Opens(k)' /\ Kept(k)'
      BY <2>2, <3>1, RowKept
    <3>3. client'[c].at = "idle" /\ \A d \in Clients \ {c} : client'[d] = client[d]
      BY <3>1 DEF Types, Rest
    <3>4. \A d \in Clients : Read(d)'
      BY <3>1, <3>3, RequestKept
    <3> QED
      BY <3>2, <3>4 DEF LostInv
  <2>3. ASSUME NEW m \in Memories, Answers(c, m), m = client[c].mem, ~Stored(m)
        PROVE  Opens(m)' /\ Kept(m)'
    BY <2>3 DEF Answers, Opens, Kept, Stored
  <2>4. \A m \in Memories : m = client[c].mem /\ Stored(m) /\ client[c].at # "idle"
           => "owner" \in mem[m].wraps
    BY DEF Types, ClientShape
  <2>5. CASE Revoke(c)
    <3>1. PICK m \in Memories :
             /\ m = client[c].mem /\ client[c].at = "revoke" /\ Answers(c, m)
             /\ Stored(m) =>
                   /\ mem'[m].wraps = mem[m].wraps \ {"provider"} /\ mem'[m].revoked
                   /\ mem'[m].sealed = IF client[c].summary THEN "summary" ELSE "blank"
      BY <2>5, RevokeWrites
    <3>2. Stored(m) => Opens(m)' /\ Kept(m)'
      <4>1. cause[m] \subseteq cause'[m]
        BY <3>1 DEF Answers
      <4>2. Read(c)
        BY DEF LostInv
      <4> QED
        BY <2>4, <3>1, <4>1, <4>2 DEF Opens, Kept, Read
    <3> QED
      BY <2>2, <2>3, <3>1, <3>2
  <2>6. CASE Redelegate(c)
    <3>1. PICK m \in Memories :
             /\ m = client[c].mem /\ client[c].at = "redelegate" /\ Answers(c, m)
             /\ Stored(m) =>
                   /\ mem'[m].wraps = mem[m].wraps \cup {"provider"} /\ ~mem'[m].revoked
                   /\ mem'[m].summary = client[c].summary
                   /\ client[c].summary \/ "blanked" \in cause'[m]
      BY <2>6, RedelegateWrites
    <3>2. Stored(m) => Opens(m)' /\ Kept(m)'
      BY <2>4, <3>1 DEF Opens, Kept
    <3> QED
      BY <2>2, <2>3, <3>1, <3>2
  <2> QED
    BY <1>7, <2>1, <2>5, <2>6 DEF ClientStep
<1>8. CASE UNCHANGED vars
  BY <1>2, <1>8 DEF vars
<1> QED
  BY <1>4, <1>5, <1>6, <1>7, <1>8 DEF Next

LEMMA LostMeans == Types /\ LostInv => NothingLost
BY DEF LostInv, Opens, Kept, ContentReadable, SummaryKept, NothingLost

(* Content stays open to its owner, and a summary is in its row or sealed  *)
(* in it, through any interleaving of stores, pipelines and requests, for  *)
(* any number of each (NothingLost): storeMemory's revert, revoke_memory   *)
(* and redelegate_memory lose nothing but in the ways `cause` names.       *)
THEOREM MemoriesAreNeverLost == Spec => []NothingLost
<1>1. Spec => []LostInv
  BY TypesAlways, LostInit, LostStep, PTL DEF Spec
<1> QED
  BY <1>1, TypesAlways, LostMeans, PTL

(***************************************************************************)
(* A revoked memory stays sealed.                                          *)
(***************************************************************************)
(* A row that stays as it is, and of which no new plaintext is taken.      *)
LEMMA SealKept ==
    ASSUME SealedInv, NEW k \in Memories, cause[k] \subseteq cause'[k],
           mem'[k].revoked = mem[k].revoked, mem'[k].summary = mem[k].summary,
           mem'[k].embedding = mem[k].embedding, fragments'[k] = fragments[k],
           store'[k] = "enqueue" => store[k] = "enqueue",
           \A p \in Pipes : pipe'[p].at \notin {"idle", "link"} /\ pipe'[p].mem = k
                             => pipe'[p] = pipe[p]
    PROVE  Sealed(k)'
<1>1. Sealed(k)
  BY DEF SealedInv
<1>2. UnderWay(k)' => UnderWay(k)
  BY DEF UnderWay, PipesOf
<1> QED
  BY <1>1, <1>2 DEF Sealed

(* A pipeline of an open memory, or of one in the hands of its store.      *)
LEMMA SealAndStart ==
    ASSUME Types, SealedInv, NEW m \in Memories, NEW w \in Workers, NEW replace \in BOOLEAN,
           StartPipe(m, w, replace), UnderWay(m) \/ ~mem[m].revoked,
           mem' = mem, fragments' = fragments, \A k \in Memories : store'[k] = "enqueue" => store[k] = "enqueue"
    PROVE  SealedInv'
<1>1. PICK f \in Pipes :
         /\ pipe'[f].mem = m /\ \A p \in Pipes \ {f} : pipe'[p] = pipe[p]
         /\ \A k \in Memories : cause[k] \subseteq cause'[k]
  BY PipeStarts
<1>2. \A k \in Memories \ {m} : Sealed(k)'
  BY <1>1, SealKept
<1>3. Sealed(m)'
  BY <1>1 DEF SealedInv, Sealed
<1> QED
  BY <1>2, <1>3 DEF SealedInv

LEMMA SealedInit == Init => SealedInv
BY DEF Init, SealedInv, Sealed, NoMemory

LEMMA SealedStep == Types /\ SealedInv /\ [Next]_vars => SealedInv'
<1> SUFFICES ASSUME Types, SealedInv, [Next]_vars PROVE SealedInv'
  OBVIOUS
<1> USE DEF db, hist
<1>1. /\ mem \in [Memories -> MemRow] /\ cause \in [Memories -> Causes]
      /\ store \in [Memories -> {"new", "wraps", "revert", "enqueue", "stored"}]
      /\ \A k \in Memories : RowShape(k) /\ Sealed(k)
  BY DEF Types, Causes, SealedInv
<1>9. fragments \in [Memories -> Nat]
  BY DEF Types
<1>2. ASSUME UNCHANGED <<mem, fragments, store>>,
             \A k \in Memories : cause[k] \subseteq cause'[k],
             \A p \in Pipes : pipe'[p] = pipe[p] \/ pipe'[p].at \in {"idle", "link"}
      PROVE  SealedInv'
  BY <1>2, SealKept DEF SealedInv
<1>3. ASSUME NEW m \in Memories, Sealed(m)', UNCHANGED pipe,
             \A k \in Memories : cause[k] \subseteq cause'[k],
             \A k \in Memories \ {m} : /\ mem'[k] = mem[k] /\ store'[k] = store[k]
                                        /\ fragments'[k] = fragments[k]
      PROVE  SealedInv'
  BY <1>3, SealKept DEF SealedInv
<1>4. ASSUME NEW m \in Memories, StoreStep(m) \/ Delete(m) PROVE SealedInv'
  <2>1. CASE Insert(m) \/ WriteWraps(m) \/ Revert(m) \/ StoreDies(m)
    <3>1. /\ UNCHANGED pipe /\ \A k \in Memories : cause[k] \subseteq cause'[k]
          /\ \A k \in Memories : RowShape(k)'
      BY <2>1, StoreRows
    <3>2. \A k \in Memories \ {m} : mem'[k] = mem[k] /\ store'[k] = store[k]
      BY <1>1, <2>1 DEF Insert, WriteWraps, Revert, StoreDies
    <3>5. fragments' = fragments
      BY <2>1 DEF Insert, WriteWraps, Revert, StoreDies
    <3>3. CASE StoreDies(m)
      <4>1. UNCHANGED mem /\ store'[m] # "enqueue"
        BY <1>1, <3>3 DEF StoreDies
      <4>2. Sealed(m)'
        BY <3>1, <3>5, <4>1, SealKept
      <4> QED
        BY <1>3, <3>1, <3>2, <3>5, <4>2
    <3>4. CASE ~StoreDies(m)
      <4>1. mem'[m].revoked = mem[m].revoked /\ ~mem[m].revoked
        <5>1. store[m] \in {"new", "wraps", "revert"}
          BY <2>1, <3>4 DEF Insert, WriteWraps, Revert
        <5>2. ~mem[m].revoked
          BY <1>1, <5>1 DEF RowShape
        <5>3. CASE Insert(m)
          BY <1>1, <5>2, <5>3 DEF Insert, MemRow
        <5>4. CASE WriteWraps(m)
          BY <1>1, <5>2, <5>4 DEF WriteWraps, MemRow
        <5>5. CASE Revert(m)
          BY <1>1, <5>2, <5>5 DEF Revert, MemRow
        <5> QED
          BY <2>1, <3>4, <5>2, <5>3, <5>4, <5>5
      <4>2. Sealed(m)'
        BY <4>1 DEF Sealed
      <4> QED
        BY <1>3, <3>1, <3>2, <3>5, <4>2
    <3> QED
      BY <3>3, <3>4
  <2>2. CASE Enqueue(m)
    <3>1. UNCHANGED <<mem, fragments>> /\ UnderWay(m) /\ \A k \in Memories : store'[k] = "enqueue"
                                                               => store[k] = "enqueue"
      BY <1>1, <2>2 DEF Enqueue, UnderWay
    <3>2. CASE UNCHANGED <<pipe, cause>>
      BY <3>1, <3>2, SealKept DEF SealedInv
    <3>3. CASE \E w \in Workers : StartPipe(m, w, FALSE)
      BY <3>1, <3>3, SealAndStart
    <3> QED
      BY <2>2, <3>2, <3>3 DEF Enqueue
  <2>3. CASE Delete(m)
    <3> DEFINE gone == [NoMemory EXCEPT !.row = "deleted"]
    <3>1. gone.revoked = FALSE
      BY DEF NoMemory
    <3>2. /\ mem' = [mem EXCEPT ![m] = gone] /\ fragments' = [fragments EXCEPT ![m] = 0]
          /\ UNCHANGED <<store, pipe, cause>>
      BY <2>3 DEF Delete
    <3> HIDE DEF gone
    <3>3. ~mem'[m].revoked /\ \A k \in Memories \ {m} : mem'[k] = mem[k]
                                                          /\ fragments'[k] = fragments[k]
      BY <1>1, <1>9, <3>1, <3>2
    <3>4. Sealed(m)'
      BY <3>3 DEF Sealed
    <3> QED
      BY <1>3, <3>2, <3>3, <3>4
  <2> QED
    BY <1>4, <2>1, <2>2, <2>3 DEF StoreStep
<1>5. ASSUME NEW w \in Workers, WorkerStep(w) PROVE SealedInv'
  <2>1. UNCHANGED <<mem, fragments, store>>
    BY <1>5 DEF WorkerStep, Sweep, Rehydrate, TimesOut, RecordDone, RecordFailed, LoseOutcome,
                WorkerDies
  <2>2. CASE Sweep(w)
    <3>1. PICK s : Swept(w, s)
      BY <2>2, SweepTakes
    <3>2. UNCHANGED pipe /\ \A k \in Memories : cause[k] \subseteq cause'[k]
      BY <1>1, <2>2, <3>1 DEF Sweep, Swept
    <3> QED
      BY <1>2, <2>1, <3>2
  <2>3. CASE Rehydrate(w)
    <3>1. PICK m \in Memories : m = InHand(w).mem
      BY <2>3, HeadIsClaim DEF Rehydrate
    <3>2. CASE Readable(m) /\ StartPipe(m, w, TRUE)
      <4>1. ~mem[m].revoked
        BY <1>1, <3>2 DEF Readable, RowShape
      <4> QED
        BY <2>1, <3>2, <4>1, SealAndStart
    <3>3. CASE UNCHANGED pipe
      BY <1>2, <2>1, <2>3, <3>3, RehydrateMoves
    <3> QED
      BY <2>3, <3>1, <3>2, <3>3, RehydrateMoves
  <2>4. CASE WorkerDies(w)
    <3>1. UNCHANGED cause /\ \A p \in Pipes : pipe'[p] = pipe[p] \/ pipe'[p].at = "idle"
      BY <2>4, DeathTypes
    <3> QED
      BY <1>2, <2>1, <3>1
  <2>5. CASE UNCHANGED <<pipe, cause>>
    BY <1>2, <2>1, <2>5
  <2> QED
    BY <1>5, <2>2, <2>3, <2>4, <2>5 DEF WorkerStep, TimesOut, RecordDone, RecordFailed,
                                        LoseOutcome
<1>6. ASSUME NEW p \in Pipes, PipeStep(p) PROVE SealedInv'
  <2>1. CASE PipeEnds(p)
    <3>1. /\ UNCHANGED <<mem, fragments, store, cause>> /\ pipe'[p].at = "idle"
          /\ \A q \in Pipes \ {p} : pipe'[q] = pipe[q]
      BY <2>1, PipeEndTypes
    <3> QED
      BY <1>2, <3>1
  <2>2. CASE ~PipeEnds(p)
    <3>1. PICK m \in Memories :
             /\ UNCHANGED store /\ m = pipe[p].mem /\ pipe[p].at # "idle"
             /\ \A k \in Memories \ {m} : /\ mem'[k] = mem[k] /\ cause'[k] = cause[k]
                                            /\ fragments'[k] = fragments[k]
             /\ cause[m] \subseteq cause'[m] /\ mem'[m].revoked = mem[m].revoked
      BY <1>6, <2>2, PipeWrites DEF PipeStep
    <3>2. UnderWay(m)
      BY <1>6, <2>2, <3>1 DEF PipeStep, Embed, ClearFragments, InsertFragments, UnderWay, PipesOf
    <3>3. Sealed(m)'
      BY <1>1, <3>1, <3>2 DEF Sealed
    <3>4. pipe'[p].mem = m /\ \A q \in Pipes \ {p} : pipe'[q] = pipe[q]
      <4>1. \E at \in {"clear", "insert", "link"} : Step(p, at)
        BY <1>6, <2>2 DEF PipeStep, Embed, ClearFragments, InsertFragments
      <4> QED
        BY <3>1, <4>1, PipeMoves
    <3>5. \A k \in Memories \ {m} : Sealed(k)'
      BY <3>1, <3>4, SealKept
    <3> QED
      BY <3>3, <3>5 DEF SealedInv
  <2> QED
    BY <2>1, <2>2
<1>7. ASSUME NEW c \in Clients, ClientStep(c) PROVE SealedInv'
  <2>1. ASSUME NEW m \in Memories, ReadToRevoke(c, m) \/ ReadToRedelegate(c, m) PROVE SealedInv'
    <3>1. UNCHANGED <<mem, fragments, store, pipe, cause>>
      BY <2>1, ReadTypes
    <3> QED
      BY <1>2, <3>1
  <2>2. CASE Revoke(c) \/ Redelegate(c)
    <3>1. PICK m \in Memories :
             /\ Answers(c, m)
             /\ ~Stored(m) => mem' = mem /\ fragments' = fragments
             /\ Stored(m) =>
                   \/ ~mem'[m].revoked
                   \/ /\ ~mem'[m].summary /\ ~mem'[m].embedding /\ fragments'[m] = 0
                      /\ UnderWay(m) => "raced" \in cause'[m]
      <4>1. CASE Revoke(c)
        BY <4>1, RevokeWrites
      <4>2. CASE Redelegate(c)
        BY <4>2, RedelegateWrites
      <4> QED
        BY <2>2, <4>1, <4>2
    <3>2. /\ UNCHANGED <<store, pipe>> /\ \A k \in Memories : cause[k] \subseteq cause'[k]
          /\ \A k \in Memories \ {m} : mem'[k] = mem[k] /\ fragments'[k] = fragments[k]
      BY <3>1 DEF Answers
    <3>3. UnderWay(m)' = UnderWay(m)
      BY <3>2 DEF UnderWay, PipesOf
    <3>4. Sealed(m)'
      <4>1. CASE Stored(m)
        BY <3>1, <3>3, <4>1 DEF Sealed
      <4>2. CASE ~Stored(m)
        BY <3>1, <3>2, <4>2, SealKept
      <4> QED
        BY <4>1, <4>2
    <3> QED
      BY <1>3, <3>2, <3>4
  <2> QED
    BY <1>7, <2>1, <2>2 DEF ClientStep
<1>8. CASE UNCHANGED vars
  BY <1>2, <1>8 DEF vars
<1> QED
  BY <1>4, <1>5, <1>6, <1>7, <1>8 DEF Next

(* A revocation is not undone by the pipelines and retries that come after *)
(* it, however many there are (RevokedStaysSealed): revoke_memory empties  *)
(* the row and deletes its fragments, and only a store or a pipeline that  *)
(* had the plaintext before can write there again.                         *)
THEOREM RevocationHolds == Spec => []RevokedStaysSealed
<1>1. Spec => []SealedInv
  BY TypesAlways, SealedInit, SealedStep, PTL DEF Spec
<1>2. SealedInv => RevokedStaysSealed
  BY DEF SealedInv, Sealed, RevokedStaysSealed
<1> QED
  BY <1>1, <1>2, PTL

(***************************************************************************)
(* A done job left an embedding.                                           *)
(***************************************************************************)
LEMMA CausesGrow ==
    ASSUME Types, [Next]_vars
    PROVE  \A k \in Memories : cause[k] \subseteq cause'[k]
<1> USE DEF db, hist
<1>1. cause \in [Memories -> Causes]
  BY DEF Types, Causes
<1>2. ASSUME NEW m \in Memories, StoreStep(m) \/ Delete(m)
      PROVE  \A k \in Memories : cause[k] \subseteq cause'[k]
  <2>1. CASE Enqueue(m)
    <3>1. UNCHANGED cause \/ \E w \in Workers : StartPipe(m, w, FALSE)
      BY <2>1 DEF Enqueue
    <3> QED
      BY <3>1, PipeStarts
  <2> QED
    BY <1>2, <2>1, StoreRows DEF StoreStep, Delete
<1>3. ASSUME NEW w \in Workers, WorkerStep(w)
      PROVE  \A k \in Memories : cause[k] \subseteq cause'[k]
  <2>1. CASE Sweep(w)
    <3>1. PICK s : Swept(w, s)
      BY <2>1, SweepTakes
    <3> QED
      BY <1>1, <3>1 DEF Swept
  <2> QED
    BY <1>3, <2>1, RehydrateMoves
    DEF WorkerStep, TimesOut, RecordDone, RecordFailed, LoseOutcome, WorkerDies
<1>4. ASSUME NEW p \in Pipes, PipeStep(p)
      PROVE  \A k \in Memories : cause[k] \subseteq cause'[k]
  BY <1>4, PipeWrites DEF PipeStep, PipeEnds
<1>5. ASSUME NEW c \in Clients, ClientStep(c)
      PROVE  \A k \in Memories : cause[k] \subseteq cause'[k]
  <2>1. CASE Revoke(c) \/ Redelegate(c)
    <3>1. \E m \in Memories : Answers(c, m)
      BY <2>1, RevokeWrites, RedelegateWrites
    <3> QED
      BY <3>1 DEF Answers
  <2> QED
    BY <1>5, <2>1 DEF ClientStep, ReadToRevoke, ReadToRedelegate
<1> QED
  BY <1>2, <1>3, <1>4, <1>5 DEF Next, vars

LEMMA EmbeddedStays ==
    ASSUME Types, [Next]_vars, NEW k \in Memories, store[k] = "stored", Embedded(k)
    PROVE  Embedded(k)'
<1> USE DEF db, hist
<1>1. mem \in [Memories -> MemRow] /\ cause[k] \subseteq cause'[k]
  BY CausesGrow DEF Types
<1>2. CASE mem'[k] = mem[k]
  BY <1>1, <1>2 DEF Embedded, Stored
<1>3. ASSUME NEW m \in Memories, StoreStep(m) \/ Delete(m) PROVE Embedded(k)'
  <2>1. CASE Delete(m)
    <3> DEFINE gone == [NoMemory EXCEPT !.row = "deleted"]
    <3>1. gone.row = "deleted"
      BY DEF NoMemory
    <3>2. mem' = [mem EXCEPT ![m] = gone]
      BY <2>1 DEF Delete
    <3> HIDE DEF gone
    <3>3. mem'[k] = mem[k] \/ mem'[k].row = "deleted"
      BY <1>1, <3>1, <3>2
    <3> QED
      BY <1>2, <3>3 DEF Embedded, Stored
  <2>2. CASE StoreStep(m)
    <3>1. m # k
      BY <2>2 DEF StoreStep, Insert, WriteWraps, Revert, Enqueue, StoreDies
    <3>2. mem'[k] = mem[k]
      BY <1>1, <2>2, <3>1 DEF StoreStep, Insert, WriteWraps, Revert, Enqueue, StoreDies
    <3> QED
      BY <1>2, <3>2
  <2> QED
    BY <1>3, <2>1, <2>2
<1>4. ASSUME NEW w \in Workers, WorkerStep(w) PROVE Embedded(k)'
  BY <1>2, <1>4 DEF WorkerStep, Sweep, Rehydrate, TimesOut, RecordDone, RecordFailed,
                    LoseOutcome, WorkerDies
<1>5. ASSUME NEW p \in Pipes, PipeStep(p) PROVE Embedded(k)'
  <2>1. CASE PipeEnds(p)
    BY <1>2, <2>1 DEF PipeEnds
  <2>2. CASE ~PipeEnds(p)
    <3>1. PICK m \in Memories :
             /\ \A j \in Memories \ {m} : mem'[j] = mem[j]
             /\ mem'[m].row = mem[m].row
             /\ mem'[m].sealedEmbedding = mem[m].sealedEmbedding
             /\ mem'[m].embedding = mem[m].embedding \/ mem'[m].embedding
      BY <1>5, <2>2, PipeWrites DEF PipeStep
    <3>2. CASE k = m
      BY <1>1, <3>1, <3>2 DEF Embedded, Stored
    <3> QED
      BY <1>2, <3>1, <3>2
  <2> QED
    BY <2>1, <2>2
<1>6. ASSUME NEW c \in Clients, ClientStep(c) PROVE Embedded(k)'
  <2>1. CASE Revoke(c) \/ Redelegate(c)
    <3>1. PICK m \in Memories :
             /\ Answers(c, m)
             /\ ~Stored(m) => mem' = mem
             /\ Stored(m) => \/ mem'[m].embedding \/ mem'[m].sealedEmbedding
                             \/ "unembedded" \in cause'[m]
      <4>1. CASE Revoke(c)
        BY <4>1, RevokeWrites
      <4>2. CASE Redelegate(c)
        BY <4>2, RedelegateWrites
      <4> QED
        BY <2>1, <4>1, <4>2
    <3>2. k # m => mem'[k] = mem[k]
      BY <3>1 DEF Answers
    <3>3. CASE k = m /\ Stored(m)
      BY <3>1, <3>3 DEF Embedded
    <3> QED
      BY <1>2, <3>1, <3>2, <3>3
  <2> QED
    BY <1>2, <1>6, <2>1 DEF ClientStep, ReadToRevoke, ReadToRedelegate
<1> QED
  BY <1>2, <1>3, <1>4, <1>5, <1>6 DEF Next, vars

(* Who writes a job, moves a pipeline, and lets a worker be done.          *)
LEMMA JobWriters ==
    ASSUME Types, [Next]_vars, NEW k \in Memories, job'[k] # job[k]
    PROVE  \/ Enqueue(k) /\ job[k] = NoJob /\ job'[k].status = "pending"
           \/ Delete(k) /\ job'[k] = NoJob
           \/ \E w \in Workers : Sweep(w) /\ (Due(k) \/ Stale(k)) /\ job'[k].status = "running"
           \/ \E w \in Workers : /\ RecordDone(w) \/ RecordFailed(w)
                                 /\ k = InHand(w).mem /\ job'[k].status = worker[w].at
                                 /\ worker[w].at \in {"done", "failed"}
<1> USE DEF db, hist
<1>1. job \in [Memories -> JobRow] /\ job[k] \in JobRow
  BY DEF Types
<1>2. ASSUME NEW m \in Memories, StoreStep(m) \/ Delete(m)
      PROVE  \/ Enqueue(k) /\ job[k] = NoJob /\ job'[k].status = "pending"
             \/ Delete(k) /\ job'[k] = NoJob
  <2>1. CASE Delete(m)
    <3>1. job' = [job EXCEPT ![m] = NoJob]
      BY <2>1 DEF Delete
    <3>2. k = m /\ job'[k] = NoJob
      BY <1>1, <3>1
    <3> QED
      BY <2>1, <3>2
  <2>2. CASE Enqueue(m)
    <3> DEFINE r == [status |-> "pending", retry |-> TRUE, attempts |-> 0]
    <3>1. r.status = "pending"
      OBVIOUS
    <3>2. job' = job \/ job' = [job EXCEPT ![m] = r]
      BY <2>2 DEF Enqueue
    <3> HIDE DEF r
    <3>3. k = m /\ job'[k] = r
      BY <1>1, <3>2
    <3>4. job[k] = NoJob
      BY <2>2, <3>3 DEF Enqueue, Types, RowShape
    <3> QED
      BY <2>2, <3>1, <3>3, <3>4
  <2> QED
    BY <1>2, <2>1, <2>2 DEF StoreStep, Insert, WriteWraps, Revert, StoreDies
<1>3. ASSUME NEW w \in Workers, WorkerStep(w)
      PROVE  \/ Sweep(w) /\ (Due(k) \/ Stale(k)) /\ job'[k].status = "running"
             \/ /\ RecordDone(w) \/ RecordFailed(w)
                /\ k = InHand(w).mem /\ job'[k].status = worker[w].at
                /\ worker[w].at \in {"done", "failed"}
  <2>1. CASE Sweep(w)
    <3>1. PICK s : Swept(w, s) /\ \A m \in ToSet(s) : m \in Memories /\ (Due(m) \/ Stale(m))
      BY <2>1, SweepTakes
    <3>2. job'[k] = IF k \in ToSet(s)
                    THEN [job[k] EXCEPT !.status = "running", !.attempts = @ + 1] ELSE job[k]
      BY <3>1 DEF Swept
    <3>3. [job[k] EXCEPT !.status = "running", !.attempts = @ + 1].status = "running"
      BY <1>1 DEF JobRow
    <3> QED
      BY <2>1, <3>1, <3>2, <3>3
  <2>2. CASE RecordDone(w) \/ RecordFailed(w) \/ LoseOutcome(w)
    <3>1. /\ worker[w].at \in {"done", "failed"}
          /\ \A j \in Memories \ {InHand(w).mem} : job'[j] = job[j]
          /\ job'[InHand(w).mem] = job[InHand(w).mem]
             \/ job'[InHand(w).mem].status = worker[w].at
          /\ LoseOutcome(w) => job' = job
      BY <2>2, JobDropped DEF Records
    <3> QED
      BY <2>2, <3>1
  <2> QED
    BY <1>3, <2>1, <2>2 DEF WorkerStep, Rehydrate, TimesOut, WorkerDies
<1>4. ASSUME NEW p \in Pipes, PipeStep(p) PROVE FALSE
  BY <1>4 DEF PipeStep, Embed, ClearFragments, InsertFragments, PipeEnds
<1>5. ASSUME NEW c \in Clients, ClientStep(c) PROVE FALSE
  BY <1>5 DEF ClientStep, ReadToRevoke, ReadToRedelegate, Revoke, Redelegate
<1> QED
  BY <1>2, <1>3, <1>4, <1>5 DEF Next, vars

LEMMA PipeMovers ==
    ASSUME Types, [Next]_vars, NEW p \in Pipes, pipe'[p].at # "idle"
    PROVE  \/ pipe'[p] = pipe[p]
           \/ pipe[p].at = "idle" /\ pipe'[p].at = "embed"
           \/ /\ Embed(p) \/ ClearFragments(p) \/ InsertFragments(p)
              /\ pipe[p].at # "idle" /\ pipe'[p].mem = pipe[p].mem
<1> USE DEF db, hist
<1>1. ASSUME NEW m \in Memories, NEW w \in Workers, NEW r \in BOOLEAN, StartPipe(m, w, r)
      PROVE  pipe'[p] = pipe[p] \/ (pipe[p].at = "idle" /\ pipe'[p].at = "embed")
  BY <1>1, PipeStarts
<1>2. ASSUME NEW m \in Memories, StoreStep(m) \/ Delete(m)
      PROVE  pipe'[p] = pipe[p] \/ (pipe[p].at = "idle" /\ pipe'[p].at = "embed")
  BY <1>1, <1>2 DEF StoreStep, Insert, WriteWraps, Revert, Enqueue, StoreDies, Delete
<1>3. ASSUME NEW w \in Workers, WorkerStep(w)
      PROVE  pipe'[p] = pipe[p] \/ (pipe[p].at = "idle" /\ pipe'[p].at = "embed")
  <2>1. CASE Rehydrate(w)
    <3>1. InHand(w).mem \in Memories
      BY <2>1, HeadIsClaim DEF Rehydrate
    <3> QED
      BY <1>1, <2>1, <3>1, RehydrateMoves
  <2>2. CASE WorkerDies(w)
    BY <2>2, DeathTypes
  <2> QED
    BY <1>3, <2>1, <2>2 DEF WorkerStep, Sweep, TimesOut, RecordDone, RecordFailed, LoseOutcome
<1>4. ASSUME NEW q \in Pipes, PipeStep(q)
      PROVE  \/ pipe'[p] = pipe[p]
             \/ /\ Embed(p) \/ ClearFragments(p) \/ InsertFragments(p)
                /\ pipe[p].at # "idle" /\ pipe'[p].mem = pipe[p].mem
  <2>1. CASE PipeEnds(q)
    BY <2>1, PipeEndTypes
  <2>2. CASE Embed(q) \/ ClearFragments(q) \/ InsertFragments(q)
    <3>1. pipe[q].at # "idle" /\ \E at \in {"clear", "insert", "link"} : Step(q, at)
      BY <2>2 DEF Embed, ClearFragments, InsertFragments
    <3>2. pipe'[q].mem = pipe[q].mem /\ \A r \in Pipes \ {q} : pipe'[r] = pipe[r]
      BY <3>1, PipeMoves
    <3> QED
      BY <2>2, <3>1, <3>2
  <2> QED
    BY <1>4, <2>1, <2>2 DEF PipeStep
<1>5. ASSUME NEW c \in Clients, ClientStep(c) PROVE pipe'[p] = pipe[p]
  BY <1>5 DEF ClientStep, ReadToRevoke, ReadToRedelegate, Revoke, Redelegate
<1> QED
  BY <1>2, <1>3, <1>4, <1>5 DEF Next, vars

LEMMA DoneWorkers ==
    ASSUME Types, [Next]_vars, NEW w \in Workers, worker'[w].at = "done"
    PROVE  /\ worker[w].at # "idle" /\ InHand(w)' = InHand(w)
           /\ \/ worker[w].at = "done" /\ worker'[w] = worker[w]
              \/ "unembedded" \in cause'[InHand(w).mem]
              \/ \E p \in Pipes : PipeEnds(p) /\ worker[w].at = "running" /\ worker[w].pipe = p
<1> USE DEF db, hist
<1>1. CASE worker'[w] = worker[w]
  BY <1>1 DEF InHand
<1>2. ASSUME NEW m \in Memories, StoreStep(m) \/ Delete(m) PROVE worker'[w] = worker[w]
  BY <1>2 DEF StoreStep, Insert, WriteWraps, Revert, Enqueue, StoreDies, Delete
<1>3. ASSUME NEW v \in Workers, WorkerStep(v)
      PROVE  \/ worker'[w] = worker[w]
             \/ /\ worker[w].at # "idle" /\ InHand(w)' = InHand(w)
                /\ "unembedded" \in cause'[InHand(w).mem]
  <2>1. CASE Rehydrate(v)
    BY <2>1, RehydrateMoves
  <2>2. CASE TimesOut(v)
    BY <2>2, TimeoutTypes
  <2>3. CASE RecordDone(v) \/ RecordFailed(v) \/ LoseOutcome(v)
    BY <2>3, JobDropped, AfterJob
  <2>4. CASE WorkerDies(v)
    <3>1. IdleWorker.at = "idle"
      BY DEF IdleWorker
    <3> QED
      BY <2>4, <3>1, DeathTypes
  <2>5. CASE Sweep(v)
    <3>1. PICK s : Swept(v, s) /\ IsInjective(s)
                   /\ \E n \in Nat \ {0} : s \in [1..n -> Memories]
      BY <2>5, SweepTakes
    <3>2. worker'[v].at = "job" /\ \A u \in Workers \ {v} : worker'[u] = worker[u]
      BY <3>1, SweptBatch
    <3> QED
      BY <3>2
  <2> QED
    BY <1>3, <2>1, <2>2, <2>3, <2>4, <2>5 DEF WorkerStep
<1>4. ASSUME NEW p \in Pipes, PipeStep(p)
      PROVE  \/ worker'[w] = worker[w]
             \/ /\ PipeEnds(p) /\ worker[w].at = "running" /\ worker[w].pipe = p
                /\ InHand(w)' = InHand(w)
  <2>1. CASE PipeEnds(p)
    BY <2>1, PipeEndTypes DEF InHand
  <2> QED
    BY <1>4, <2>1 DEF PipeStep, Embed, ClearFragments, InsertFragments
<1>5. ASSUME NEW c \in Clients, ClientStep(c) PROVE worker'[w] = worker[w]
  BY <1>5 DEF ClientStep, ReadToRevoke, ReadToRedelegate, Revoke, Redelegate
<1> QED
  BY <1>1, <1>2, <1>3, <1>4, <1>5 DEF Next, vars

LEMMA EmbeddedInit == Init => EmbeddedInv
BY DEF Init, EmbeddedInv, NoJob, IdleWorker

LEMMA EmbeddedStep == Types /\ EmbeddedInv /\ [Next]_vars => EmbeddedInv'
<1> SUFFICES ASSUME Types, EmbeddedInv, [Next]_vars PROVE EmbeddedInv'
  OBVIOUS
<1>1. \A k \in Memories : store[k] = "stored" /\ Embedded(k) => Embedded(k)'
  BY EmbeddedStays
<1>2. \A k \in Memories : job[k].status = "done" => store[k] = "stored"
  BY DEF Types, RowShape, NoJob
<1>3. \A p \in Pipes : pipe[p].at # "idle" => pipe[p].mem \in Memories
                                             /\ store[pipe[p].mem] = "stored"
  BY DEF Types, PipeShape, Busy
<1>4. \A w \in Workers : worker[w].at # "idle" => InHand(w).mem \in Memories
                                                 /\ store[InHand(w).mem] = "stored"
  BY HeadIsClaim
<1>5. ASSUME NEW k \in Memories, job'[k].status = "done" PROVE Embedded(k)'
  <2>1. CASE job'[k] = job[k]
    BY <1>1, <1>2, <1>5, <2>1 DEF EmbeddedInv
  <2>2. CASE job'[k] # job[k]
    <3>1. PICK w \in Workers : k = InHand(w).mem /\ worker[w].at = "done"
      BY <1>5, <2>2, JobWriters DEF NoJob
    <3> QED
      BY <1>1, <1>4, <3>1 DEF EmbeddedInv
  <2> QED
    BY <2>1, <2>2
<1>6. ASSUME NEW p \in Pipes, pipe'[p].at \in {"clear", "insert", "link"}
      PROVE  Embedded(pipe[p].mem)' /\ pipe'[p].mem = pipe[p].mem
  <2>1. CASE Embed(p)
    <3>1. PICK m \in Memories :
             /\ m = pipe[p].mem /\ mem'[m].row = mem[m].row
             /\ ~Stored(m) \/ mem'[m].embedding \/ "unembedded" \in cause'[m]
      BY <2>1, PipeWrites
    <3>2. Embedded(m)'
      BY <3>1 DEF Embedded, Stored
    <3>3. pipe'[p].mem = m
      BY <2>1, <1>6, <3>1, PipeMovers DEF Embed
    <3> QED
      BY <3>1, <3>2, <3>3
  <2>2. CASE ~Embed(p)
    <3>1. pipe[p].at \in {"clear", "insert", "link"} /\ pipe'[p].mem = pipe[p].mem
      BY <1>6, <2>2, PipeMovers DEF ClearFragments, InsertFragments
    <3>2. PICK m \in Memories : m = pipe[p].mem /\ store[m] = "stored"
      BY <1>3, <3>1
    <3> QED
      BY <1>1, <3>1, <3>2 DEF EmbeddedInv
  <2> QED
    BY <2>1, <2>2
<1>7. ASSUME NEW w \in Workers, worker'[w].at = "done" PROVE Embedded(InHand(w).mem)'
  <2>1. PICK m \in Memories : m = InHand(w).mem /\ store[m] = "stored" /\ m = InHand(w)'.mem
    BY <1>4, <1>7, DoneWorkers
  <2>2. CASE worker[w].at = "done"
    BY <1>1, <2>1, <2>2 DEF EmbeddedInv
  <2>3. CASE "unembedded" \in cause'[m]
    BY <2>1, <2>3 DEF Embedded
  <2>4. ASSUME NEW p \in Pipes, PipeEnds(p), worker[w].at = "running", worker[w].pipe = p
        PROVE  Embedded(InHand(w).mem)'
    <3>1. pipe[p].mem = m /\ pipe[p].at = "link"
      BY <2>1, <2>4, RunningPipe DEF PipeEnds
    <3> QED
      BY <1>1, <2>1, <3>1 DEF EmbeddedInv
  <2> QED
    BY <1>7, <2>1, <2>2, <2>3, <2>4, DoneWorkers
<1> QED
  BY <1>5, <1>6, <1>7 DEF EmbeddedInv

(* A job that is done left its memory's embedding, in the row or in its    *)
(* seal, or something that `cause` names kept it out (DoneIsEmbedded):     *)
(* embedMemory comes before markDone, whatever runs in between.            *)
THEOREM DoneMeansEmbedded == Spec => []DoneIsEmbedded
<1>1. Spec => []EmbeddedInv
  BY TypesAlways, EmbeddedInit, EmbeddedStep, PTL DEF Spec
<1>2. Types /\ EmbeddedInv => DoneIsEmbedded
  <2> SUFFICES ASSUME Types, EmbeddedInv, NEW m \in Memories, job[m].status = "done"
               PROVE  mem[m].embedding \/ mem[m].sealedEmbedding \/ "unembedded" \in cause[m]
    BY DEF DoneIsEmbedded
  <2>1. Stored(m)
    BY DEF Types, RowShape, NoJob
  <2> QED
    BY <2>1 DEF EmbeddedInv, Embedded
<1> QED
  BY <1>1, <1>2, TypesAlways, PTL

(***************************************************************************)
(* Who holds a job, and that an outcome is final.                          *)
(***************************************************************************)
LEMMA HoldersIfSame ==
    ASSUME NEW k \in Memories, \A v \in Workers : Claims(v)' = Claims(v)
    PROVE  Holders(k)' = Holders(k)
BY DEF Holders

LEMMA DropHolders ==
    ASSUME Types, NEW w \in Workers, worker[w].at # "idle", NextJob(w)
    PROVE  \A k \in Memories :
               Holders(k)' = IF k = InHand(w).mem THEN Holders(k) \ {w} ELSE Holders(k)
<1>1. /\ \A v \in Workers \ {w} : worker'[v] = worker[v]
      /\ Claims(w)' \subseteq Claims(w)
      /\ \A c \in Claims(w) : c = InHand(w) \/ c \in Claims(w)'
      /\ \A c \in Claims(w)' : c.mem # InHand(w).mem
  BY AfterJob
<1>2. \A v \in Workers \ {w} : Claims(v)' = Claims(v)
  BY <1>1 DEF Claims
<1>3. ASSUME NEW k \in Memories, NEW v \in Workers
      PROVE  v \in Holders(k)' <=> v \in Holders(k) /\ (k = InHand(w).mem => v # w)
  <2>1. CASE v # w
    BY <1>2, <2>1 DEF Holders
  <2>2. CASE v = w
    BY <1>1, <2>2 DEF Holders
  <2> QED
    BY <2>1, <2>2
<1>4. \A k \in Memories : Holders(k) \subseteq Workers /\ Holders(k)' \subseteq Workers
  BY DEF Holders
<1> QED
  BY <1>3, <1>4

LEMMA DeathHolders ==
    ASSUME Types, NEW w \in Workers, WorkerDies(w)
    PROVE  \A k \in Memories : Holders(k)' = Holders(k) \ {w}
<1>1. Claims(w)' = {} /\ \A v \in Workers \ {w} : Claims(v)' = Claims(v)
  BY DeathTypes
<1>2. ASSUME NEW k \in Memories, NEW v \in Workers
      PROVE  v \in Holders(k)' <=> v \in Holders(k) /\ v # w
  BY <1>1 DEF Holders
<1>3. \A k \in Memories : Holders(k) \subseteq Workers /\ Holders(k)' \subseteq Workers
  BY DEF Holders
<1> QED
  BY <1>2, <1>3

LEMMA SweepHolders ==
    ASSUME Types, NEW w \in Workers, worker[w].at = "idle", NEW s, NEW n \in Nat \ {0},
           s \in [1..n -> Memories], IsInjective(s), Swept(w, s)
    PROVE  /\ Claims(w) = {}
           /\ \A v \in Workers \ {w} : Claims(v)' = Claims(v)
           /\ \A k \in Memories :
                 Holders(k)' = IF k \in ToSet(s) THEN Holders(k) \cup {w} ELSE Holders(k)
<1>1. /\ \A v \in Workers \ {w} : worker'[v] = worker[v]
      /\ \A c \in Claims(w)' : c.mem \in ToSet(s)
      /\ \A m \in ToSet(s) : \E c \in Claims(w)' : c.mem = m
  BY SweptBatch
<1>2. Claims(w) = {} /\ \A v \in Workers \ {w} : Claims(v)' = Claims(v)
  <2>1. worker[w].batch = <<>>
    BY DEF Types, WorkerShape
  <2> QED
    BY <1>1, <2>1, NoClaims DEF Claims
<1>3. ASSUME NEW k \in Memories, NEW v \in Workers
      PROVE  v \in Holders(k)' <=> v \in Holders(k) \/ (k \in ToSet(s) /\ v = w)
  <2>1. CASE v # w
    BY <1>2, <2>1 DEF Holders
  <2>2. CASE v = w
    BY <1>1, <1>2, <2>2 DEF Holders
  <2> QED
    BY <2>1, <2>2
<1>4. \A k \in Memories : Holders(k) \subseteq Workers /\ Holders(k)' \subseteq Workers
  BY DEF Holders
<1> QED
  BY <1>2, <1>3, <1>4

(* A claim changes hands only by a sweep, by the end of its job, and by a  *)
(* crash; elsewhere the workers keep what they hold.                       *)
LEMMA ClaimsStay ==
    ASSUME Types, [Next]_vars,
           \A w \in Workers : ~Sweep(w) /\ ~RecordDone(w) /\ ~RecordFailed(w) /\ ~LoseOutcome(w)
                              /\ ~WorkerDies(w)
    PROVE  /\ \A v \in Workers : Claims(v)' = Claims(v)
           /\ \A k \in Memories : Holders(k)' = Holders(k)
           /\ UNCHANGED losses
<1> USE DEF db, hist
<1>1. ASSUME NEW m \in Memories, StoreStep(m) \/ Delete(m) PROVE UNCHANGED <<worker, losses>>
  BY <1>1 DEF StoreStep, Insert, WriteWraps, Revert, Enqueue, StoreDies, Delete
<1>2. ASSUME NEW w \in Workers, WorkerStep(w)
      PROVE  /\ \A v \in Workers : Claims(v)' = Claims(v)
             /\ \A k \in Memories : Holders(k)' = Holders(k)
             /\ UNCHANGED losses
  <2>1. Rehydrate(w) \/ TimesOut(w)
    BY <1>2 DEF WorkerStep
  <2> QED
    BY <2>1, RehydrateMoves, TimeoutTypes
<1>3. ASSUME NEW p \in Pipes, PipeStep(p)
      PROVE  /\ \A v \in Workers : Claims(v)' = Claims(v)
             /\ \A k \in Memories : Holders(k)' = Holders(k)
             /\ UNCHANGED losses
  <2>1. CASE PipeEnds(p)
    <3>1. \A v \in Workers : Claims(v)' = Claims(v)
      BY <2>1, PipeEndTypes DEF Claims
    <3> QED
      BY <2>1, <3>1, HoldersIfSame, PipeEndTypes
  <2>2. CASE ~PipeEnds(p)
    <3>1. UNCHANGED <<worker, losses>>
      BY <1>3, <2>2 DEF PipeStep, Embed, ClearFragments, InsertFragments
    <3>2. \A v \in Workers : Claims(v)' = Claims(v)
      BY <3>1 DEF Claims
    <3> QED
      BY <3>1, <3>2, HoldersIfSame
  <2> QED
    BY <2>1, <2>2
<1>4. ASSUME NEW c \in Clients, ClientStep(c) PROVE UNCHANGED <<worker, losses>>
  BY <1>4 DEF ClientStep, ReadToRevoke, ReadToRedelegate, Revoke, Redelegate
<1>5. UNCHANGED worker => \A v \in Workers : Claims(v)' = Claims(v)
  BY DEF Claims
<1>6. CASE UNCHANGED <<worker, losses>>
  BY <1>5, <1>6, HoldersIfSame
<1> QED
  BY <1>1, <1>2, <1>3, <1>4, <1>6 DEF Next, vars

LEMMA QueuedBeforeHeld ==
    ASSUME Types, NEW k \in Memories, Holders(k) # {}
    PROVE  store[k] = "stored"
BY DEF Types, WorkerShape, Holders

LEMMA HeldInit == Init => HeldInv
<1> SUFFICES ASSUME Init, NEW m \in Memories PROVE Holders(m) = {}
  BY DEF HeldInv, Held
<1>1. \A w \in Workers : Claims(w) = {}
  BY NoClaims DEF Init, IdleWorker
<1> QED
  BY <1>1 DEF Holders

LEMMA HeldStep == Types /\ HeldInv /\ [Next]_vars => HeldInv'
<1> SUFFICES ASSUME Types, HeldInv, [Next]_vars, NEW k \in Memories PROVE Held(k)'
  BY DEF HeldInv
<1>1. Held(k) /\ cause[k] \subseteq cause'[k]
  BY CausesGrow DEF HeldInv
<1>2. ASSUME NEW w \in Workers, Sweep(w) PROVE Held(k)'
  <2>1. PICK s : /\ Swept(w, s)
                 /\ \E n \in Nat \ {0} : s \in [1..n -> Memories]
                 /\ IsInjective(s)
    BY <1>2, SweepTakes
  <2>2. Holders(k)' = IF k \in ToSet(s) THEN Holders(k) \cup {w} ELSE Holders(k)
    BY <1>2, <2>1, SweepHolders DEF Sweep
  <2>3. CASE k \in ToSet(s)
    <3>1. Holders(k) # {} => "overtaken" \in cause'[k]
      BY <2>1, <2>3 DEF Swept, Overtaken
    <3>2. job'[k].status = "running"
      <4>1. job'[k] = [job[k] EXCEPT !.status = "running", !.attempts = @ + 1]
        BY <2>1, <2>3 DEF Swept
      <4> QED
        BY <4>1 DEF Types, JobRow
    <3> QED
      BY <2>2, <2>3, <3>1, <3>2 DEF Held
  <2>4. CASE k \notin ToSet(s)
    <3>1. job'[k] = job[k]
      BY <2>1, <2>4 DEF Swept
    <3> QED
      BY <1>1, <2>2, <2>4, <3>1 DEF Held
  <2> QED
    BY <2>3, <2>4
<1>3. ASSUME NEW w \in Workers, RecordDone(w) \/ RecordFailed(w) \/ LoseOutcome(w)
      PROVE  Held(k)'
  <2>1. /\ worker[w].at # "idle" /\ NextJob(w) /\ Records(w)
    BY <1>3, JobDropped
  <2>2. Holders(k)' = IF k = InHand(w).mem THEN Holders(k) \ {w} ELSE Holders(k)
    BY <2>1, DropHolders
  <2>3. k # InHand(w).mem => job'[k] = job[k]
    BY <2>1 DEF Records
  <2>4. k = InHand(w).mem => w \in Holders(k)
    BY <2>1, HeadIsClaim
  <2> QED
    BY <1>1, <2>2, <2>3, <2>4 DEF Held
<1>4. ASSUME NEW w \in Workers, WorkerDies(w) PROVE Held(k)'
  <2>1. job' = job /\ Holders(k)' = Holders(k) \ {w}
    BY <1>4, DeathTypes, DeathHolders
  <2> QED
    BY <1>1, <2>1 DEF Held
<1>5. ASSUME \A w \in Workers : ~Sweep(w) /\ ~RecordDone(w) /\ ~RecordFailed(w)
                                /\ ~LoseOutcome(w) /\ ~WorkerDies(w)
      PROVE  Held(k)'
  <2>1. Holders(k)' = Holders(k)
    BY <1>5, ClaimsStay
  <2>2. CASE job'[k] = job[k]
    BY <1>1, <2>1, <2>2 DEF Held
  <2>3. CASE Enqueue(k)
    <3>1. Holders(k) = {}
      BY <2>3, QueuedBeforeHeld DEF Enqueue
    <3> QED
      BY <2>1, <3>1 DEF Held
  <2>4. CASE job'[k] = NoJob
    BY <1>1, <2>1, <2>4 DEF Held
  <2> QED
    BY <1>5, <2>2, <2>3, <2>4, JobWriters
<1> QED
  BY <1>2, <1>3, <1>4, <1>5

LEMMA HeldAlways == Spec => []HeldInv
<1> QED
  BY TypesAlways, HeldInit, HeldStep, PTL DEF Spec

(* An outcome is final unless the job was claimed again under its worker:  *)
(* the claim takes pending, retryable and stale running jobs only, and     *)
(* mark_memory_write_job_* is called by the one worker that holds it, or   *)
(* by one whose lease was overtaken (OutcomeFinal).                        *)
THEOREM OutcomesAreFinal == Spec => OutcomeFinal
<1>1. ASSUME Types, HeldInv, [Next]_vars, NEW m \in Memories, Closed(job[m]), job'[m] # job[m]
      PROVE  job'[m] = NoJob \/ "overtaken" \in cause[m]
  <2>1. CASE Enqueue(m) /\ job[m] = NoJob
    BY <1>1, <2>1 DEF Closed, NoJob
  <2>2. ASSUME NEW w \in Workers, Due(m) \/ Stale(m)
        PROVE  FALSE
    BY <1>1, <2>2 DEF Closed, Due, Stale
  <2>3. ASSUME NEW w \in Workers, RecordDone(w) \/ RecordFailed(w), m = InHand(w).mem,
               worker[w].at \in {"done", "failed"}
        PROVE  "overtaken" \in cause[m]
    <3>1. w \in Holders(m)
      BY <1>1, <2>3, HeadIsClaim
    <3>2. job[m].status # "running" /\ job[m] # NoJob
      BY <1>1 DEF Closed, NoJob
    <3> QED
      BY <1>1, <3>1, <3>2 DEF HeldInv, Held
  <2> QED
    BY <1>1, <2>1, <2>2, <2>3, JobWriters
<1>2. Types /\ HeldInv /\ [Next]_vars =>
          [\A m \in Memories : Closed(job[m]) /\ job'[m] # job[m] =>
               job'[m] = NoJob \/ "overtaken" \in cause[m]]_vars
  BY <1>1
<1> QED
  BY <1>2, TypesAlways, HeldAlways, PTL DEF Spec, OutcomeFinal

(***************************************************************************)
(* A claim is paid once.                                                   *)
(***************************************************************************)
LEMMA ClaimsAreClaims ==
    ASSUME Types, NEW w \in Workers, NEW c \in Claims(w)
    PROVE  c.mem \in Memories /\ c.attempts \in Nat /\ w \in Holders(c.mem)
<1>1. worker[w].at # "idle"
  BY NoClaims DEF Types, WorkerShape
<1> QED
  BY <1>1, HeadIsClaim DEF Claim, Holders

(* A job that stays as it is, while its claims are kept or dropped.        *)
LEMMA PaidStays ==
    ASSUME Types, Types', NEW k \in Memories, Paid(k), job'[k] = job[k],
           losses'[k] >= losses[k],
           Holders(k)' = Holders(k) \/ losses'[k] > losses[k],
           \A v \in Workers : Claims(v)' \subseteq Claims(v)
                              \/ \A c \in Claims(v)' : c.mem # k
    PROVE  Paid(k)'
<1>1. PICK a \in Nat, l \in Nat, n \in Nat :
         /\ a = job[k].attempts /\ a = job'[k].attempts
         /\ l = losses[k] /\ n = losses'[k] /\ n >= l
  BY DEF Types, JobRow
<1>2. MaxAttempts \in Nat
  BY MemoryAssumption
<1>3. a <= MaxAttempts + n
  BY <1>1, <1>2 DEF Paid
<1>4. Holders(k)' = Holders(k) => (job'[k].status = "running" /\ Holders(k)' = {}
                                     => a < MaxAttempts + n)
  BY <1>1, <1>2 DEF Paid
<1>5. n > l => a < MaxAttempts + n
  BY <1>1, <1>2 DEF Paid
<1>6. job[k].status = "failed" /\ job[k].retry => a < MaxAttempts + n
  BY <1>1, <1>2 DEF Paid
<1>7. ASSUME NEW v \in Workers, NEW c \in Claims(v)', c.mem = k
      PROVE  a <= c.attempts + n
  <2>1. c \in Claims(v)
    BY <1>7
  <2>2. c.attempts \in Nat /\ a <= c.attempts + l
    BY <1>1, <1>7, <2>1, ClaimsAreClaims DEF Paid
  <2> QED
    BY <1>1, <2>2
<1>8. Pending(k)' => a = 0
  BY <1>1 DEF Paid, Pending
<1> QED
  BY <1>1, <1>3, <1>4, <1>5, <1>6, <1>7, <1>8 DEF Paid

LEMMA PaidInit == Init => PaidInv
<1> SUFFICES ASSUME Init, NEW m \in Memories PROVE Paid(m)
  BY DEF PaidInv
<1>1. \A w \in Workers : Claims(w) = {}
  BY NoClaims DEF Init, IdleWorker
<1>2. job[m].attempts = 0 /\ job[m].status = "none" /\ losses[m] = 0
  BY DEF Init, NoJob
<1> QED
  BY <1>1, <1>2, MemoryAssumption DEF Paid, Pending

(* A sweep pays one attempt for each job it takes.                         *)
LEMMA PaidSweep ==
    ASSUME Types, PaidInv, Types', NEW w \in Workers, Sweep(w), NEW k \in Memories
    PROVE  Paid(k)'
<1>1. PICK s : /\ Swept(w, s)
               /\ \E n \in Nat \ {0} : s \in [1..n -> Memories]
               /\ IsInjective(s)
               /\ \A m \in ToSet(s) : m \in Memories /\ (Due(m) \/ Stale(m))
  BY SweepTakes
<1>2. /\ Holders(k)' = IF k \in ToSet(s) THEN Holders(k) \cup {w} ELSE Holders(k)
      /\ \A v \in Workers \ {w} : Claims(v)' = Claims(v)
  BY <1>1, SweepHolders DEF Sweep
<1>3. \A c \in Claims(w)' : c.mem \in ToSet(s) /\ c.attempts = job'[c.mem].attempts
  BY <1>1, SweptBatch
<1>4. Paid(k)
  BY DEF PaidInv
<1>5. CASE k \notin ToSet(s)
  <2>1. job'[k] = job[k] /\ losses'[k] = losses[k]
    BY <1>1, <1>5 DEF Swept, Overtaken
  <2>2. losses'[k] >= losses[k]
    BY <2>1 DEF Types
  <2>3. \A v \in Workers : Claims(v)' \subseteq Claims(v) \/ \A c \in Claims(v)' : c.mem # k
    BY <1>2, <1>3, <1>5
  <2> QED
    BY <1>2, <1>4, <1>5, <2>1, <2>2, <2>3, PaidStays
<1>6. CASE k \in ToSet(s)
  <2>1. PICK a \in Nat, l \in Nat : a = job[k].attempts /\ l = losses[k]
    BY DEF Types, JobRow
  <2>2. job'[k].status = "running" /\ job'[k].attempts = a + 1
    <3>1. job'[k] = [job[k] EXCEPT !.status = "running", !.attempts = @ + 1]
      BY <1>1, <1>6 DEF Swept
    <3> QED
      BY <2>1, <3>1 DEF Types, JobRow
  <2>3. losses'[k] = IF Holders(k) # {} THEN l + 1 ELSE l
    BY <1>1, <1>6, <2>1 DEF Swept, Overtaken
  <2>4. MaxAttempts \in Nat /\ MaxAttempts >= 1
    BY MemoryAssumption
  <2>5. a <= MaxAttempts + l /\ (Holders(k) = {} => a < MaxAttempts + l)
    <3>1. a <= MaxAttempts + l
      BY <1>4, <2>1 DEF Paid
    <3>2. CASE job[k].status = "pending"
      BY <1>4, <2>1, <2>4, <3>2 DEF Paid, Pending
    <3>3. CASE job[k].status = "failed" /\ job[k].retry
      BY <1>4, <2>1, <3>1, <3>3 DEF Paid
    <3>4. CASE job[k].status = "running"
      BY <1>4, <2>1, <3>1, <3>4 DEF Paid
    <3> QED
      BY <1>1, <1>6, <3>2, <3>3, <3>4 DEF Due, Stale
  <2>6. job'[k].attempts <= MaxAttempts + losses'[k]
    BY <2>1, <2>2, <2>3, <2>4, <2>5
  <2>7. w \in Holders(k)'
    BY <1>2, <1>6
  <2>8. ASSUME NEW v \in Workers, NEW c \in Claims(v)', c.mem = k
        PROVE  job'[k].attempts <= c.attempts + losses'[k]
    <3>1. losses'[k] \in Nat
      BY DEF Types
    <3>2. CASE v = w
      <4>1. c.attempts = a + 1
        BY <1>3, <2>2, <2>8, <3>2
      <4> QED
        BY <2>1, <2>2, <3>1, <4>1
    <3>3. CASE v # w
      <4>1. c \in Claims(v)
        BY <1>2, <2>8, <3>3
      <4>2. c.attempts \in Nat /\ Holders(k) # {} /\ a <= c.attempts + l
        BY <1>4, <2>1, <2>8, <4>1, ClaimsAreClaims DEF Paid
      <4> QED
        BY <2>1, <2>2, <2>3, <4>2
    <3> QED
      BY <3>2, <3>3
  <2> QED
    BY <2>2, <2>6, <2>7, <2>8 DEF Paid, Pending
<1> QED
  BY <1>5, <1>6

(* A worker that records an outcome knows the attempts but for the losses. *)
LEMMA PaidDrop ==
    ASSUME Types, PaidInv, Types', NEW w \in Workers,
           RecordDone(w) \/ RecordFailed(w) \/ LoseOutcome(w), NEW k \in Memories
    PROVE  Paid(k)'
<1>1. /\ worker[w].at \in {"done", "failed"} /\ NextJob(w) /\ Records(w)
      /\ LoseOutcome(w) => job' = job
      /\ ~LoseOutcome(w) => job'[InHand(w).mem] = NoJob \/ job'[InHand(w).mem].status
                                  = worker[w].at
      /\ losses'[k] >= losses[k]
      /\ LoseOutcome(w) => losses'[InHand(w).mem] = losses[InHand(w).mem] + 1
  BY JobDropped
<1>2. /\ Holders(k)' = IF k = InHand(w).mem THEN Holders(k) \ {w} ELSE Holders(k)
      /\ Claims(w)' \subseteq Claims(w)
      /\ \A v \in Workers \ {w} : worker'[v] = worker[v]
  BY <1>1, AfterJob, DropHolders
<1>3. \A v \in Workers : Claims(v)' \subseteq Claims(v)
  BY <1>2 DEF Claims
<1>4. Paid(k)
  BY DEF PaidInv
<1>5. CASE k # InHand(w).mem
  <2>1. job'[k] = job[k]
    BY <1>1, <1>5 DEF Records
  <2> QED
    BY <1>1, <1>2, <1>3, <1>4, <1>5, <2>1, PaidStays
<1>6. CASE k = InHand(w).mem /\ LoseOutcome(w)
  <2>1. losses'[k] > losses[k]
    BY <1>1, <1>6 DEF Types
  <2> QED
    BY <1>1, <1>3, <1>4, <1>6, <2>1, PaidStays
<1>7. CASE k = InHand(w).mem /\ ~LoseOutcome(w)
  <2>1. PICK a \in Nat, l \in Nat, n \in Nat :
           a = job[k].attempts /\ l = losses[k] /\ n = losses'[k] /\ n >= l
    BY <1>1 DEF Types, JobRow
  <2>2. PICK q \in Nat : q = InHand(w).attempts /\ a <= q + l
    <3>1. InHand(w) \in Claims(w)
      BY <1>1, HeadIsClaim
    <3>2. InHand(w).attempts \in Nat
      BY <3>1, ClaimsAreClaims
    <3>3. a <= InHand(w).attempts + l
      BY <1>4, <1>7, <2>1, <3>1 DEF Paid
    <3> QED
      BY <3>2, <3>3
  <2>3. MaxAttempts \in Nat
    BY MemoryAssumption
  <2>4. ASSUME job'[k].attempts = a PROVE job'[k].attempts <= MaxAttempts + n
    BY <1>4, <2>1, <2>3, <2>4 DEF Paid
  <2>5. ASSUME job'[k].attempts = a, NEW v \in Workers, NEW c \in Claims(v)', c.mem = k
        PROVE  job'[k].attempts <= c.attempts + n
    <3>1. c \in Claims(v)
      BY <1>3, <2>5
    <3>2. c.attempts \in Nat /\ a <= c.attempts + l
      BY <1>4, <2>1, <2>5, <3>1, ClaimsAreClaims DEF Paid
    <3> QED
      BY <2>1, <2>5, <3>2
  <2>6. job'[k].attempts = a
    BY <1>1, <1>7, <2>1 DEF Records
  <2>7. job'[k].status \notin {"pending", "running"}
    BY <1>1, <1>7 DEF NoJob
  <2>8. ASSUME job'[k].status = "failed", job'[k].retry PROVE a < MaxAttempts + n
    <3>1. CASE job'[k] = job[k]
      BY <1>4, <2>1, <2>3, <2>8, <3>1 DEF Paid
    <3>2. CASE job'[k] # job[k]
      <4>1. job'[k].retry = (q < MaxAttempts)
        BY <1>1, <1>7, <2>2, <2>8, <3>2 DEF Records
      <4>2. q < MaxAttempts
        BY <2>8, <4>1
      <4> QED
        BY <2>1, <2>2, <2>3, <4>2
    <3> QED
      BY <3>1, <3>2
  <2> QED
    BY <2>1, <2>4, <2>5, <2>6, <2>7, <2>8 DEF Paid, Pending
<1> QED
  BY <1>5, <1>6, <1>7

LEMMA PaidStep == Types /\ PaidInv /\ [Next]_vars => PaidInv'
<1> SUFFICES ASSUME Types, PaidInv, [Next]_vars, Types', NEW k \in Memories PROVE Paid(k)'
  BY TypesStep DEF PaidInv
<1>1. Paid(k)
  BY DEF PaidInv
<1>2. ASSUME NEW w \in Workers, WorkerDies(w) PROVE Paid(k)'
  <2>1. /\ job' = job /\ Holders(k)' = Holders(k) \ {w}
        /\ losses'[k] = losses[k] + (IF w \in Holders(k) THEN 1 ELSE 0)
        /\ Claims(w)' = {} /\ \A v \in Workers \ {w} : Claims(v)' = Claims(v)
    BY <1>2, DeathTypes, DeathHolders
  <2>2. losses'[k] >= losses[k] /\ (Holders(k)' = Holders(k) \/ losses'[k] > losses[k])
    BY <2>1 DEF Types
  <2>3. \A v \in Workers : Claims(v)' \subseteq Claims(v)
    BY <2>1
  <2> QED
    BY <1>1, <2>1, <2>2, <2>3, PaidStays
<1>3. ASSUME \A w \in Workers : ~Sweep(w) /\ ~RecordDone(w) /\ ~RecordFailed(w)
                                /\ ~LoseOutcome(w) /\ ~WorkerDies(w)
      PROVE  Paid(k)'
  <2>1. Holders(k)' = Holders(k) /\ losses' = losses
        /\ \A v \in Workers : Claims(v)' = Claims(v)
    BY <1>3, ClaimsStay
  <2>2. CASE job'[k] = job[k]
    <3>1. losses'[k] >= losses[k]
      BY <2>1 DEF Types
    <3> QED
      BY <1>1, <2>1, <2>2, <3>1, PaidStays
  <2>3. CASE job'[k] # job[k]
    <3>1. job'[k].attempts = 0 /\ job'[k].status \in {"pending", "none"}
      <4>1. Enqueue(k) \/ job'[k] = NoJob
        BY <1>3, <2>3, JobWriters
      <4>2. CASE job'[k] = NoJob
        BY <4>2 DEF NoJob
      <4>3. CASE Enqueue(k)
        <5> DEFINE r == [status |-> "pending", retry |-> TRUE, attempts |-> 0]
        <5>1. r.status = "pending" /\ r.attempts = 0
          OBVIOUS
        <5>2. job' = [job EXCEPT ![k] = r]
          BY <2>3, <4>3 DEF Enqueue
        <5> HIDE DEF r
        <5>3. job'[k] = r
          BY <5>2 DEF Types
        <5> QED
          BY <5>1, <5>3
      <4> QED
        BY <4>1, <4>2, <4>3
    <3>2. PICK l \in Nat : l = losses'[k]
      BY DEF Types
    <3>3. \A v \in Workers : \A c \in Claims(v)' : 0 <= c.attempts + l
      BY <2>1, <3>2, ClaimsAreClaims
    <3>4. 0 <= MaxAttempts + l
      BY MemoryAssumption, <3>2
    <3> QED
      BY <3>1, <3>2, <3>3, <3>4 DEF Paid, Pending
  <2> QED
    BY <2>2, <2>3
<1> QED
  BY <1>2, <1>3, PaidSweep, PaidDrop

(* However sweeps, timeouts, crashes and lost outcomes interleave, a job   *)
(* is not tried more than MAX_ATTEMPTS times, and once more for each claim *)
(* that ended without a recorded outcome (AttemptsPaid).                   *)
THEOREM ClaimsArePaidOnce == Spec => []AttemptsPaid
<1>1. Spec => []PaidInv
  BY TypesAlways, PaidInit, PaidStep, PTL DEF Spec
<1>2. PaidInv => AttemptsPaid
  BY DEF PaidInv, Paid, AttemptsPaid
<1> QED
  BY <1>1, <1>2, PTL

(***************************************************************************)
(* A memory never has its fragments twice.                                 *)
(***************************************************************************)
LEMMA CausesAreKept ==
    ASSUME NEW k \in Memories, cause[k] \subseteq cause'[k]
    PROVE  /\ "overlap" \notin cause'[k] => "overlap" \notin cause[k]
           /\ Apart(k)' => Apart(k) /\ "overlap" \notin cause[k] /\ "overlap" \notin cause'[k]
           /\ Whole(k)' => Whole(k) /\ "overlap" \notin cause[k] /\ "overlap" \notin cause'[k]
                           /\ "unembedded" \notin cause'[k] /\ "overtaken" \notin cause[k]
           /\ Whole(k) => Apart(k)
BY DEF Apart, Whole

(* Nobody works on a memory before its store is over.                      *)
LEMMA NobodyBefore ==
    ASSUME Types, NEW k \in Memories, store[k] # "stored"
    PROVE  /\ PipesOf(k) = {} /\ fragments[k] = 0 /\ job[k] = NoJob
           /\ \A w \in Workers : worker[w].at # "idle" => InHand(w).mem # k
<1>1. PipesOf(k) = {}
  BY DEF Types, PipeShape, PipesOf
<1>2. fragments[k] = 0 /\ job[k] = NoJob
  BY DEF Types, RowShape
<1> QED
  BY <1>1, <1>2, HeadIsClaim

(* A step that leaves a memory's row, fragments and pipelines alone.       *)
LEMMA FragmentsStay ==
    ASSUME Types, FragmentInv, [Next]_vars, NEW k \in Memories,
           Stored(k)' = Stored(k), fragments'[k] = fragments[k],
           \A p \in PipesOf(k)' : pipe'[p] = pipe[p],
           \A p \in Pipes : PipeEnds(p) => pipe[p].mem # k,
           \A w \in Workers : RecordDone(w) => InHand(w).mem # k
    PROVE  Lone(k)' /\ Once(k)' /\ Finished(k)'
<1>1. /\ Lone(k) /\ Once(k) /\ Finished(k)
      /\ cause[k] \subseteq cause'[k]
  BY CausesGrow DEF FragmentInv
<1>2. PipesOf(k)' \subseteq PipesOf(k)
  BY DEF PipesOf
<1>3. Lone(k)'
  BY <1>1, <1>2, CausesAreKept DEF Lone
<1>4. Once(k)'
  BY <1>1, <1>2, CausesAreKept DEF Once
<1>5. ASSUME Whole(k)', NEW w \in Workers, worker'[w].at = "done", InHand(w)'.mem = k
      PROVE  worker[w].at = "done" /\ InHand(w).mem = k
  <2>1. InHand(w).mem = k /\ "unembedded" \notin cause'[k]
    BY <1>1, <1>5, DoneWorkers, CausesAreKept
  <2>2. ASSUME NEW p \in Pipes, PipeEnds(p), worker[w].at = "running", worker[w].pipe = p
        PROVE  FALSE
    BY <2>1, <2>2, RunningPipe
  <2> QED
    BY <1>5, <2>1, <2>2, DoneWorkers
<1>6. job'[k].status = "done" => job[k].status = "done"
  <2>1. CASE job'[k] # job[k] /\ job'[k].status = "done"
    <3>1. PICK w \in Workers : /\ RecordDone(w) \/ RecordFailed(w)
                               /\ k = InHand(w).mem /\ worker[w].at = "done"
      BY <2>1, JobWriters DEF NoJob
    <3> QED
      BY <3>1 DEF RecordFailed
  <2> QED
    BY <2>1
<1>7. Finished(k)'
  <2> SUFFICES ASSUME Whole(k)'
               PROVE  /\ \A p \in PipesOf(k)' : pipe'[p].at = "link" /\ Stored(k)'
                                                => fragments'[k] = 1
                      /\ \A w \in Workers : worker'[w].at = "done" /\ InHand(w)'.mem = k
                            => PipesOf(k)' = {} /\ (Stored(k)' => fragments'[k] = 1)
                      /\ job'[k].status = "done" => PipesOf(k)' = {} /\ fragments'[k] = 1
    BY DEF Finished
  <2>1. Whole(k)
    BY <1>1, CausesAreKept
  <2>2. \A p \in PipesOf(k)' : pipe'[p].at = "link" /\ Stored(k)' => fragments'[k] = 1
    BY <1>1, <1>2, <2>1 DEF Finished
  <2>3. \A w \in Workers : worker'[w].at = "done" /\ InHand(w)'.mem = k
            => PipesOf(k)' = {} /\ (Stored(k)' => fragments'[k] = 1)
    BY <1>1, <1>2, <1>5, <2>1 DEF Finished
  <2>4. job'[k].status = "done" => PipesOf(k)' = {} /\ fragments'[k] = 1
    BY <1>1, <1>2, <1>6, <2>1 DEF Finished
  <2> QED
    BY <2>2, <2>3, <2>4
<1> QED
  BY <1>3, <1>4, <1>7

(* A pipeline starts: alone, or as an overlap; of a job in hand it clears  *)
(* the fragments first, of a fresh memory there are none.                  *)
LEMMA FragmentsStart ==
    ASSUME Types, FragmentInv, [Next]_vars, NEW k \in Memories, NEW w \in Workers,
           NEW replace \in BOOLEAN, StartPipe(k, w, replace),
           fragments' = fragments, replace \/ fragments[k] = 0,
           Whole(k)' => /\ job'[k].status # "done"
                        /\ \A v \in Workers : worker'[v].at = "done" => InHand(v)'.mem # k
    PROVE  Lone(k)' /\ Once(k)' /\ Finished(k)'
<1>1. PICK f \in Pipes :
         /\ pipe'[f].at = "embed" /\ pipe'[f].replace = replace
         /\ \A p \in Pipes \ {f} : pipe'[p] = pipe[p]
         /\ PipesOf(k) # {} => "overlap" \in cause'[k]
  BY PipeStarts
<1>2. Once(k) /\ cause[k] \subseteq cause'[k]
  BY CausesGrow DEF FragmentInv
<1>3. "overlap" \notin cause'[k] => \A p \in PipesOf(k)' : p = f
  <2> SUFFICES ASSUME "overlap" \notin cause'[k], NEW p \in PipesOf(k)', p # f PROVE FALSE
    OBVIOUS
  <2>1. p \in PipesOf(k)
    BY <1>1 DEF PipesOf
  <2> QED
    BY <1>1, <2>1
<1>4. Lone(k)'
  BY <1>3 DEF Lone
<1>5. Once(k)'
  BY <1>1, <1>2, <1>3, CausesAreKept DEF Once
<1>6. Finished(k)'
  BY <1>1, <1>2, <1>3, CausesAreKept DEF Finished
<1> QED
  BY <1>4, <1>5, <1>6

(* The steps of the one pipeline of a memory.                              *)
LEMMA FragmentsMove ==
    ASSUME Types, FragmentInv, [Next]_vars, NEW p \in Pipes, NEW k \in Memories,
           k = pipe[p].mem, Embed(p) \/ ClearFragments(p) \/ InsertFragments(p)
    PROVE  Lone(k)' /\ Once(k)' /\ Finished(k)'
<1>1. /\ Lone(k) /\ Once(k) /\ Finished(k)
      /\ cause[k] \subseteq cause'[k] /\ fragments \in [Memories -> Nat]
  BY CausesGrow DEF FragmentInv, Types
<1>2. PICK at \in {"clear", "insert", "link"} :
         /\ Step(p, at)
         /\ Embed(p) => /\ at = "insert" => ~pipe[p].replace
                        /\ at = "link" => "unembedded" \in cause'[k]
         /\ ClearFragments(p) => at = "insert"
         /\ InsertFragments(p) => at = "link"
  <2>1. Blame(k, "unembedded") => "unembedded" \in cause'[k]
    BY DEF Blame, Types
  <2>2. CASE Embed(p)
    <3>1. CASE Step(p, IF pipe[p].replace THEN "clear" ELSE "insert")
      <4>1. ~ClearFragments(p) /\ ~InsertFragments(p)
        BY <2>2 DEF Embed, ClearFragments, InsertFragments
      <4>2. CASE pipe[p].replace
        BY <3>1, <4>1, <4>2
      <4>3. CASE ~pipe[p].replace
        BY <3>1, <4>1, <4>3
      <4> QED
        BY <4>2, <4>3
    <3>2. CASE Step(p, "link") /\ Blame(k, "unembedded")
      <4>1. ~ClearFragments(p) /\ ~InsertFragments(p)
        BY <2>2 DEF Embed, ClearFragments, InsertFragments
      <4> QED
        BY <2>1, <3>2, <4>1
    <3> QED
      BY <2>2, <3>1, <3>2 DEF Embed
  <2>3. CASE ClearFragments(p)
    BY <2>3 DEF Embed, ClearFragments, InsertFragments
  <2>4. CASE InsertFragments(p)
    BY <2>4 DEF Embed, ClearFragments, InsertFragments
  <2> QED
    BY <2>2, <2>3, <2>4
<1>3. p \in PipesOf(k)
  BY DEF PipesOf, Embed, ClearFragments, InsertFragments
<1>4. /\ pipe'[p].at = at /\ pipe'[p].mem = k
      /\ \A q \in Pipes \ {p} : pipe'[q] = pipe[q]
  BY <1>2, <1>3, PipeMoves DEF PipesOf
<1>5. PipesOf(k)' = PipesOf(k)
  <2>1. \A q \in Pipes : q \in PipesOf(k)' <=> q \in PipesOf(k)
    BY <1>2, <1>3, <1>4 DEF PipesOf
  <2> QED
    BY <2>1 DEF PipesOf
<1>6. UNCHANGED <<job, worker>> /\ Stored(k)' = Stored(k)
  BY PipeWrites DEF Stored
<1>7. Lone(k)'
  BY <1>1, <1>5, CausesAreKept DEF Lone
<1>8. ASSUME "overlap" \notin cause'[k], NEW q \in PipesOf(k)' PROVE q = p
  BY <1>1, <1>3, <1>5, <1>8, CausesAreKept DEF Lone
<1>9. Whole(k)' => /\ job'[k].status # "done"
                   /\ \A w \in Workers : worker'[w].at = "done" => InHand(w)'.mem # k
  BY <1>1, <1>3, <1>6, CausesAreKept DEF Finished, InHand
<1>10. Embed(p) => fragments' = fragments
  BY DEF Embed
<1>11. ClearFragments(p) => fragments'[k] = 0 \/ "uncleared" \in cause'[k]
  BY <1>1 DEF ClearFragments, Blame, Types
<1>12. InsertFragments(p) => /\ fragments'[k] = fragments[k] \/ fragments'[k] = fragments[k] + 1
                             /\ Stored(k) => fragments'[k] = fragments[k] + 1
                                             \/ "unembedded" \in cause'[k]
                             /\ pipe[p].at = "insert"
  BY <1>1 DEF InsertFragments, Blame, Types
<1>13. Apart(k)' => "uncleared" \notin cause'[k]
  BY DEF Apart
<1>14. ASSUME Apart(k)'
       PROVE  /\ fragments'[k] <= 1
              /\ at = "insert" => fragments'[k] = 0
              /\ InsertFragments(p) => fragments[k] = 0
  <2>1. Apart(k)
    BY <1>1, <1>14, CausesAreKept
  <2>2. CASE Embed(p)
    <3>1. pipe[p].at = "embed" /\ ~InsertFragments(p)
      BY <2>2 DEF Embed, InsertFragments
    <3> QED
      BY <1>1, <1>2, <1>3, <1>10, <2>1, <2>2, <3>1 DEF Once
  <2>3. CASE ClearFragments(p)
    <3>1. ~InsertFragments(p)
      BY <2>3 DEF ClearFragments, InsertFragments
    <3> QED
      BY <1>11, <1>13, <1>14, <2>3, <3>1
  <2>4. CASE InsertFragments(p)
    <3>1. fragments[k] = 0 /\ at = "link"
      BY <1>1, <1>2, <1>3, <1>12, <2>1, <2>4 DEF Once
    <3> QED
      BY <1>12, <2>4, <3>1
  <2> QED
    BY <2>2, <2>3, <2>4
<1>15. Once(k)'
  <2> SUFFICES ASSUME Apart(k)', NEW q \in PipesOf(k)'
               PROVE  /\ pipe'[q].at = "insert" => fragments'[k] = 0
                      /\ pipe'[q].at # "embed"
    BY <1>14 DEF Once
  <2>1. q = p
    BY <1>1, <1>8, CausesAreKept
  <2> QED
    BY <1>2, <1>4, <1>14, <2>1
<1>16. Finished(k)'
  <2> SUFFICES ASSUME Whole(k)', NEW q \in PipesOf(k)', pipe'[q].at = "link", Stored(k)'
               PROVE  fragments'[k] = 1
    BY <1>9 DEF Finished
  <2>1. q = p /\ Apart(k)' /\ "unembedded" \notin cause'[k]
    BY <1>1, <1>8, CausesAreKept DEF Whole, Apart
  <2>2. InsertFragments(p)
    BY <1>2, <1>4, <2>1
  <2> QED
    BY <1>6, <1>12, <1>14, <2>1, <2>2
<1> QED
  BY <1>7, <1>15, <1>16

(* The end of a memory's pipeline, and of its job.                         *)
LEMMA FragmentsEnd ==
    ASSUME Types, FragmentInv, [Next]_vars, NEW p \in Pipes, NEW k \in Memories,
           k = pipe[p].mem, PipeEnds(p)
    PROVE  Lone(k)' /\ Once(k)' /\ Finished(k)'
<1>1. /\ Lone(k) /\ Once(k) /\ Finished(k) /\ cause[k] \subseteq cause'[k]
  BY CausesGrow DEF FragmentInv
<1>2. /\ UNCHANGED <<mem, job, fragments>>
      /\ pipe[p].at = "link" /\ pipe'[p].at = "idle"
      /\ \A q \in Pipes \ {p} : pipe'[q] = pipe[q]
  BY PipeEndTypes
<1>3. p \in PipesOf(k) /\ PipesOf(k)' = PipesOf(k) \ {p}
  <2>1. \A q \in Pipes : q \in PipesOf(k)' <=> q \in PipesOf(k) /\ q # p
    BY <1>2 DEF PipesOf
  <2> QED
    BY <1>2, <2>1 DEF PipesOf
<1>4. Lone(k)'
  BY <1>1, <1>3, CausesAreKept DEF Lone
<1>5. Once(k)'
  BY <1>1, <1>2, <1>3, CausesAreKept DEF Once, PipesOf
<1>6. Finished(k)'
  <2>1. Whole(k)' => PipesOf(k)' = {} /\ job'[k].status # "done"
                     /\ (Stored(k)' => fragments'[k] = 1)
    BY <1>1, <1>2, <1>3, CausesAreKept DEF Lone, Finished, Stored
  <2> QED
    BY <2>1 DEF Finished
<1> QED
  BY <1>4, <1>5, <1>6

LEMMA FragmentsRecorded ==
    ASSUME Types, FragmentInv, [Next]_vars, NEW w \in Workers, NEW k \in Memories,
           k = InHand(w).mem, RecordDone(w)
    PROVE  Lone(k)' /\ Once(k)' /\ Finished(k)'
<1>1. /\ Lone(k) /\ Once(k) /\ Finished(k) /\ cause' = cause
      /\ UNCHANGED <<mem, fragments, pipe>> /\ worker[w].at = "done" /\ NextJob(w) /\ Records(w)
  BY JobDropped DEF FragmentInv, RecordDone
<1>2. PipesOf(k)' = PipesOf(k) /\ (Whole(k)' <=> Whole(k)) /\ (Apart(k)' <=> Apart(k))
      /\ Stored(k)' = Stored(k)
  BY <1>1 DEF PipesOf, Whole, Apart, Stored
<1>3. worker'[w].at # "done" /\ \A v \in Workers \ {w} : worker'[v] = worker[v]
  BY <1>1, AfterJob
<1>4. \A v \in Workers \ {w} : InHand(v)' = InHand(v)
  BY <1>3 DEF InHand
<1>5. job'[k].status = "done" => Stored(k)
  <2>1. job[k] # NoJob => Stored(k)
    BY DEF Types, RowShape
  <2>2. job'[k] = job[k] \/ job[k] # NoJob
    BY <1>1 DEF Records
  <2> QED
    BY <2>1, <2>2 DEF NoJob
<1>6. Lone(k)' /\ Once(k)'
  BY <1>1, <1>2 DEF Lone, Once
<1>7. Finished(k)'
  <2> SUFFICES ASSUME Whole(k)'
               PROVE  /\ \A p \in PipesOf(k)' : pipe'[p].at = "link" /\ Stored(k)'
                                                => fragments'[k] = 1
                      /\ \A v \in Workers : worker'[v].at = "done" /\ InHand(v)'.mem = k
                            => PipesOf(k)' = {} /\ (Stored(k)' => fragments'[k] = 1)
                      /\ job'[k].status = "done" => PipesOf(k)' = {} /\ fragments'[k] = 1
    BY DEF Finished
  <2>1. PipesOf(k) = {} /\ (Stored(k) => fragments[k] = 1)
    BY <1>1, <1>2 DEF Finished
  <2> QED
    BY <1>1, <1>2, <1>5, <2>1
<1> QED
  BY <1>6, <1>7

LEMMA FragmentInit == Init => FragmentInv
<1> SUFFICES ASSUME Init, NEW m \in Memories PROVE Lone(m) /\ Once(m) /\ Finished(m)
  BY DEF FragmentInv
<1>1. PipesOf(m) = {}
  BY DEF Init, PipesOf
<1>2. fragments[m] = 0 /\ job[m].status = "none" /\ \A w \in Workers : worker[w].at = "idle"
  BY DEF Init, NoJob, IdleWorker
<1> QED
  BY <1>1, <1>2 DEF Lone, Once, Finished

LEMMA FragmentStep == Types /\ HeldInv /\ FragmentInv /\ [Next]_vars => FragmentInv'
<1> SUFFICES ASSUME Types, HeldInv, FragmentInv, [Next]_vars, NEW k \in Memories
             PROVE  Lone(k)' /\ Once(k)' /\ Finished(k)'
  BY DEF FragmentInv
<1> USE DEF db, hist
<1>1. /\ mem \in [Memories -> MemRow] /\ fragments \in [Memories -> Nat]
      /\ cause[k] \subseteq cause'[k]
  BY CausesGrow DEF Types
<1>2. CASE \E p \in Pipes : PipeEnds(p) /\ k = pipe[p].mem
  BY <1>2, FragmentsEnd
<1>3. CASE \E w \in Workers : RecordDone(w) /\ k = InHand(w).mem
  BY <1>3, FragmentsRecorded
<1>4. ASSUME ~\E p \in Pipes : PipeEnds(p) /\ k = pipe[p].mem,
             ~\E w \in Workers : RecordDone(w) /\ k = InHand(w).mem
      PROVE  Lone(k)' /\ Once(k)' /\ Finished(k)'
  <2>1. ASSUME mem'[k].row = mem[k].row, fragments'[k] = fragments[k],
               \A p \in Pipes : pipe'[p].mem = k /\ pipe'[p].at # "idle" => pipe'[p] = pipe[p]
        PROVE  Lone(k)' /\ Once(k)' /\ Finished(k)'
    BY <1>4, <2>1, FragmentsStay DEF PipesOf, Stored
  <2>2. ASSUME NEW m \in Memories, NEW w \in Workers, NEW r \in BOOLEAN, StartPipe(m, w, r),
               m # k, mem' = mem, fragments' = fragments
        PROVE  Lone(k)' /\ Once(k)' /\ Finished(k)'
    <3>1. \A p \in Pipes : pipe'[p].mem = k => pipe'[p] = pipe[p]
      BY <2>2, PipeStarts
    <3> QED
      BY <2>1, <2>2, <3>1
  <2>3. ASSUME NEW m \in Memories, StoreStep(m) \/ Delete(m)
        PROVE  Lone(k)' /\ Once(k)' /\ Finished(k)'
    <3>1. CASE Enqueue(m)
      <4>1. mem' = mem /\ fragments' = fragments /\ store[m] = "enqueue"
        BY <3>1 DEF Enqueue
      <4>2. CASE UNCHANGED pipe
        BY <2>1, <4>1, <4>2
      <4>3. ASSUME NEW w \in Workers, StartPipe(m, w, FALSE), job' = job, m = k
            PROVE  Lone(k)' /\ Once(k)' /\ Finished(k)'
        <5>1. /\ fragments[k] = 0 /\ job[k] = NoJob
              /\ \A v \in Workers : worker[v].at # "idle" => InHand(v).mem # k
          BY <4>1, <4>3, NobodyBefore
        <5>2. worker' = worker
          BY <3>1 DEF Enqueue
        <5>3. job'[k].status # "done"
          BY <4>3, <5>1 DEF NoJob
        <5>4. \A v \in Workers : worker'[v].at = "done" => InHand(v)'.mem # k
          BY <5>1, <5>2 DEF InHand
        <5> QED
          BY <4>1, <4>3, <5>1, <5>3, <5>4, FragmentsStart
      <4> QED
        BY <2>2, <3>1, <4>1, <4>2, <4>3 DEF Enqueue
    <3>2. CASE Delete(m) /\ m = k
      <4> DEFINE gone == [NoMemory EXCEPT !.row = "deleted"]
      <4>1. gone.row = "deleted"
        BY DEF NoMemory
      <4>2. /\ mem' = [mem EXCEPT ![k] = gone] /\ job' = [job EXCEPT ![k] = NoJob]
            /\ fragments' = [fragments EXCEPT ![k] = 0]
            /\ UNCHANGED <<worker, pipe, cause>>
        BY <3>2 DEF Delete
      <4> HIDE DEF gone
      <4>3. ~Stored(k)' /\ job'[k] = NoJob /\ fragments'[k] = 0
        BY <1>1, <4>1, <4>2 DEF Stored, Types
      <4>4. /\ PipesOf(k)' = PipesOf(k) /\ (Whole(k)' <=> Whole(k))
            /\ \A v \in Workers : InHand(v)' = InHand(v)
        BY <4>2 DEF PipesOf, Whole, InHand
      <4>5. Lone(k)' /\ Once(k)'
        BY <4>2, <4>3, <4>4 DEF FragmentInv, Lone, Once
      <4>6. Finished(k)'
        BY <4>2, <4>3, <4>4 DEF FragmentInv, Finished, NoJob
      <4> QED
        BY <4>5, <4>6
    <3>3. CASE Delete(m) /\ m # k
      <4>1. mem'[k] = mem[k] /\ fragments'[k] = fragments[k] /\ UNCHANGED pipe
        BY <1>1, <3>3 DEF Delete
      <4> QED
        BY <2>1, <4>1
    <3>4. CASE Insert(m) /\ m = k
      <4>1. /\ PipesOf(k) = {} /\ fragments[k] = 0 /\ job[k] = NoJob
            /\ \A v \in Workers : worker[v].at # "idle" => InHand(v).mem # k
        BY <3>4, NobodyBefore DEF Insert
      <4>2. UNCHANGED <<job, fragments, worker, pipe>>
        BY <3>4 DEF Insert
      <4>3. PipesOf(k)' = {} /\ \A v \in Workers : worker'[v].at = "done" => InHand(v)'.mem # k
        BY <4>1, <4>2 DEF PipesOf, InHand
      <4> QED
        BY <4>1, <4>2, <4>3 DEF Lone, Once, Finished, NoJob
    <3>5. CASE StoreStep(m) /\ ~Enqueue(m) /\ (Insert(m) => m # k)
      <4>1. UNCHANGED <<fragments, pipe>>
        BY <3>5 DEF StoreStep, Insert, WriteWraps, Revert, StoreDies
      <4>2. mem'[k].row = mem[k].row
        <5>1. CASE Insert(m)
          BY <1>1, <3>5, <5>1 DEF Insert
        <5>2. CASE WriteWraps(m)
          BY <1>1, <5>2 DEF WriteWraps, MemRow
        <5>3. CASE Revert(m)
          BY <1>1, <5>3 DEF Revert, MemRow
        <5>4. CASE StoreDies(m)
          BY <5>4 DEF StoreDies
        <5> QED
          BY <3>5, <5>1, <5>2, <5>3, <5>4 DEF StoreStep
      <4> QED
        BY <2>1, <4>1, <4>2
    <3> QED
      BY <2>3, <3>1, <3>2, <3>3, <3>4, <3>5
  <2>4. ASSUME NEW w \in Workers, WorkerStep(w)
        PROVE  Lone(k)' /\ Once(k)' /\ Finished(k)'
    <3>1. UNCHANGED <<mem, fragments>>
      BY <2>4 DEF WorkerStep, Sweep, Rehydrate, TimesOut, RecordDone, RecordFailed, LoseOutcome,
                  WorkerDies
    <3>2. CASE Rehydrate(w)
      <4>1. PICK m \in Memories : m = InHand(w).mem /\ w \in Holders(m)
        BY <3>2, HeadIsClaim DEF Rehydrate
      <4>2. CASE UNCHANGED pipe
        BY <2>1, <3>1, <4>2
      <4>3. ASSUME StartPipe(m, w, TRUE), worker'[w].at = "running", m = k
            PROVE  Lone(k)' /\ Once(k)' /\ Finished(k)'
        <5>1. /\ job' = job /\ \A v \in Workers : InHand(v)' = InHand(v)
              /\ \A v \in Workers \ {w} : worker'[v] = worker[v]
          BY <3>2, RehydrateMoves
        <5>2. ASSUME Whole(k)'
              PROVE  /\ job'[k].status # "done"
                     /\ \A v \in Workers : worker'[v].at = "done" => InHand(v)'.mem # k
          <6>1. Held(k) /\ "overtaken" \notin cause[k]
            BY <1>1, <5>2, CausesAreKept DEF HeldInv
          <6>2. job'[k].status # "done"
            BY <4>1, <4>3, <5>1, <6>1 DEF Held, NoJob
          <6>3. ASSUME NEW v \in Workers, worker'[v].at = "done", InHand(v)'.mem = k PROVE FALSE
            <7>1. v # w /\ worker[v].at = "done" /\ InHand(v).mem = k
              BY <4>3, <5>1, <6>3
            <7>2. v \in Holders(k)
              BY <7>1, HeadIsClaim
            <7> QED
              BY <4>1, <4>3, <6>1, <7>1, <7>2 DEF Held
          <6> QED
            BY <6>2, <6>3
        <5> QED
          BY <3>1, <4>3, <5>2, FragmentsStart
      <4> QED
        BY <2>2, <3>1, <3>2, <4>1, <4>2, <4>3, RehydrateMoves
    <3>3. CASE WorkerDies(w)
      <4>1. \A p \in Pipes : pipe'[p] = pipe[p] \/ pipe'[p].at = "idle"
        BY <3>3, DeathTypes
      <4> QED
        BY <2>1, <3>1, <4>1
    <3>4. CASE UNCHANGED pipe
      BY <2>1, <3>1, <3>4
    <3> QED
      BY <2>4, <3>2, <3>3, <3>4 DEF WorkerStep, Sweep, TimesOut, RecordDone, RecordFailed,
                                    LoseOutcome
  <2>5. ASSUME NEW p \in Pipes, PipeStep(p)
        PROVE  Lone(k)' /\ Once(k)' /\ Finished(k)'
    <3>1. CASE PipeEnds(p)
      <4>1. UNCHANGED <<mem, fragments>> /\ \A q \in Pipes : pipe'[q] = pipe[q]
                                                            \/ pipe'[q].at = "idle"
        BY <3>1, PipeEndTypes
      <4> QED
        BY <2>1, <4>1
    <3>2. CASE ~PipeEnds(p) /\ pipe[p].mem = k
      BY <2>5, <3>2, FragmentsMove DEF PipeStep
    <3>3. CASE ~PipeEnds(p) /\ pipe[p].mem # k
      <4>1. mem'[k] = mem[k] /\ fragments'[k] = fragments[k]
        BY <2>5, <3>3, PipeWrites DEF PipeStep
      <4>2. pipe[p].at # "idle" /\ \E at \in {"clear", "insert", "link"} : Step(p, at)
        BY <2>5, <3>3 DEF PipeStep, Embed, ClearFragments, InsertFragments
      <4>3. pipe'[p].mem # k /\ \A q \in Pipes \ {p} : pipe'[q] = pipe[q]
        BY <3>3, <4>2, PipeMoves
      <4> QED
        BY <2>1, <4>1, <4>3
    <3> QED
      BY <3>1, <3>2, <3>3
  <2>6. ASSUME NEW c \in Clients, ClientStep(c)
        PROVE  Lone(k)' /\ Once(k)' /\ Finished(k)'
    <3>1. CASE Revoke(c) \/ Redelegate(c)
      <4>1. PICK m \in Memories : Answers(c, m)
        BY <3>1, RevokeWrites, RedelegateWrites
      <4>2. /\ UNCHANGED <<job, worker, pipe>> /\ mem'[k].row = mem[k].row
            /\ \/ fragments'[k] = fragments[k]
               \/ fragments'[k] = 0 /\ "cleared" \in cause'[k]
        BY <4>1 DEF Answers
      <4>3. CASE fragments'[k] = fragments[k]
        BY <2>1, <4>2, <4>3
      <4>4. CASE fragments'[k] = 0 /\ "cleared" \in cause'[k]
        <5>1. PipesOf(k)' = PipesOf(k) /\ ~Whole(k)'
          BY <4>2, <4>4 DEF PipesOf, Whole
        <5>2. Lone(k)'
          BY <1>1, <4>2, <5>1 DEF FragmentInv, Lone
        <5> QED
          BY <4>4, <5>1, <5>2 DEF Once, Finished
      <4> QED
        BY <4>2, <4>3, <4>4
    <3>2. CASE \E m \in Memories : ReadToRevoke(c, m) \/ ReadToRedelegate(c, m)
      <4>1. UNCHANGED <<mem, fragments, pipe>>
        BY <3>2 DEF ReadToRevoke, ReadToRedelegate
      <4> QED
        BY <2>1, <4>1
    <3> QED
      BY <2>6, <3>1, <3>2 DEF ClientStep
  <2>7. CASE UNCHANGED vars
    BY <2>1, <2>7 DEF vars
  <2> QED
    BY <2>3, <2>4, <2>5, <2>6, <2>7 DEF Next
<1> QED
  BY <1>2, <1>3, <1>4

(* However retries, timeouts and abandoned pipelines interleave, a memory  *)
(* has its fragments once at most, and exactly once when its job is done   *)
(* and no revocation cleared them, unless pipelines overlapped or a call   *)
(* was lost (FragmentsReplaced): the                                       *)
(* worker's pipeline clears before it inserts, and a claim nobody overtook *)
(* is in one worker's hands.                                               *)
THEOREM FragmentsAreWrittenOnce == Spec => []FragmentsReplaced
<1>1. Spec => []FragmentInv
  BY TypesAlways, HeldAlways, FragmentInit, FragmentStep, PTL DEF Spec
<1>2. FragmentInv => FragmentsReplaced
  <2> SUFFICES ASSUME FragmentInv, NEW m \in Memories, Apart(m)
               PROVE  /\ fragments[m] <= 1
                      /\ job[m].status = "done"
                         /\ cause[m] \cap {"unembedded", "overtaken", "cleared"} = {}
                            => fragments[m] = 1
    BY DEF FragmentsReplaced, Apart
  <2>1. cause[m] \cap {"unembedded", "overtaken", "cleared"} = {} => Whole(m)
    BY DEF Apart, Whole
  <2> QED
    BY <2>1 DEF FragmentInv, Once, Finished
<1> QED
  BY <1>1, <1>2, PTL
===============================================================================
