------------------------------ MODULE JobQueue ------------------------------
(***************************************************************************)
(* The durable job table of the companion runtime and the processes that   *)
(* work on it: CompanionRuntimeStore.enqueue_job / claim_due_jobs /        *)
(* claim_job / complete_job / fail_job (runtime_store.py) and              *)
(* CompanionWorker.tick / run_once / _run_job (worker.py).                 *)
(*                                                                         *)
(* A worker is any process with a CompanionWorker: the daemon, a           *)
(* "--once" run, a "--job" run.  They share nothing but the SQLite table,  *)
(* so one transaction of the code is one step here, and the steps of two   *)
(* workers interleave freely.  What a handler does is left out: a handler  *)
(* either runs to its end or raises.                                       *)
(*                                                                         *)
(* Time is counted in abstract units.  The clock stops at MaxTime and      *)
(* every stored time is capped there, so at MaxTime everything is due and  *)
(* every lease has run out: the end of the clock stands for "any later     *)
(* time", and no job waits for a time that never comes.                    *)
(*                                                                         *)
(* An operator X_Slip, for any name Slip, is X with one mistake in it.     *)
(* No specification uses it: it shows that a property notices the slip.    *)
(***************************************************************************)
EXTENDS Naturals, FiniteSets

CONSTANTS
    Workers,        \* processes that run a CompanionWorker
    JobTypes,       \* the periodic job types of _enqueue_periodic_jobs
    ManualKeys,     \* idempotency keys of run_once calls ("manual:...")
    Cadence,        \* cadence of the periodic jobs, in time units
    LeaseTime,      \* lease_seconds of the claims
    BaseDelay,      \* first retry delay of fail_job (5 s)
    MaxDelay,       \* its cap (300 s)
    MaxAttempts,    \* max_attempts of every job
    Limit,          \* jobs one tick claims at most
    MaxTime,        \* bound: last instant of the clock
    MaxCrashes      \* bound: how often a worker may die

Slots == 0..(MaxTime \div Cadence)

(* jobs.idempotency_key: "<type>:<bucket>" or "manual:<type>:<time>". *)
JobIds == JobTypes \X (Slots \cup ManualKeys)

Scheduled(j) == j[2] \in Slots      \* payload.scheduled is True

Cap(t) == IF t < MaxTime THEN t ELSE MaxTime

(* The back-off of fail_job: min(300, 5 * 2 ** max(0, attempts - 1)). *)
RetryDelay(attempts) ==
    LET delay == BaseDelay * 2 ^ (IF attempts = 0 THEN 0 ELSE attempts - 1)
    IN  IF delay < MaxDelay THEN delay ELSE MaxDelay

ASSUME JobQueueAssumption ==
    /\ Slots \cap ManualKeys = {}
    /\ Cadence \in Nat \ {0}
    /\ LeaseTime \in Nat
    /\ MaxAttempts \in Nat \ {0}
    /\ Limit \in Nat
    /\ MaxTime \in Nat
    /\ MaxCrashes \in Nat
    /\ \A a \in 0..MaxAttempts : RetryDelay(a) \in Nat

Time == 0..MaxTime
NoToken == 0                        \* lock_token = ''

VARIABLES
    clock,      \* wall clock, common to the processes of the host
    jobs,       \* the jobs table
    minted,     \* lease tokens made for a job so far (uuid4: never reused)
    worker,     \* program counter and local state of every worker
    ran,        \* history: the leases under which the handler ran to its end
    completed,  \* history: worker_job_completed events of a job
    crashes     \* how many workers have died

vars == <<clock, jobs, minted, worker, ran, completed, crashes>>

-----------------------------------------------------------------------------
(* The jobs table *)

Row == [status : {"absent", "queued", "running", "succeeded", "failed"},
        run_after : Time, locked_until : Time, lock_token : Nat,
        attempts : Nat]

NoRow == [status |-> "absent", run_after |-> 0, locked_until |-> 0,
          lock_token |-> NoToken, attempts |-> 0]

NewRow(at) == [NoRow EXCEPT !.status = "queued", !.run_after = at]

Settled(row) == row.status \in {"succeeded", "failed"}

(* Every statement that ends a lease writes these three columns. *)
Release(row, status) ==
    [row EXCEPT !.status = status, !.locked_until = 0, !.lock_token = NoToken]

LeaseExpired_Any(row, now) == row.status = "running"

LeaseExpired_Never(row, now) == FALSE

LeaseExpired(row, now) == row.status = "running" /\ row.locked_until <= now

Exhausted_OneEarly(row, now) ==
    /\ row.attempts + 1 >= MaxAttempts
    /\ \/ row.status = "queued" /\ row.run_after <= now
       \/ LeaseExpired(row, now)

Exhausted(row, now) ==
    /\ row.attempts >= MaxAttempts
    /\ \/ row.status = "queued" /\ row.run_after <= now
       \/ LeaseExpired(row, now)

Claimable(row, now) ==
    /\ row.status = "queued" \/ LeaseExpired(row, now)
    /\ row.run_after <= now
    /\ row.attempts < MaxAttempts

Leased(row, now, token) ==
    [row EXCEPT !.status = "running", !.attempts = @ + 1,
                !.locked_until = Cap(now + LeaseTime), !.lock_token = token]

(* WHERE status = 'running' AND lock_token = ? *)
HoldsLease(claim) ==
    /\ jobs[claim.job].status = "running"
    /\ jobs[claim.job].lock_token = claim.token

-----------------------------------------------------------------------------
(* Workers *)

Claim == [job : JobIds, token : Nat, until : Time, due : Time]

Worker == [pc : {"idle", "enqueue", "claim_one", "run", "handled", "raised",
                 "failing"},
           now : Time, todo : SUBSET JobTypes, held : SUBSET Claim,
           current : SUBSET Claim, seen : Nat]

IdleWorker == [pc |-> "idle", now |-> 0, todo |-> {}, held |-> {},
               current |-> {}, seen |-> 0]

NewClaim(j, now) ==
    [job |-> j, token |-> minted[j] + 1, until |-> Cap(now + LeaseTime),
     due |-> jobs[j].run_after]

Init ==
    /\ clock = 0
    /\ jobs = [j \in JobIds |-> NoRow]
    /\ minted = [j \in JobIds |-> 0]
    /\ worker = [w \in Workers |-> IdleWorker]
    /\ ran = [j \in JobIds |-> {}]
    /\ completed = [j \in JobIds |-> 0]
    /\ crashes = 0

Tick ==
    /\ clock < MaxTime
    /\ clock' = clock + 1
    /\ UNCHANGED <<jobs, minted, worker, ran, completed, crashes>>

(* tick(): the clock is read once, and every statement of the tick uses    *)
(* that reading.                                                           *)
BeginTick(w) ==
    /\ worker[w].pc = "idle"
    /\ worker' = [worker EXCEPT ![w] =
            [IdleWorker EXCEPT !.pc = "enqueue", !.now = clock, !.todo = JobTypes]]
    /\ UNCHANGED <<clock, jobs, minted, ran, completed, crashes>>

(* enqueue_job: insert unless the key is taken, then retire every other    *)
(* scheduled job of the type that is still queued, whichever is newer.     *)
Enqueue(id, at) ==
    jobs' = [j \in JobIds |->
        IF j = id
        THEN IF jobs[j].status = "absent" THEN NewRow(at) ELSE jobs[j]
        ELSE IF /\ Scheduled(id) /\ Scheduled(j)
                /\ j[1] = id[1] /\ jobs[j].status = "queued"
             THEN Release(jobs[j], "succeeded")
             ELSE jobs[j]]

EnqueuePeriodic(w) ==
    /\ worker[w].pc = "enqueue"
    /\ \E type \in worker[w].todo :
          /\ Enqueue(<<type, worker[w].now \div Cadence>>, worker[w].now)
          /\ worker' = [worker EXCEPT ![w].todo = @ \ {type}]
    /\ UNCHANGED <<clock, minted, ran, completed, crashes>>

(* claim_due_jobs: in one transaction, give up on the due jobs that have   *)
(* no attempt left, then lease the Limit oldest claimable ones.            *)
OldestFirst(batch, candidates) ==
    \A j \in batch, k \in candidates \ batch :
        jobs[j].run_after <= jobs[k].run_after

ClaimDueJobs(w) ==
    LET now == worker[w].now
        candidates == {j \in JobIds : Claimable(jobs[j], now)}
    IN  /\ worker[w].pc = "enqueue"
        /\ worker[w].todo = {}
        /\ \E batch \in SUBSET candidates :
              /\ Cardinality(batch) <= Limit
              /\ batch # candidates => Cardinality(batch) = Limit
              /\ OldestFirst(batch, candidates)
              /\ jobs' = [j \in JobIds |->
                    IF Exhausted(jobs[j], now) THEN Release(jobs[j], "failed")
                    ELSE IF j \in batch THEN Leased(jobs[j], now, minted[j] + 1)
                    ELSE jobs[j]]
              /\ minted' = [j \in JobIds |->
                    IF j \in batch THEN minted[j] + 1 ELSE minted[j]]
              /\ worker' = [worker EXCEPT ![w] =
                    [IdleWorker EXCEPT !.pc = "run",
                        !.held = {NewClaim(j, now) : j \in batch}]]
        /\ UNCHANGED <<clock, ran, completed, crashes>>

(* run_once: enqueue one job under a fresh manual key ...                  *)
RunOnce(w) ==
    /\ worker[w].pc = "idle"
    /\ \E type \in JobTypes, key \in ManualKeys :
          /\ jobs[<<type, key>>].status = "absent"
          /\ Enqueue(<<type, key>>, clock)
          /\ worker' = [worker EXCEPT ![w] =
                [IdleWorker EXCEPT !.pc = "claim_one", !.now = clock,
                    !.current = {[job |-> <<type, key>>, token |-> NoToken,
                                  until |-> 0, due |-> clock]}]]
    /\ UNCHANGED <<clock, minted, ran, completed, crashes>>

(* ... and claim_job exactly that one, unless a tick was faster.           *)
ClaimJob(w) ==
    /\ worker[w].pc = "claim_one"
    /\ \E target \in worker[w].current :
          LET j == target.job
              now == worker[w].now
          IN  IF Claimable(jobs[j], now)
              THEN /\ jobs' = [jobs EXCEPT ![j] = Leased(@, now, minted[j] + 1)]
                   /\ minted' = [minted EXCEPT ![j] = @ + 1]
                   /\ worker' = [worker EXCEPT ![w] =
                         [IdleWorker EXCEPT !.pc = "run", !.held = {NewClaim(j, now)}]]
              ELSE /\ worker' = [worker EXCEPT ![w] = IdleWorker]
                   /\ UNCHANGED <<jobs, minted>>
    /\ UNCHANGED <<clock, ran, completed, crashes>>

(* _run_job: the handler of the next claimed job runs to its end, or       *)
(* raises.                                                                 *)
NextClaims(w) ==
    {c \in worker[w].held : \A d \in worker[w].held : c.due <= d.due}

RunHandler(w) ==
    /\ worker[w].pc = "run"
    /\ \E c \in NextClaims(w) :
          /\ ran' = [ran EXCEPT ![c.job] = @ \cup {c.token}]
          /\ worker' = [worker EXCEPT ![w].pc = "handled",
                ![w].held = @ \ {c}, ![w].current = {c}]
    /\ UNCHANGED <<clock, jobs, minted, completed, crashes>>

HandlerRaises(w) ==
    /\ worker[w].pc = "run"
    /\ \E c \in NextClaims(w) :
          worker' = [worker EXCEPT ![w].pc = "raised",
                ![w].held = @ \ {c}, ![w].current = {c}]
    /\ UNCHANGED <<clock, jobs, minted, ran, completed, crashes>>

(* complete_job and the worker_job_completed event, in one transaction.    *)
CompleteJob_Unguarded(w) ==
    /\ worker[w].pc = "handled"
    /\ \E c \in worker[w].current :
          /\ jobs' = [jobs EXCEPT ![c.job] = Release(@, "succeeded")]
          /\ completed' = [completed EXCEPT ![c.job] = @ + 1]
    /\ worker' = [worker EXCEPT ![w].pc = "run", ![w].current = {}]
    /\ UNCHANGED <<clock, minted, ran, crashes>>

CompleteJob(w) ==
    /\ worker[w].pc = "handled"
    /\ \E c \in worker[w].current :
          IF HoldsLease(c)
          THEN /\ jobs' = [jobs EXCEPT ![c.job] = Release(@, "succeeded")]
               /\ completed' = [completed EXCEPT ![c.job] = @ + 1]
          ELSE UNCHANGED <<jobs, completed>>            \* "lease_lost"
    /\ worker' = [worker EXCEPT ![w].pc = "run", ![w].current = {}]
    /\ UNCHANGED <<clock, minted, ran, crashes>>

(* That transaction itself may raise (SQLite busy): it is rolled back and  *)
(* the except branch treats the job as failed although its handler ran.    *)
CompletionRaises(w) ==
    /\ worker[w].pc = "handled"
    /\ worker' = [worker EXCEPT ![w].pc = "raised"]
    /\ UNCHANGED <<clock, jobs, minted, ran, completed, crashes>>

(* fail_job reads the attempts of the row in one statement ...             *)
ReadAttempts(w) ==
    /\ worker[w].pc = "raised"
    /\ \E c \in worker[w].current :
          worker' = [worker EXCEPT ![w].pc = "failing",
                ![w].seen = jobs[c.job].attempts]
    /\ UNCHANGED <<clock, jobs, minted, ran, completed, crashes>>

(* ... and decides with them in another, if the lease is still its own.    *)
Failed_OffByOne(row, attempts, now) ==
    IF attempts <= MaxAttempts
    THEN [Release(row, "queued") EXCEPT
             !.run_after = Cap(now + RetryDelay(attempts))]
    ELSE [Release(row, "failed") EXCEPT !.run_after = now]

Failed_WrongStatus(row, attempts, now) ==
    [Release(row, IF attempts < MaxAttempts THEN "retrying" ELSE "failed")
        EXCEPT !.run_after = now]

Failed(row, attempts, now) ==
    IF attempts < MaxAttempts
    THEN [Release(row, "queued") EXCEPT
             !.run_after = Cap(now + RetryDelay(attempts))]
    ELSE [Release(row, "failed") EXCEPT !.run_after = now]

FailJob(w) ==
    /\ worker[w].pc = "failing"
    /\ \E c \in worker[w].current :
          jobs' = IF HoldsLease(c)
                  THEN [jobs EXCEPT ![c.job] = Failed(@, worker[w].seen, clock)]
                  ELSE jobs
    /\ worker' = [worker EXCEPT ![w].pc = "run", ![w].current = {}, ![w].seen = 0]
    /\ UNCHANGED <<clock, minted, ran, completed, crashes>>

EndTick(w) ==
    /\ worker[w].pc = "run"
    /\ worker[w].held = {}
    /\ worker' = [worker EXCEPT ![w] = IdleWorker]
    /\ UNCHANGED <<clock, jobs, minted, ran, completed, crashes>>

(* The process dies anywhere in a tick and is started again (systemd       *)
(* Restart=on-failure); only the table survives.                           *)
Crash(w) ==
    /\ crashes < MaxCrashes
    /\ worker[w].pc # "idle"
    /\ worker' = [worker EXCEPT ![w] = IdleWorker]
    /\ crashes' = crashes + 1
    /\ UNCHANGED <<clock, jobs, minted, ran, completed>>

TickStep(w) ==
    \/ BeginTick(w) \/ EnqueuePeriodic(w) \/ ClaimDueJobs(w) \/ ClaimJob(w)
    \/ RunHandler(w) \/ HandlerRaises(w) \/ CompleteJob(w)
    \/ CompletionRaises(w) \/ ReadAttempts(w) \/ FailJob(w) \/ EndTick(w)

Next ==
    \/ Tick
    \/ \E w \in Workers : TickStep(w) \/ RunOnce(w) \/ Crash(w)

Spec == Init /\ [][Next]_vars

(* The worker loop never stops ticking (a crash restarts it) and time      *)
(* passes; a crash and a manual run are never owed.                        *)
FairSpec == Spec /\ WF_vars(Tick) /\ \A w \in Workers : WF_vars(TickStep(w))
-----------------------------------------------------------------------------
(* Properties *)

(* The claims a worker has neither reported nor given up on. *)
Claims(w) ==
    IF worker[w].pc = "claim_one" THEN {}
    ELSE worker[w].held \cup worker[w].current

(* Every variable has its type: the columns of the table and the state of  *)
(* a worker never leave the values the code gives them.                    *)
TypeOK ==
    /\ clock \in Time
    /\ jobs \in [JobIds -> Row]
    /\ minted \in [JobIds -> Nat]
    /\ worker \in [Workers -> Worker]
    /\ ran \in [JobIds -> SUBSET Nat]
    /\ completed \in [JobIds -> Nat]
    /\ crashes \in Nat

(* A worker that has claimed a job keeps the lease until it reports or the *)
(* lease time is over: no enqueue, retirement, claim or late report of     *)
(* another worker ever takes a live lease away.                            *)
LiveLeaseIsKept ==
    \A w \in Workers : \A c \in Claims(w) : HoldsLease(c) \/ c.until <= clock

(* Two workers may both be busy with one job after a take-over, but at     *)
(* most one of them can still settle it.                                   *)
OneOwner ==
    \A v, w \in Workers : \A c \in Claims(v), d \in Claims(w) :
        HoldsLease(c) /\ HoldsLease(d) /\ c.job = d.job => v = w /\ c = d

(* The ledger tells the truth: a job has at most one completion event, it  *)
(* has one only if it succeeded after a handler ran to its end, and a job  *)
(* that succeeded without one was retired by a periodic enqueue.           *)
LedgerMatchesTable ==
    \A j \in JobIds :
        /\ completed[j] <= 1
        /\ completed[j] = 1 => jobs[j].status = "succeeded" /\ ran[j] # {}
        /\ jobs[j].status = "succeeded" /\ completed[j] = 0 => Scheduled(j)

(* However often workers crash, time out and retry, the handler of a job   *)
(* runs to its end at most once per counted attempt, and a job waits for a *)
(* retry only while it has an attempt left.                                *)
RetriesAreBounded ==
    \A j \in JobIds :
        /\ ran[j] \subseteq 1..jobs[j].attempts
        /\ jobs[j].attempts <= MaxAttempts
        /\ jobs[j].status = "queued" => jobs[j].attempts < MaxAttempts

(* succeeded and failed are final: a stale worker, a retry, a retirement   *)
(* or a second enqueue under the same key never reopens a settled job.     *)
SettledIsFinal ==
    [][\A j \in JobIds : Settled(jobs[j]) => jobs'[j] = jobs[j]]_vars

(* A worker restart loses no work: whatever crashes in between, every job  *)
(* that was accepted is succeeded or failed in the end.  (The bounded job  *)
(* ids run out, so there comes a time after which no job is open.)         *)
EveryJobSettles ==
    []<>(\A j \in JobIds : jobs[j].status = "absent" \/ Settled(jobs[j]))

(* The table implements the life cycle of JobLifecycle: seen through its    *)
(* status, attempts and completion events, every step of every worker is    *)
(* one allowed step of each job, or none.                                   *)
LifeOf(j) ==
    [phase |-> IF jobs[j].status \in {"queued", "running"} THEN "open"
               ELSE jobs[j].status,
     attempts |-> jobs[j].attempts,
     events |-> completed[j]]

Lifecycle == INSTANCE JobLifecycle WITH
    life <- [j \in JobIds |-> LifeOf(j)],
    Periodic <- {j \in JobIds : Scheduled(j)}

ImplementsLifecycle == Lifecycle!Spec

(* A periodic job retired before it ran made way for a newer window of its *)
(* type ("superseded_by_newer_periodic_job").                              *)
SupersededByNewer ==
    \A j \in JobIds :
        Scheduled(j) /\ jobs[j].status = "succeeded" /\ completed[j] = 0 =>
            \E k \in JobIds : /\ Scheduled(k) /\ k[1] = j[1] /\ k[2] > j[2]
                             /\ jobs[k].status # "absent"

(* The work of one time window is executed only once.                      *)
WindowRunsOnce == \A j \in JobIds : Cardinality(ran[j]) <= 1
=============================================================================
