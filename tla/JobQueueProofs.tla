--------------------------- MODULE JobQueueProofs ---------------------------
(***************************************************************************)
(* Proofs about JobQueue, for every number of workers, job types, windows, *)
(* attempts and crashes.                                                   *)
(*                                                                         *)
(* None of the safety properties of the table is inductive by itself: that *)
(* a stale worker cannot settle a job rests on what the claims it still    *)
(* holds look like.  JobQueueInv says that about the table (TableInv), the *)
(* claims (ClaimInv, ClaimsDiffer), the local state of the workers         *)
(* (WorkerInv) and the history (LedgerInv).                                *)
(***************************************************************************)
EXTENDS JobQueue, TLAPS

(* The columns of a row agree with each other and with the tokens minted.  *)
TableInv ==
    \A j \in JobIds :
        /\ jobs[j].attempts = minted[j]
        /\ jobs[j].attempts <= MaxAttempts
        /\ jobs[j].status = "running" => jobs[j].lock_token = minted[j]
        /\ jobs[j].status = "queued" => jobs[j].attempts < MaxAttempts
        /\ jobs[j].status = "absent" => jobs[j] = NoRow

(* A claim bears a token that was minted for its job; it still holds the   *)
(* lease, with the expiry the row shows, or its time is over.              *)
GoodClaim(c) ==
    /\ c.token \in 1..minted[c.job]
    /\ HoldsLease(c) \/ c.until <= clock
    /\ HoldsLease(c) => c.until = jobs[c.job].locked_until

ClaimInv == \A w \in Workers : \A c \in Claims(w) : GoodClaim(c)

(* No lease is claimed twice.                                              *)
ClaimsDiffer ==
    \A v, w \in Workers : \A c \in Claims(v), d \in Claims(w) :
        c.job = d.job /\ c.token = d.token => v = w /\ c = d

(* Between two steps a worker holds what its place in the tick says.       *)
LocalInv(w) ==
    /\ worker[w].now <= clock
    /\ worker[w].pc \in {"idle", "enqueue"} =>
          worker[w].held = {} /\ worker[w].current = {}
    /\ worker[w].pc = "run" => worker[w].current = {}
    /\ worker[w].pc = "claim_one" => worker[w].held = {}
    /\ worker[w].held \cap worker[w].current = {}
    /\ \A c, d \in worker[w].current : c = d
    /\ \A c \in worker[w].current :
          /\ worker[w].pc = "handled" => c.token \in ran[c.job]
          /\ worker[w].pc = "failing" /\ HoldsLease(c) =>
                worker[w].seen = jobs[c.job].attempts

WorkerInv == \A w \in Workers : LocalInv(w)

LedgerInv ==
    \A j \in JobIds :
        /\ ran[j] \subseteq 1..minted[j]
        /\ completed[j] \in {0, 1}
        /\ completed[j] = 1 => jobs[j].status = "succeeded" /\ ran[j] # {}
        /\ jobs[j].status = "succeeded" /\ completed[j] = 0 => Scheduled(j)

JobQueueInv ==
    TypeOK /\ TableInv /\ ClaimInv /\ ClaimsDiffer /\ WorkerInv /\ LedgerInv

-----------------------------------------------------------------------------
(* The values the code writes *)

LEMMA CapTime == \A t \in Nat : Cap(t) \in Time
  BY JobQueueAssumption DEF Cap, Time

LEMMA TimeIsNat == Time \subseteq Nat /\ 0 \in Time
  BY JobQueueAssumption DEF Time

LEMMA NoRowType == NoRow \in Row
  BY TimeIsNat DEF Row, NoRow, NoToken

LEMMA NewRowType ==
  ASSUME NEW at \in Time
  PROVE  NewRow(at) \in Row
  BY NoRowType DEF Row, NewRow

LEMMA ReleaseType ==
  ASSUME NEW row \in Row, NEW status \in {"queued", "succeeded", "failed"}
  PROVE  Release(row, status) \in Row
  BY TimeIsNat DEF Row, Release, NoToken

LEMMA LeasedType ==
  ASSUME NEW row \in Row, NEW now \in Time, NEW token \in Nat
  PROVE  Leased(row, now, token) \in Row
  <1>1. Cap(now + LeaseTime) \in Time
    BY CapTime, TimeIsNat, JobQueueAssumption
  <1>2. row.attempts + 1 \in Nat
    BY DEF Row
  <1>. QED
    BY <1>1, <1>2 DEF Row, Leased

LEMMA FailedType ==
  ASSUME NEW row \in Row, NEW attempts \in Nat, NEW now \in Time
  PROVE  Failed(row, attempts, now) \in Row
  <1>1. CASE attempts < MaxAttempts
    <2>1. RetryDelay(attempts) \in Nat
      BY <1>1, JobQueueAssumption
    <2>2. Cap(now + RetryDelay(attempts)) \in Time
      BY <2>1, CapTime, TimeIsNat
    <2>. QED
      BY <1>1, <2>2, ReleaseType DEF Row, Failed
  <1>2. CASE ~(attempts < MaxAttempts)
    BY <1>2, ReleaseType DEF Row, Failed
  <1>. QED
    BY <1>1, <1>2

LEMMA EnqueueType ==
  ASSUME NEW id, NEW at \in Time, jobs \in [JobIds -> Row], Enqueue(id, at)
  PROVE  jobs' \in [JobIds -> Row]
  BY NewRowType, ReleaseType DEF Enqueue

-----------------------------------------------------------------------------
(* Type correctness *)

LEMMA IdleWorkerType == IdleWorker \in Worker
  BY TimeIsNat DEF Worker, IdleWorker

LEMMA NewClaimType ==
  ASSUME TypeOK, NEW j \in JobIds, NEW now \in Time
  PROVE  NewClaim(j, now) \in Claim
  <1>1. Cap(now + LeaseTime) \in Time
    BY CapTime, TimeIsNat, JobQueueAssumption
  <1>2. minted[j] + 1 \in Nat /\ jobs[j].run_after \in Time
    BY DEF TypeOK, Row
  <1>. QED
    BY <1>1, <1>2 DEF Claim, NewClaim

LEMMA InitTypeOK == Init => TypeOK
  BY TimeIsNat, NoRowType, IdleWorkerType, JobQueueAssumption DEF Init, TypeOK

LEMMA NextTypeOK == TypeOK /\ [Next]_vars => TypeOK'
  <1>. SUFFICES ASSUME TypeOK, [Next]_vars PROVE TypeOK'
    OBVIOUS
  <1>. USE DEF TypeOK
  <1>1. CASE Tick
    BY <1>1, JobQueueAssumption DEF Tick, Time
  <1>2. ASSUME NEW w \in Workers, BeginTick(w) PROVE TypeOK'
    <2>1. worker'[w] \in Worker
      BY <1>2, IdleWorkerType DEF BeginTick, Worker
    <2>. QED
      BY <1>2, <2>1 DEF BeginTick
  <1>3. ASSUME NEW w \in Workers, EnqueuePeriodic(w) PROVE TypeOK'
    <2>1. worker[w].now \in Time
      BY DEF Worker
    <2>2. jobs' \in [JobIds -> Row]
      BY <1>3, <2>1, EnqueueType DEF EnqueuePeriodic
    <2>3. worker' \in [Workers -> Worker]
      BY <1>3 DEF EnqueuePeriodic, Worker
    <2>. QED
      BY <1>3, <2>2, <2>3 DEF EnqueuePeriodic
  <1>4. ASSUME NEW w \in Workers, ClaimDueJobs(w) PROVE TypeOK'
    <2>. DEFINE now == worker[w].now
                candidates == {j \in JobIds : Claimable(jobs[j], now)}
    <2>1. now \in Time
      BY DEF Worker
    <2>2. PICK batch \in SUBSET candidates :
            /\ jobs' = [j \in JobIds |->
                    IF Exhausted(jobs[j], now) THEN Release(jobs[j], "failed")
                    ELSE IF j \in batch THEN Leased(jobs[j], now, minted[j] + 1)
                    ELSE jobs[j]]
            /\ minted' = [j \in JobIds |->
                    IF j \in batch THEN minted[j] + 1 ELSE minted[j]]
            /\ worker' = [worker EXCEPT ![w] =
                    [IdleWorker EXCEPT !.pc = "run",
                        !.held = {NewClaim(j, now) : j \in batch}]]
      BY <1>4 DEF ClaimDueJobs
    <2>3. \A j \in JobIds : /\ Release(jobs[j], "failed") \in Row
                           /\ Leased(jobs[j], now, minted[j] + 1) \in Row
      BY <2>1, ReleaseType, LeasedType
    <2>4. jobs' \in [JobIds -> Row]
      BY <2>2, <2>3
    <2>5. minted' \in [JobIds -> Nat]
      BY <2>2
    <2>6. {NewClaim(j, now) : j \in batch} \in SUBSET Claim
      BY <2>1, <2>2, NewClaimType
    <2>7. worker' \in [Workers -> Worker]
      BY <2>2, <2>6, IdleWorkerType DEF Worker
    <2>. QED
      BY <1>4, <2>4, <2>5, <2>7 DEF ClaimDueJobs
  <1>5. ASSUME NEW w \in Workers, RunOnce(w) PROVE TypeOK'
    <2>1. PICK type \in JobTypes, key \in ManualKeys :
            /\ Enqueue(<<type, key>>, clock)
            /\ worker' = [worker EXCEPT ![w] =
                [IdleWorker EXCEPT !.pc = "claim_one", !.now = clock,
                    !.current = {[job |-> <<type, key>>, token |-> NoToken,
                                  until |-> 0, due |-> clock]}]]
      BY <1>5 DEF RunOnce
    <2>2. jobs' \in [JobIds -> Row]
      BY <2>1, EnqueueType
    <2>3. [job |-> <<type, key>>, token |-> NoToken, until |-> 0, due |-> clock] \in Claim
      BY TimeIsNat DEF Claim, JobIds, NoToken
    <2>4. worker' \in [Workers -> Worker]
      BY <2>1, <2>3, IdleWorkerType DEF Worker
    <2>. QED
      BY <1>5, <2>2, <2>4 DEF RunOnce
  <1>6. ASSUME NEW w \in Workers, ClaimJob(w) PROVE TypeOK'
    <2>1. PICK target \in worker[w].current :
            IF Claimable(jobs[target.job], worker[w].now)
            THEN /\ jobs' = [jobs EXCEPT ![target.job] =
                        Leased(@, worker[w].now, minted[target.job] + 1)]
                 /\ minted' = [minted EXCEPT ![target.job] = @ + 1]
                 /\ worker' = [worker EXCEPT ![w] =
                        [IdleWorker EXCEPT !.pc = "run",
                            !.held = {NewClaim(target.job, worker[w].now)}]]
            ELSE /\ worker' = [worker EXCEPT ![w] = IdleWorker]
                 /\ UNCHANGED <<jobs, minted>>
      BY <1>6 DEF ClaimJob
    <2>2. target.job \in JobIds /\ worker[w].now \in Time
      BY <2>1 DEF Worker, Claim
    <2>3. Leased(jobs[target.job], worker[w].now, minted[target.job] + 1) \in Row
      BY <2>2, LeasedType
    <2>4. jobs' \in [JobIds -> Row] /\ minted' \in [JobIds -> Nat]
      BY <2>1, <2>2, <2>3
    <2>5. {NewClaim(target.job, worker[w].now)} \in SUBSET Claim
      BY <2>2, NewClaimType
    <2>6. [IdleWorker EXCEPT !.pc = "run",
            !.held = {NewClaim(target.job, worker[w].now)}] \in Worker
      BY <2>5, IdleWorkerType DEF Worker
    <2>7. worker' \in [Workers -> Worker]
      BY <2>1, <2>6, IdleWorkerType
    <2>. QED
      BY <1>6, <2>4, <2>7 DEF ClaimJob
  <1>7. ASSUME NEW w \in Workers, RunHandler(w) PROVE TypeOK'
    <2>1. PICK c \in worker[w].held :
            /\ ran' = [ran EXCEPT ![c.job] = @ \cup {c.token}]
            /\ worker' = [worker EXCEPT ![w].pc = "handled",
                    ![w].held = @ \ {c}, ![w].current = {c}]
      BY <1>7 DEF RunHandler, NextClaims
    <2>2. c \in Claim
      BY <2>1 DEF Worker
    <2>3. ran' \in [JobIds -> SUBSET Nat]
      BY <2>1, <2>2 DEF Claim
    <2>4. worker' \in [Workers -> Worker]
      BY <2>1, <2>2 DEF Worker
    <2>. QED
      BY <1>7, <2>3, <2>4 DEF RunHandler
  <1>8. ASSUME NEW w \in Workers, HandlerRaises(w) PROVE TypeOK'
    BY <1>8 DEF HandlerRaises, NextClaims, Worker
  <1>9. ASSUME NEW w \in Workers, CompleteJob(w) PROVE TypeOK'
    <2>1. PICK c \in worker[w].current :
            IF HoldsLease(c)
            THEN /\ jobs' = [jobs EXCEPT ![c.job] = Release(@, "succeeded")]
                 /\ completed' = [completed EXCEPT ![c.job] = @ + 1]
            ELSE UNCHANGED <<jobs, completed>>
      BY <1>9 DEF CompleteJob
    <2>2. jobs' \in [JobIds -> Row] /\ completed' \in [JobIds -> Nat]
      BY <2>1, ReleaseType
    <2>3. worker' \in [Workers -> Worker]
      BY <1>9 DEF CompleteJob, Worker
    <2>. QED
      BY <1>9, <2>2, <2>3 DEF CompleteJob
  <1>10. ASSUME NEW w \in Workers, CompletionRaises(w) PROVE TypeOK'
    BY <1>10 DEF CompletionRaises, Worker
  <1>11. ASSUME NEW w \in Workers, ReadAttempts(w) PROVE TypeOK'
    <2>1. PICK c \in worker[w].current :
            worker' = [worker EXCEPT ![w].pc = "failing",
                                     ![w].seen = jobs[c.job].attempts]
      BY <1>11 DEF ReadAttempts
    <2>2. jobs[c.job].attempts \in Nat
      BY <2>1 DEF Worker, Claim, Row
    <2>3. worker' \in [Workers -> Worker]
      BY <2>1, <2>2 DEF Worker
    <2>. QED
      BY <1>11, <2>3 DEF ReadAttempts
  <1>12. ASSUME NEW w \in Workers, FailJob(w) PROVE TypeOK'
    <2>1. PICK c \in worker[w].current :
            jobs' = IF HoldsLease(c)
                    THEN [jobs EXCEPT ![c.job] = Failed(@, worker[w].seen, clock)]
                    ELSE jobs
      BY <1>12 DEF FailJob
    <2>2. c.job \in JobIds /\ worker[w].seen \in Nat
      BY <2>1 DEF Worker, Claim
    <2>3. jobs' \in [JobIds -> Row]
      BY <2>1, <2>2, FailedType
    <2>4. worker' \in [Workers -> Worker]
      BY <1>12 DEF FailJob, Worker
    <2>. QED
      BY <1>12, <2>3, <2>4 DEF FailJob
  <1>13. ASSUME NEW w \in Workers, EndTick(w) PROVE TypeOK'
    BY <1>13, IdleWorkerType DEF EndTick
  <1>14. ASSUME NEW w \in Workers, Crash(w) PROVE TypeOK'
    BY <1>14, IdleWorkerType DEF Crash
  <1>15. CASE UNCHANGED vars
    BY <1>15 DEF vars
  <1>. QED
    BY <1>1, <1>2, <1>3, <1>4, <1>5, <1>6, <1>7, <1>8, <1>9, <1>10, <1>11, <1>13,
       <1>14, <1>15, <1>12 DEF Next, TickStep

-----------------------------------------------------------------------------
(* Preservation of the inductive invariant *)

LEMMA ClaimsTyped ==
  ASSUME TypeOK, NEW w \in Workers, NEW c \in Claims(w)
  PROVE  c \in Claim /\ c.job \in JobIds /\ c.token \in Nat /\ c.until \in Nat
  <1>1. worker[w].held \subseteq Claim /\ worker[w].current \subseteq Claim
    BY DEF TypeOK, Worker
  <1>2. c \in Claim
    BY <1>1 DEF Claims
  <1>. QED
    BY <1>2, TimeIsNat DEF Claim

(* What a step may do to a claim somebody keeps: leave its row alone, or   *)
(* end a lease whose time is over.                                         *)
Undisturbed(c) ==
    \/ jobs'[c.job] = jobs[c.job]
    \/ ~HoldsLease(c)' /\ c.until <= clock

(* A claim made in this step: its token is new and it has the lease.       *)
Fresh(c) ==
    /\ c.job \in JobIds
    /\ c.token = minted[c.job] + 1
    /\ minted'[c.job] = c.token
    /\ jobs'[c.job].status = "running"
    /\ jobs'[c.job].lock_token = c.token
    /\ c.until = jobs'[c.job].locked_until

LEMMA KeptClaim ==
  ASSUME JobQueueInv, NEW v \in Workers, NEW c \in Claims(v), Undisturbed(c),
         clock' = clock, \A j \in JobIds : minted'[j] \in Nat /\ minted[j] <= minted'[j]
  PROVE  /\ GoodClaim(c)'
         /\ HoldsLease(c)' => HoldsLease(c) /\ jobs'[c.job] = jobs[c.job]
  <1>1. c.job \in JobIds /\ c.token \in Nat /\ minted[c.job] \in Nat
    BY ClaimsTyped DEF JobQueueInv, TypeOK
  <1>2. GoodClaim(c)
    BY DEF JobQueueInv, ClaimInv
  <1>. QED
    BY <1>1, <1>2 DEF GoodClaim, Undisturbed, HoldsLease

(* A step of worker w preserves the invariants about claims if the claims  *)
(* that are kept are undisturbed and the new ones, all of w, are fresh.    *)
LEMMA MoveInv ==
  ASSUME JobQueueInv, TypeOK', NEW w \in Workers, clock' = clock,
         \A v \in Workers \ {w} : worker'[v] = worker[v],
         \A j \in JobIds : minted[j] <= minted'[j] /\ ran[j] \subseteq ran'[j],
         \A v \in Workers : \A c \in Claims(v) \cap Claims(v)' : Undisturbed(c),
         \A c \in Claims(w)' : c \in Claims(w) \/ Fresh(c),
         \A c, d \in Claims(w)' : Fresh(c) /\ Fresh(d) /\ c.job = d.job => c = d,
         LocalInv(w)'
  PROVE  ClaimInv' /\ ClaimsDiffer' /\ WorkerInv'
  <1>1. \A v \in Workers \ {w} : Claims(v)' = Claims(v)
    BY DEF Claims
  <1>2. \A v \in Workers : \A c \in Claims(v)' : c \in Claims(v) \/ (v = w /\ Fresh(c))
    BY <1>1
  <1>3. \A j \in JobIds : minted[j] \in Nat /\ minted'[j] \in Nat
    BY DEF JobQueueInv, TypeOK
  <1>4. ASSUME NEW v \in Workers, NEW c \in Claims(v)' PROVE GoodClaim(c)'
    <2>1. CASE c \in Claims(v)
      BY <2>1, <1>3, KeptClaim
    <2>2. CASE Fresh(c)
      BY <2>2, <1>3 DEF Fresh, GoodClaim, HoldsLease
    <2>. QED
      BY <2>1, <2>2, <1>2
  <1>5. \A v \in Workers : \A c \in Claims(v) : c.job \in JobIds /\ c.token <= minted[c.job]
    BY <1>3, ClaimsTyped DEF JobQueueInv, ClaimInv, GoodClaim
  <1>6. ClaimsDiffer'
    <2>1. ASSUME NEW u \in Workers, NEW v \in Workers,
                 NEW c \in Claims(u)', NEW d \in Claims(v)',
                 c.job = d.job, c.token = d.token
          PROVE  u = v /\ c = d
      <3>1. CASE c \in Claims(u) /\ d \in Claims(v)
        BY <3>1, <2>1 DEF JobQueueInv, ClaimsDiffer
      <3>2. CASE c \in Claims(u) /\ v = w /\ Fresh(d)
        BY <3>2, <2>1, <1>3, <1>5 DEF Fresh
      <3>3. CASE u = w /\ Fresh(c) /\ d \in Claims(v)
        BY <3>3, <2>1, <1>3, <1>5 DEF Fresh
      <3>4. CASE u = w /\ Fresh(c) /\ v = w /\ Fresh(d)
        BY <3>4, <2>1
      <3>. QED
        BY <3>1, <3>2, <3>3, <3>4, <1>2
    <2>. QED
      BY <2>1 DEF ClaimsDiffer
  <1>7. ASSUME NEW v \in Workers \ {w} PROVE LocalInv(v)'
    <2>1. LocalInv(v) /\ worker'[v] = worker[v]
      BY DEF JobQueueInv, WorkerInv
    <2>2. ASSUME NEW c \in worker[v].current
          PROVE  /\ worker[v].pc = "handled" => c.token \in ran'[c.job]
                 /\ worker[v].pc = "failing" /\ HoldsLease(c)' =>
                       worker[v].seen = jobs'[c.job].attempts
      <3>1. CASE worker[v].pc \notin {"handled", "failing"}
        BY <3>1
      <3>2. CASE worker[v].pc \in {"handled", "failing"}
        <4>1. c \in Claims(v) /\ c \in Claims(v)' /\ c.job \in JobIds
          BY <3>2, <1>1, <1>5 DEF Claims
        <4>2. HoldsLease(c)' => HoldsLease(c) /\ jobs'[c.job] = jobs[c.job]
          BY <4>1, <1>3, KeptClaim
        <4>. QED
          BY <4>1, <4>2, <2>1 DEF LocalInv
      <3>. QED
        BY <3>1, <3>2
    <2>. QED
      BY <2>1, <2>2 DEF LocalInv
  <1>. QED
    BY <1>4, <1>6, <1>7 DEF ClaimInv, WorkerInv

(* A step that leaves the table alone and takes no claim.                  *)
LEMMA LocalMove ==
  ASSUME JobQueueInv, TypeOK', NEW w \in Workers,
         UNCHANGED <<clock, jobs, minted, ran, completed>>,
         \A v \in Workers \ {w} : worker'[v] = worker[v],
         Claims(w)' \subseteq Claims(w),
         LocalInv(w)'
  PROVE  JobQueueInv'
  <1>1. TableInv' /\ LedgerInv'
    BY DEF JobQueueInv, TableInv, LedgerInv
  <1>2. ClaimInv' /\ ClaimsDiffer' /\ WorkerInv'
    <2>1. \A j \in JobIds : minted[j] \in Nat
      BY DEF JobQueueInv, TypeOK
    <2>2. \A v \in Workers : \A c \in Claims(v) : Undisturbed(c)
      BY DEF Undisturbed
    <2>3. \A j \in JobIds : minted[j] <= minted'[j] /\ ran[j] \subseteq ran'[j]
      BY <2>1
    <2>4. \A c, d \in Claims(w)' : ~(Fresh(c) /\ Fresh(d))
      BY <2>1 DEF Fresh
    <2>. QED
      BY <2>2, <2>3, <2>4, MoveInv
  <1>. QED
    BY <1>1, <1>2 DEF JobQueueInv

LEMMA LocalActions ==
  ASSUME JobQueueInv, TypeOK', NEW w \in Workers,
         \/ BeginTick(w) \/ HandlerRaises(w) \/ CompletionRaises(w)
         \/ ReadAttempts(w) \/ EndTick(w) \/ Crash(w)
  PROVE  JobQueueInv'
  <1>1. worker \in [Workers -> Worker] /\ clock \in Nat
    BY TimeIsNat DEF JobQueueInv, TypeOK
  <1>2. LocalInv(w)
    BY DEF JobQueueInv, WorkerInv
  <1>3. CASE BeginTick(w)
    <2>1. /\ worker'[w] = [IdleWorker EXCEPT !.pc = "enqueue", !.now = clock,
                                             !.todo = JobTypes]
          /\ \A v \in Workers \ {w} : worker'[v] = worker[v]
      BY <1>1, <1>3 DEF BeginTick
    <2>2. Claims(w)' \subseteq Claims(w) /\ LocalInv(w)'
      BY <1>1, <1>3, <2>1 DEF BeginTick, Claims, LocalInv, IdleWorker
    <2>. QED
      BY <1>3, <2>1, <2>2, LocalMove DEF BeginTick
  <1>4. CASE HandlerRaises(w)
    <2>1. PICK c \in worker[w].held :
            worker' = [worker EXCEPT ![w].pc = "raised", ![w].held = @ \ {c},
                                     ![w].current = {c}]
      BY <1>4 DEF HandlerRaises, NextClaims
    <2>2. /\ worker'[w] = [worker[w] EXCEPT !.pc = "raised", !.held = @ \ {c},
                                            !.current = {c}]
          /\ \A v \in Workers \ {w} : worker'[v] = worker[v]
      BY <1>1, <2>1
    <2>3. /\ worker'[w].pc = "raised" /\ worker'[w].now = worker[w].now
          /\ worker'[w].held = worker[w].held \ {c} /\ worker'[w].current = {c}
      BY <1>1, <2>2 DEF Worker
    <2>4. Claims(w)' \subseteq Claims(w)
      BY <1>4, <2>1, <2>3 DEF HandlerRaises, Claims
    <2>5. LocalInv(w)'
      BY <1>2, <1>4, <2>3 DEF HandlerRaises, LocalInv
    <2>. QED
      BY <1>4, <2>2, <2>4, <2>5, LocalMove DEF HandlerRaises
  <1>5. CASE CompletionRaises(w)
    <2>1. /\ worker'[w] = [worker[w] EXCEPT !.pc = "raised"]
          /\ \A v \in Workers \ {w} : worker'[v] = worker[v]
      BY <1>1, <1>5 DEF CompletionRaises
    <2>2. /\ worker'[w].pc = "raised" /\ worker'[w].now = worker[w].now
          /\ worker'[w].held = worker[w].held
          /\ worker'[w].current = worker[w].current
      BY <1>1, <2>1 DEF Worker
    <2>3. Claims(w)' \subseteq Claims(w)
      BY <1>5, <2>2 DEF CompletionRaises, Claims
    <2>4. LocalInv(w)'
      BY <1>2, <1>5, <2>2 DEF CompletionRaises, LocalInv
    <2>. QED
      BY <1>5, <2>1, <2>3, <2>4, LocalMove DEF CompletionRaises
  <1>6. CASE ReadAttempts(w)
    <2>1. PICK c \in worker[w].current :
            worker' = [worker EXCEPT ![w].pc = "failing",
                                     ![w].seen = jobs[c.job].attempts]
      BY <1>6 DEF ReadAttempts
    <2>2. /\ worker'[w] = [worker[w] EXCEPT !.pc = "failing",
                                            !.seen = jobs[c.job].attempts]
          /\ \A v \in Workers \ {w} : worker'[v] = worker[v]
      BY <1>1, <2>1
    <2>3. /\ worker'[w].pc = "failing" /\ worker'[w].now = worker[w].now
          /\ worker'[w].held = worker[w].held
          /\ worker'[w].current = worker[w].current
          /\ worker'[w].seen = jobs[c.job].attempts
      BY <1>1, <2>2 DEF Worker
    <2>4. Claims(w)' \subseteq Claims(w)
      BY <1>6, <2>3 DEF ReadAttempts, Claims
    <2>5. LocalInv(w)'
      BY <1>2, <1>6, <2>1, <2>3 DEF ReadAttempts, LocalInv
    <2>. QED
      BY <1>6, <2>2, <2>4, <2>5, LocalMove DEF ReadAttempts
  <1>7. CASE EndTick(w) \/ Crash(w)
    <2>1. /\ worker'[w] = IdleWorker
          /\ \A v \in Workers \ {w} : worker'[v] = worker[v]
      BY <1>1, <1>7 DEF EndTick, Crash
    <2>2. Claims(w)' \subseteq Claims(w) /\ LocalInv(w)'
      BY <1>1, <1>7, <2>1 DEF EndTick, Crash, Claims, LocalInv, IdleWorker
    <2>. QED
      BY <1>7, <2>1, <2>2, LocalMove DEF EndTick, Crash
  <1>. QED
    BY <1>3, <1>4, <1>5, <1>6, <1>7

LEMMA ClockInv ==
  ASSUME JobQueueInv, TypeOK', Tick
  PROVE  JobQueueInv'
  <1>. USE DEF JobQueueInv, Tick
  <1>1. TableInv' /\ LedgerInv'
    BY DEF TableInv, LedgerInv
  <1>2. ClaimInv'
    BY ClaimsTyped, TimeIsNat DEF ClaimInv, GoodClaim, HoldsLease, Claims, TypeOK
  <1>3. ClaimsDiffer'
    BY DEF ClaimsDiffer, Claims
  <1>4. WorkerInv'
    <2>1. \A w \in Workers : worker[w].now \in Nat
      BY TimeIsNat DEF TypeOK, Worker
    <2>. QED
      BY <2>1, TimeIsNat DEF WorkerInv, LocalInv, HoldsLease, TypeOK
  <1>. QED
    BY <1>1, <1>2, <1>3, <1>4

(* RunHandler moves a claim and remembers that its handler ran.            *)
LEMMA RunHandlerInv ==
  ASSUME JobQueueInv, TypeOK', NEW w \in Workers, RunHandler(w)
  PROVE  JobQueueInv'
  <1>1. PICK c \in worker[w].held :
            /\ ran' = [ran EXCEPT ![c.job] = @ \cup {c.token}]
            /\ worker' = [worker EXCEPT ![w].pc = "handled", ![w].held = @ \ {c},
                                        ![w].current = {c}]
    BY DEF RunHandler, NextClaims
  <1>2. /\ worker'[w] = [worker[w] EXCEPT !.pc = "handled", !.held = @ \ {c},
                                          !.current = {c}]
        /\ \A v \in Workers \ {w} : worker'[v] = worker[v]
    BY <1>1 DEF JobQueueInv, TypeOK
  <1>3. /\ worker'[w].pc = "handled" /\ worker'[w].now = worker[w].now
        /\ worker'[w].held = worker[w].held \ {c} /\ worker'[w].current = {c}
    BY <1>2 DEF JobQueueInv, TypeOK, Worker
  <1>4. c \in Claims(w) /\ Claims(w)' \subseteq Claims(w)
    BY <1>1, <1>3 DEF RunHandler, Claims
  <1>5. c.job \in JobIds /\ c.token \in 1..minted[c.job]
    BY <1>4, ClaimsTyped DEF JobQueueInv, ClaimInv, GoodClaim
  <1>6. /\ \A j \in JobIds : ran[j] \subseteq ran'[j]
        /\ c.token \in ran'[c.job]
    BY <1>1, <1>5 DEF JobQueueInv, TypeOK
  <1>7. LocalInv(w)'
    BY <1>1, <1>3, <1>6 DEF JobQueueInv, WorkerInv, LocalInv, RunHandler
  <1>8. ClaimInv' /\ ClaimsDiffer' /\ WorkerInv'
    <2>1. \A j \in JobIds : minted[j] \in Nat
      BY DEF JobQueueInv, TypeOK
    <2>2. \A v \in Workers : \A d \in Claims(v) : Undisturbed(d)
      BY DEF Undisturbed, RunHandler
    <2>3. \A j \in JobIds : minted[j] <= minted'[j] /\ ran[j] \subseteq ran'[j]
      BY <1>6, <2>1 DEF RunHandler
    <2>4. \A d, e \in Claims(w)' : ~(Fresh(d) /\ Fresh(e))
      BY <2>1 DEF Fresh, RunHandler
    <2>. QED
      BY <1>2, <1>4, <1>7, <2>2, <2>3, <2>4, MoveInv DEF RunHandler
  <1>9. TableInv'
    BY DEF JobQueueInv, TableInv, RunHandler
  <1>10. LedgerInv'
    BY <1>1, <1>5 DEF JobQueueInv, LedgerInv, RunHandler, TypeOK
  <1>. QED
    BY <1>8, <1>9, <1>10 DEF JobQueueInv

-----------------------------------------------------------------------------
(* enqueue_job: no running row changes, and none appears.                  *)
LEMMA EnqueueRows ==
  ASSUME JobQueueInv, NEW id, NEW at \in Time, Enqueue(id, at)
  PROVE  \A j \in JobIds :
            /\ jobs'[j].attempts = jobs[j].attempts
            /\ \/ jobs'[j] = jobs[j]
               \/ jobs[j].status = "absent" /\ jobs'[j] = NewRow(at)
               \/ /\ jobs[j].status = "queued" /\ Scheduled(j)
                  /\ jobs'[j] = Release(jobs[j], "succeeded")
  <1>1. \A j \in JobIds :
            \/ jobs'[j] = jobs[j]
            \/ jobs[j].status = "absent" /\ jobs'[j] = NewRow(at)
            \/ /\ jobs[j].status = "queued" /\ Scheduled(j)
               /\ jobs'[j] = Release(jobs[j], "succeeded")
    BY DEF Enqueue
  <1>2. \A j \in JobIds : jobs[j] \in Row
    BY DEF JobQueueInv, TypeOK
  <1>3. \A j \in JobIds : jobs[j].status = "absent" => jobs[j] = NoRow
    BY DEF JobQueueInv, TableInv
  <1>4. ASSUME NEW j \in JobIds PROVE jobs'[j].attempts = jobs[j].attempts
    <2>1. CASE jobs[j].status = "absent" /\ jobs'[j] = NewRow(at)
      BY <1>3, <2>1 DEF NewRow, NoRow
    <2>2. CASE jobs'[j] = Release(jobs[j], "succeeded")
      BY <1>2, <2>2 DEF Row, Release
    <2>. QED
      BY <1>1, <2>1, <2>2
  <1>. QED
    BY <1>1, <1>4

(* Whoever enqueues, its own claims aside, takes none and drops none.      *)
LEMMA EnqueueInv ==
  ASSUME JobQueueInv, TypeOK', NEW w \in Workers, NEW id, NEW at \in Time,
         Enqueue(id, at), UNCHANGED <<clock, minted, ran, completed>>,
         \A v \in Workers \ {w} : worker'[v] = worker[v],
         Claims(w)' = {}, LocalInv(w)'
  PROVE  JobQueueInv'
  <1>1. \A j \in JobIds :
            /\ jobs'[j].attempts = jobs[j].attempts
            /\ \/ jobs'[j] = jobs[j]
               \/ jobs[j].status = "absent" /\ jobs'[j] = NewRow(at)
               \/ /\ jobs[j].status = "queued" /\ Scheduled(j)
                  /\ jobs'[j] = Release(jobs[j], "succeeded")
    BY EnqueueRows
  <1>2. \A j \in JobIds : jobs[j] \in Row /\ minted[j] \in Nat
    BY DEF JobQueueInv, TypeOK
  <1>3. ASSUME NEW j \in JobIds, jobs[j].status # "running"
        PROVE  jobs'[j].status # "running"
    BY <1>1, <1>2, <1>3 DEF Row, NewRow, NoRow, Release
  <1>4. ASSUME NEW v \in Workers, NEW c \in Claims(v) PROVE Undisturbed(c)
    <2>1. c.job \in JobIds /\ (HoldsLease(c) \/ c.until <= clock)
      BY ClaimsTyped DEF JobQueueInv, ClaimInv, GoodClaim
    <2>2. CASE jobs[c.job].status = "running"
      BY <2>1, <2>2, <1>1 DEF Undisturbed
    <2>3. CASE jobs[c.job].status # "running"
      BY <2>1, <2>3, <1>3 DEF Undisturbed, HoldsLease
    <2>. QED
      BY <2>2, <2>3
  <1>5. ClaimInv' /\ ClaimsDiffer' /\ WorkerInv'
    <2>1. \A j \in JobIds : minted[j] <= minted'[j] /\ ran[j] \subseteq ran'[j]
      BY <1>2
    <2>. QED
      BY <1>4, <2>1, MoveInv
  <1>6. TableInv'
    <2>1. ASSUME NEW j \in JobIds
          PROVE  /\ jobs'[j].attempts = minted[j]
                 /\ jobs'[j].attempts <= MaxAttempts
                 /\ jobs'[j].status = "running" => jobs'[j].lock_token = minted[j]
                 /\ jobs'[j].status = "queued" => jobs'[j].attempts < MaxAttempts
                 /\ jobs'[j].status = "absent" => jobs'[j] = NoRow
      <3>1. /\ jobs[j].attempts = minted[j] /\ jobs[j].attempts <= MaxAttempts
            /\ jobs[j].status = "running" => jobs[j].lock_token = minted[j]
            /\ jobs[j].status = "queued" => jobs[j].attempts < MaxAttempts
            /\ jobs[j].status = "absent" => jobs[j] = NoRow
        BY DEF JobQueueInv, TableInv
      <3>2. CASE jobs'[j] = jobs[j]
        BY <3>1, <3>2
      <3>3. CASE jobs[j].status = "absent" /\ jobs'[j] = NewRow(at)
        BY <3>1, <3>3, JobQueueAssumption DEF NewRow, NoRow
      <3>4. CASE jobs[j].status = "queued" /\ jobs'[j] = Release(jobs[j], "succeeded")
        BY <3>1, <3>4, <1>2 DEF Release, Row
      <3>. QED
        BY <3>2, <3>3, <3>4, <1>1
    <2>. QED
      BY <2>1 DEF TableInv
  <1>7. LedgerInv'
    <2>1. \A j \in JobIds : jobs[j].status = "succeeded" => jobs'[j] = jobs[j]
      BY <1>1
    <2>2. \A j \in JobIds : jobs'[j].status = "succeeded" =>
                jobs[j].status = "succeeded" \/ Scheduled(j)
      BY <1>1, <1>2 DEF Row, NewRow, NoRow, Release
    <2>. QED
      BY <2>1, <2>2 DEF JobQueueInv, LedgerInv
  <1>. QED
    BY <1>5, <1>6, <1>7 DEF JobQueueInv

LEMMA EnqueuePeriodicInv ==
  ASSUME JobQueueInv, TypeOK', NEW w \in Workers, EnqueuePeriodic(w)
  PROVE  JobQueueInv'
  <1>1. PICK type \in worker[w].todo :
          /\ Enqueue(<<type, worker[w].now \div Cadence>>, worker[w].now)
          /\ worker' = [worker EXCEPT ![w].todo = @ \ {type}]
    BY DEF EnqueuePeriodic
  <1>2. worker[w].now \in Time
    BY DEF JobQueueInv, TypeOK, Worker
  <1>3. /\ worker'[w] = [worker[w] EXCEPT !.todo = @ \ {type}]
        /\ \A v \in Workers \ {w} : worker'[v] = worker[v]
    BY <1>1 DEF JobQueueInv, TypeOK
  <1>4. /\ worker'[w].pc = "enqueue" /\ worker'[w].now = worker[w].now
        /\ worker'[w].held = worker[w].held
        /\ worker'[w].current = worker[w].current
    BY <1>3 DEF EnqueuePeriodic, JobQueueInv, TypeOK, Worker
  <1>5. Claims(w)' = {} /\ LocalInv(w)'
    BY <1>4 DEF Claims, LocalInv, JobQueueInv, WorkerInv, EnqueuePeriodic
  <1>. QED
    BY <1>1, <1>2, <1>3, <1>5, EnqueueInv DEF EnqueuePeriodic

LEMMA RunOnceInv ==
  ASSUME JobQueueInv, TypeOK', NEW w \in Workers, RunOnce(w)
  PROVE  JobQueueInv'
  <1>1. PICK type \in JobTypes, key \in ManualKeys :
          /\ Enqueue(<<type, key>>, clock)
          /\ worker' = [worker EXCEPT ![w] =
                [IdleWorker EXCEPT !.pc = "claim_one", !.now = clock,
                    !.current = {[job |-> <<type, key>>, token |-> NoToken,
                                  until |-> 0, due |-> clock]}]]
    BY DEF RunOnce
  <1>2. /\ worker'[w] = [IdleWorker EXCEPT !.pc = "claim_one", !.now = clock,
                    !.current = {[job |-> <<type, key>>, token |-> NoToken,
                                  until |-> 0, due |-> clock]}]
        /\ \A v \in Workers \ {w} : worker'[v] = worker[v]
    BY <1>1 DEF JobQueueInv, TypeOK
  <1>3. clock \in Time /\ clock <= clock
    BY TimeIsNat DEF JobQueueInv, TypeOK
  <1>4. Claims(w)' = {} /\ LocalInv(w)'
    BY <1>2, <1>3 DEF Claims, LocalInv, IdleWorker, RunOnce
  <1>. QED
    BY <1>1, <1>2, <1>3, <1>4, EnqueueInv DEF RunOnce

-----------------------------------------------------------------------------
(* The claims of one transaction: some rows are given up, some leased, all *)
(* of them waiting or with a lease whose time is over.                     *)
Claiming(batch, given, now) ==
    /\ \A j \in batch : Claimable(jobs[j], now)
    /\ \A j \in given : Exhausted(jobs[j], now)
    /\ \A j \in JobIds :
          /\ jobs'[j] = IF j \in given THEN Release(jobs[j], "failed")
                        ELSE IF j \in batch THEN Leased(jobs[j], now, minted[j] + 1)
                        ELSE jobs[j]
          /\ minted'[j] = IF j \in batch THEN minted[j] + 1 ELSE minted[j]
    /\ UNCHANGED <<clock, ran, completed>>

LEMMA ClaimRows ==
  ASSUME JobQueueInv, NEW now \in Time, now <= clock, NEW batch \in SUBSET JobIds,
         NEW given \in SUBSET JobIds,
         Claiming(batch, given, now)
  PROVE  /\ TableInv' /\ LedgerInv'
         /\ \A v \in Workers : \A c \in Claims(v) : Undisturbed(c)
         /\ \A j \in batch : Fresh(NewClaim(j, now))
  <1>. USE DEF Claiming
  <1>1. \A j \in JobIds : jobs[j] \in Row /\ minted[j] \in Nat
    BY DEF JobQueueInv, TypeOK
  <1>2. \A j \in JobIds :
            /\ jobs[j].attempts = minted[j] /\ jobs[j].attempts <= MaxAttempts
            /\ jobs[j].status = "running" => jobs[j].lock_token = minted[j]
            /\ jobs[j].status = "queued" => jobs[j].attempts < MaxAttempts
            /\ jobs[j].status = "absent" => jobs[j] = NoRow
    BY DEF JobQueueInv, TableInv
  <1>3. \A j \in batch \cup given :
            \/ jobs[j].status = "queued"
            \/ jobs[j].status = "running" /\ jobs[j].locked_until <= now
    BY DEF Claimable, Exhausted, LeaseExpired
  <1>4. ASSUME NEW j \in given
        PROVE  /\ jobs'[j].status = "failed" /\ jobs'[j].attempts = jobs[j].attempts
               /\ j \notin batch /\ minted'[j] = minted[j]
    <2>1. j \notin batch
      BY <1>1, JobQueueAssumption DEF Exhausted, Claimable, Row
    <2>. QED
      BY <2>1, <1>1 DEF Release, Row
  <1>5. ASSUME NEW j \in batch
        PROVE  /\ jobs'[j].status = "running" /\ jobs'[j].lock_token = minted[j] + 1
               /\ jobs'[j].attempts = jobs[j].attempts + 1
               /\ jobs[j].attempts < MaxAttempts
               /\ jobs'[j].locked_until = Cap(now + LeaseTime)
               /\ minted'[j] = minted[j] + 1
    <2>1. j \notin given
      BY <1>4
    <2>. QED
      BY <2>1, <1>1 DEF Leased, Row, Claimable
  <1>6. \A j \in JobIds : j \notin batch \cup given =>
            jobs'[j] = jobs[j] /\ minted'[j] = minted[j]
    OBVIOUS
  <1>7. TableInv'
    <2>1. ASSUME NEW j \in JobIds
          PROVE  /\ jobs'[j].attempts = minted'[j]
                 /\ jobs'[j].attempts <= MaxAttempts
                 /\ jobs'[j].status = "running" => jobs'[j].lock_token = minted'[j]
                 /\ jobs'[j].status = "queued" => jobs'[j].attempts < MaxAttempts
                 /\ jobs'[j].status = "absent" => jobs'[j] = NoRow
      <3>1. CASE j \in given
        BY <3>1, <1>2, <1>4
      <3>2. CASE j \in batch
        BY <3>2, <1>1, <1>2, <1>5, JobQueueAssumption DEF Row
      <3>3. CASE j \notin batch \cup given
        BY <3>3, <1>2, <1>6
      <3>. QED
        BY <3>1, <3>2, <3>3
    <2>. QED
      BY <2>1 DEF TableInv
  <1>8. LedgerInv'
    <2>1. ASSUME NEW j \in JobIds
          PROVE  /\ ran[j] \subseteq 1..minted'[j]
                 /\ completed[j] \in {0, 1}
                 /\ completed[j] = 1 => jobs'[j].status = "succeeded" /\ ran[j] # {}
                 /\ jobs'[j].status = "succeeded" /\ completed[j] = 0 => Scheduled(j)
      <3>1. /\ ran[j] \subseteq 1..minted[j]
            /\ completed[j] \in {0, 1}
            /\ completed[j] = 1 => jobs[j].status = "succeeded" /\ ran[j] # {}
            /\ jobs[j].status = "succeeded" /\ completed[j] = 0 => Scheduled(j)
        BY DEF JobQueueInv, LedgerInv
      <3>2. CASE j \in given
        BY <3>1, <3>2, <1>3, <1>4
      <3>3. CASE j \in batch
        BY <3>1, <3>3, <1>1, <1>3, <1>5
      <3>4. CASE j \notin batch \cup given
        BY <3>1, <3>4, <1>6
      <3>. QED
        BY <3>2, <3>3, <3>4
    <2>. QED
      BY <2>1 DEF LedgerInv
  <1>9. ASSUME NEW v \in Workers, NEW c \in Claims(v) PROVE Undisturbed(c)
    <2>1. /\ c.job \in JobIds /\ c.token \in 1..minted[c.job]
          /\ HoldsLease(c) \/ c.until <= clock
          /\ HoldsLease(c) => c.until = jobs[c.job].locked_until
      BY ClaimsTyped DEF JobQueueInv, ClaimInv, GoodClaim
    <2>2. CASE c.job \in batch \cup given
      <3>1. c.until <= clock
        <4>1. /\ c.until \in Nat /\ clock \in Nat /\ now \in Nat
              /\ jobs[c.job].locked_until \in Nat
          BY <1>1, <2>1, ClaimsTyped, TimeIsNat DEF JobQueueInv, TypeOK, Row
        <4>2. HoldsLease(c) => jobs[c.job].locked_until <= now
          BY <2>2, <1>3 DEF HoldsLease
        <4>. QED
          BY <2>1, <4>1, <4>2
      <3>2. ~HoldsLease(c)'
        BY <2>1, <2>2, <1>1, <1>4, <1>5 DEF HoldsLease
      <3>. QED
        BY <3>1, <3>2 DEF Undisturbed
    <2>3. CASE c.job \notin batch \cup given
      BY <2>1, <2>3, <1>6 DEF Undisturbed
    <2>. QED
      BY <2>2, <2>3
  <1>10. \A j \in batch : Fresh(NewClaim(j, now))
    BY <1>5 DEF Fresh, NewClaim
  <1>. QED
    BY <1>7, <1>8, <1>9, <1>10

(* The worker that has claimed the batch holds these new claims and no     *)
(* other.                                                                  *)
LEMMA ClaimStepInv ==
  ASSUME JobQueueInv, TypeOK', NEW w \in Workers, NEW now \in Time, now <= clock,
         NEW batch \in SUBSET JobIds, NEW given \in SUBSET JobIds,
         Claiming(batch, given, now),
         worker' = [worker EXCEPT ![w] =
            [IdleWorker EXCEPT !.pc = "run",
                               !.held = {NewClaim(j, now) : j \in batch}]]
  PROVE  JobQueueInv'
  <1>1. /\ TableInv' /\ LedgerInv'
        /\ \A v \in Workers : \A c \in Claims(v) : Undisturbed(c)
        /\ \A j \in batch : Fresh(NewClaim(j, now))
    BY ClaimRows
  <1>2. /\ worker'[w] = [IdleWorker EXCEPT !.pc = "run",
                            !.held = {NewClaim(j, now) : j \in batch}]
        /\ \A v \in Workers \ {w} : worker'[v] = worker[v]
    BY DEF JobQueueInv, TypeOK
  <1>3. /\ Claims(w)' = {NewClaim(j, now) : j \in batch}
        /\ LocalInv(w)'
    BY <1>2, TimeIsNat DEF Claims, LocalInv, IdleWorker, JobQueueInv, TypeOK, Claiming
  <1>4. \A c, d \in Claims(w)' : c.job = d.job => c = d
    BY <1>3 DEF NewClaim
  <1>5. \A j \in JobIds : minted[j] <= minted'[j] /\ ran[j] \subseteq ran'[j]
    BY DEF JobQueueInv, TypeOK, Claiming
  <1>6. \A c \in Claims(w)' : Fresh(c)
    BY <1>1, <1>3
  <1>7. ClaimInv' /\ ClaimsDiffer' /\ WorkerInv'
    BY <1>1, <1>2, <1>3, <1>4, <1>5, <1>6, MoveInv DEF Claiming
  <1>. QED
    BY <1>1, <1>7 DEF JobQueueInv

LEMMA ClaimDueJobsInv ==
  ASSUME JobQueueInv, TypeOK', NEW w \in Workers, ClaimDueJobs(w)
  PROVE  JobQueueInv'
  <1>. DEFINE now == worker[w].now
              given == {j \in JobIds : Exhausted(jobs[j], now)}
  <1>1. PICK batch \in SUBSET {j \in JobIds : Claimable(jobs[j], now)} :
          /\ jobs' = [j \in JobIds |->
                IF Exhausted(jobs[j], now) THEN Release(jobs[j], "failed")
                ELSE IF j \in batch THEN Leased(jobs[j], now, minted[j] + 1)
                ELSE jobs[j]]
          /\ minted' = [j \in JobIds |->
                IF j \in batch THEN minted[j] + 1 ELSE minted[j]]
          /\ worker' = [worker EXCEPT ![w] =
                [IdleWorker EXCEPT !.pc = "run",
                    !.held = {NewClaim(j, now) : j \in batch}]]
    BY DEF ClaimDueJobs
  <1>2. now \in Time /\ now <= clock
    BY DEF JobQueueInv, TypeOK, Worker, WorkerInv, LocalInv
  <1>3. batch \in SUBSET JobIds /\ given \in SUBSET JobIds
    OBVIOUS
  <1>4. Claiming(batch, given, now)
    BY <1>1 DEF ClaimDueJobs, Claiming
  <1>. HIDE DEF now, given
  <1>. QED
    BY <1>1, <1>2, <1>3, <1>4, ClaimStepInv

LEMMA ClaimJobInv ==
  ASSUME JobQueueInv, TypeOK', NEW w \in Workers, ClaimJob(w)
  PROVE  JobQueueInv'
  <1>. PICK now : now = worker[w].now
    OBVIOUS
  <1>1. PICK target \in worker[w].current :
          IF Claimable(jobs[target.job], now)
          THEN /\ jobs' = [jobs EXCEPT ![target.job] =
                                Leased(@, now, minted[target.job] + 1)]
               /\ minted' = [minted EXCEPT ![target.job] = @ + 1]
               /\ worker' = [worker EXCEPT ![w] =
                     [IdleWorker EXCEPT !.pc = "run",
                                        !.held = {NewClaim(target.job, now)}]]
          ELSE /\ worker' = [worker EXCEPT ![w] = IdleWorker]
               /\ UNCHANGED <<jobs, minted>>
    BY DEF ClaimJob
  <1>2. now \in Time /\ now <= clock /\ target.job \in JobIds
    BY <1>1 DEF JobQueueInv, TypeOK, Worker, WorkerInv, LocalInv, Claim
  <1>3. CASE Claimable(jobs[target.job], now)
    <2>1. PICK batch \in SUBSET JobIds, given \in SUBSET JobIds :
                batch = {target.job} /\ given = {}
      BY <1>2
    <2>2. Claiming(batch, given, now)
      BY <1>1, <1>3, <2>1 DEF JobQueueInv, TypeOK, ClaimJob, Claiming
    <2>3. {NewClaim(j, now) : j \in batch} = {NewClaim(target.job, now)}
      BY <2>1
    <2>4. worker' = [worker EXCEPT ![w] =
                [IdleWorker EXCEPT !.pc = "run",
                    !.held = {NewClaim(j, now) : j \in batch}]]
      BY <1>1, <1>3, <2>3
    <2>. QED
      BY <1>2, <2>2, <2>4, ClaimStepInv
  <1>4. CASE ~Claimable(jobs[target.job], now)
    <2>1. /\ worker'[w] = IdleWorker
          /\ \A v \in Workers \ {w} : worker'[v] = worker[v]
      BY <1>1, <1>4 DEF JobQueueInv, TypeOK
    <2>2. Claims(w)' \subseteq Claims(w) /\ LocalInv(w)'
      BY <2>1, TimeIsNat
      DEF Claims, LocalInv, IdleWorker, JobQueueInv, TypeOK, ClaimJob
    <2>. QED
      BY <1>1, <1>4, <2>1, <2>2, LocalMove DEF ClaimJob
  <1>. QED
    BY <1>3, <1>4

-----------------------------------------------------------------------------
(* A worker that reports drops the claim it reports; its row is released   *)
(* if the claim still has the lease, and only this claim can.              *)
LEMMA ReportClaims ==
  ASSUME JobQueueInv, TypeOK', NEW w \in Workers, NEW c \in worker[w].current,
         worker[w].pc \in {"handled", "failing"},
         \A v \in Workers \ {w} : worker'[v] = worker[v],
         worker'[w].pc = "run", worker'[w].held = worker[w].held,
         worker'[w].current = {}, worker'[w].now = worker[w].now,
         \A j \in JobIds : ~(HoldsLease(c) /\ j = c.job) => jobs'[j] = jobs[j],
         HoldsLease(c) => jobs'[c.job].status # "running",
         UNCHANGED <<clock, minted, ran>>
  PROVE  /\ ClaimInv' /\ ClaimsDiffer' /\ WorkerInv'
         /\ c.job \in JobIds /\ jobs[c.job] \in Row
  <1>1. LocalInv(w)
    BY DEF JobQueueInv, WorkerInv
  <1>2. c \in Claims(w) /\ c.job \in JobIds /\ c \notin Claims(w)'
    BY <1>1, ClaimsTyped DEF Claims, LocalInv, JobQueueInv
  <1>3. Claims(w)' \subseteq Claims(w) /\ LocalInv(w)'
    BY <1>1 DEF Claims, LocalInv
  <1>4. jobs[c.job] \in Row
    BY <1>2 DEF JobQueueInv, TypeOK
  <1>5. ASSUME NEW v \in Workers, NEW d \in Claims(v) \cap Claims(v)'
        PROVE  Undisturbed(d)
    <2>1. d.job \in JobIds
      BY ClaimsTyped DEF JobQueueInv
    <2>2. ~(HoldsLease(c) /\ d.job = c.job) \/ ~HoldsLease(d)
      <3>1. SUFFICES ASSUME HoldsLease(c), HoldsLease(d), d.job = c.job PROVE FALSE
        OBVIOUS
      <3>2. c.token = d.token
        BY <3>1 DEF HoldsLease
      <3>3. v = w /\ d = c
        BY <3>1, <3>2, <1>2 DEF JobQueueInv, ClaimsDiffer
      <3>. QED
        BY <3>3, <1>2
    <2>3. CASE ~(HoldsLease(c) /\ d.job = c.job)
      BY <2>1, <2>3 DEF Undisturbed
    <2>4. CASE HoldsLease(c) /\ d.job = c.job
      <3>1. d.until <= clock
        BY <2>2, <2>4 DEF JobQueueInv, ClaimInv, GoodClaim
      <3>2. ~HoldsLease(d)'
        BY <2>4 DEF HoldsLease
      <3>. QED
        BY <3>1, <3>2 DEF Undisturbed
    <2>. QED
      BY <2>3, <2>4
  <1>6. \A j \in JobIds : minted[j] <= minted'[j] /\ ran[j] \subseteq ran'[j]
    BY DEF JobQueueInv, TypeOK
  <1>7. \A d, e \in Claims(w)' : ~(Fresh(d) /\ Fresh(e))
    BY DEF JobQueueInv, TypeOK, Fresh
  <1>. QED
    BY <1>2, <1>3, <1>4, <1>5, <1>6, <1>7, MoveInv

LEMMA CompleteJobInv ==
  ASSUME JobQueueInv, TypeOK', NEW w \in Workers, CompleteJob(w)
  PROVE  JobQueueInv'
  <1>1. PICK c \in worker[w].current :
          IF HoldsLease(c)
          THEN /\ jobs' = [jobs EXCEPT ![c.job] = Release(@, "succeeded")]
               /\ completed' = [completed EXCEPT ![c.job] = @ + 1]
          ELSE UNCHANGED <<jobs, completed>>
    BY DEF CompleteJob
  <1>2. /\ worker'[w] = [worker[w] EXCEPT !.pc = "run", !.current = {}]
        /\ \A v \in Workers \ {w} : worker'[v] = worker[v]
    BY DEF JobQueueInv, TypeOK, CompleteJob
  <1>3. /\ worker'[w].pc = "run" /\ worker'[w].held = worker[w].held
        /\ worker'[w].current = {} /\ worker'[w].now = worker[w].now
        /\ worker[w].pc \in {"handled", "failing"}
    BY <1>2 DEF JobQueueInv, TypeOK, Worker, CompleteJob
  <1>4. c.job \in JobIds /\ jobs[c.job] \in Row
    BY DEF JobQueueInv, TypeOK, Worker, Claim
  <1>5. /\ \A j \in JobIds : ~(HoldsLease(c) /\ j = c.job) =>
                jobs'[j] = jobs[j] /\ completed'[j] = completed[j]
        /\ HoldsLease(c) => /\ jobs'[c.job] = Release(jobs[c.job], "succeeded")
                            /\ completed'[c.job] = completed[c.job] + 1
    BY <1>1, <1>4 DEF JobQueueInv, TypeOK
  <1>6. HoldsLease(c) => /\ jobs'[c.job].status = "succeeded"
                         /\ jobs'[c.job].attempts = jobs[c.job].attempts
                         /\ jobs[c.job].status = "running"
    BY <1>4, <1>5 DEF Release, Row, HoldsLease
  <1>7. ClaimInv' /\ ClaimsDiffer' /\ WorkerInv'
    <2>1. HoldsLease(c) => jobs'[c.job].status # "running"
      BY <1>6
    <2>2. UNCHANGED <<clock, minted, ran>>
      BY DEF CompleteJob
    <2>. QED
      BY <1>2, <1>3, <1>5, <2>1, <2>2, ReportClaims
  <1>8. TableInv'
    BY <1>5, <1>6 DEF JobQueueInv, TableInv, CompleteJob
  <1>9. LedgerInv'
    <2>1. c.token \in ran[c.job]
      BY DEF JobQueueInv, WorkerInv, LocalInv, CompleteJob
    <2>2. HoldsLease(c) => completed[c.job] = 0
      BY <1>4, <1>6 DEF JobQueueInv, LedgerInv
    <2>. QED
      BY <1>4, <1>5, <1>6, <2>1, <2>2 DEF JobQueueInv, LedgerInv, CompleteJob
  <1>. QED
    BY <1>7, <1>8, <1>9 DEF JobQueueInv

(* fail_job decides with the attempts it read in a statement of its own:   *)
(* as long as it has the lease, that is still the count in the row.        *)
LEMMA FailJobInv ==
  ASSUME JobQueueInv, TypeOK', NEW w \in Workers, FailJob(w)
  PROVE  JobQueueInv'
  <1>1. PICK c \in worker[w].current :
          jobs' = IF HoldsLease(c)
                  THEN [jobs EXCEPT ![c.job] = Failed(@, worker[w].seen, clock)]
                  ELSE jobs
    BY DEF FailJob
  <1>2. /\ worker'[w] = [worker[w] EXCEPT !.pc = "run", !.current = {}, !.seen = 0]
        /\ \A v \in Workers \ {w} : worker'[v] = worker[v]
    BY DEF JobQueueInv, TypeOK, FailJob
  <1>3. /\ worker'[w].pc = "run" /\ worker'[w].held = worker[w].held
        /\ worker'[w].current = {} /\ worker'[w].now = worker[w].now
        /\ worker[w].pc \in {"handled", "failing"}
    BY <1>2 DEF JobQueueInv, TypeOK, Worker, FailJob
  <1>4. c.job \in JobIds /\ jobs[c.job] \in Row
    BY DEF JobQueueInv, TypeOK, Worker, Claim
  <1>5. /\ \A j \in JobIds : ~(HoldsLease(c) /\ j = c.job) => jobs'[j] = jobs[j]
        /\ HoldsLease(c) =>
              jobs'[c.job] = Failed(jobs[c.job], worker[w].seen, clock)
    BY <1>1, <1>4 DEF JobQueueInv, TypeOK
  <1>6. HoldsLease(c) => worker[w].seen = jobs[c.job].attempts
    BY DEF JobQueueInv, WorkerInv, LocalInv, FailJob
  <1>7. HoldsLease(c) => /\ jobs'[c.job].status \in {"queued", "failed"}
                         /\ jobs'[c.job].attempts = jobs[c.job].attempts
                         /\ jobs'[c.job].status = "queued" =>
                               jobs[c.job].attempts < MaxAttempts
                         /\ jobs[c.job].status = "running"
    <2>1. SUFFICES ASSUME HoldsLease(c)
          PROVE  /\ jobs'[c.job].status \in {"queued", "failed"}
                 /\ jobs'[c.job].attempts = jobs[c.job].attempts
                 /\ jobs'[c.job].status = "queued" =>
                       jobs[c.job].attempts < MaxAttempts
                 /\ jobs[c.job].status = "running"
      OBVIOUS
    <2>2. jobs'[c.job] = Failed(jobs[c.job], jobs[c.job].attempts, clock)
      BY <1>5, <1>6, <2>1
    <2>. QED
      BY <1>4, <2>1, <2>2 DEF Failed, Release, Row, HoldsLease
  <1>8. ClaimInv' /\ ClaimsDiffer' /\ WorkerInv'
    <2>1. HoldsLease(c) => jobs'[c.job].status # "running"
      BY <1>7
    <2>2. UNCHANGED <<clock, minted, ran>>
      BY DEF FailJob
    <2>. QED
      BY <1>2, <1>3, <1>5, <2>1, <2>2, ReportClaims
  <1>9. TableInv'
    BY <1>5, <1>7 DEF JobQueueInv, TableInv, FailJob
  <1>10. LedgerInv'
    BY <1>4, <1>5, <1>7 DEF JobQueueInv, LedgerInv, FailJob
  <1>. QED
    BY <1>8, <1>9, <1>10 DEF JobQueueInv

-----------------------------------------------------------------------------
(* The invariant holds *)

LEMMA InitInv == Init => JobQueueInv
  <1>. SUFFICES ASSUME Init PROVE JobQueueInv
    OBVIOUS
  <1>1. TypeOK
    BY InitTypeOK
  <1>2. \A w \in Workers : Claims(w) = {}
    BY DEF Init, IdleWorker, Claims
  <1>3. ClaimInv /\ ClaimsDiffer
    BY <1>2 DEF ClaimInv, ClaimsDiffer
  <1>4. TableInv
    BY JobQueueAssumption DEF Init, TableInv, NoRow
  <1>5. WorkerInv
    BY DEF Init, WorkerInv, LocalInv, IdleWorker
  <1>6. LedgerInv
    BY DEF Init, LedgerInv, NoRow
  <1>. QED
    BY <1>1, <1>3, <1>4, <1>5, <1>6 DEF JobQueueInv

LEMMA NextInv == JobQueueInv /\ [Next]_vars => JobQueueInv'
  <1>. SUFFICES ASSUME JobQueueInv, [Next]_vars PROVE JobQueueInv'
    OBVIOUS
  <1>1. TypeOK'
    BY NextTypeOK DEF JobQueueInv
  <1>2. CASE Tick
    BY <1>1, <1>2, ClockInv
  <1>3. ASSUME NEW w \in Workers, TickStep(w) \/ RunOnce(w) \/ Crash(w)
        PROVE  JobQueueInv'
    BY <1>1, <1>3, LocalActions, EnqueuePeriodicInv, RunOnceInv, ClaimDueJobsInv,
       ClaimJobInv, RunHandlerInv, CompleteJobInv, FailJobInv DEF TickStep
  <1>4. CASE UNCHANGED vars
    BY <1>1, <1>4
    DEF vars, JobQueueInv, TableInv, ClaimInv, GoodClaim, ClaimsDiffer, WorkerInv,
        LocalInv, LedgerInv, HoldsLease, Claims
  <1>. QED
    BY <1>2, <1>3, <1>4 DEF Next

LEMMA Invariance == Spec => []JobQueueInv
  BY InitInv, NextInv, PTL DEF Spec

-----------------------------------------------------------------------------
(* Safety *)

(* The variables keep the types of TypeOK, for every number of workers,    *)
(* job types, attempts and crashes.                                        *)
THEOREM TypeCorrect == Spec => []TypeOK
  BY Invariance, PTL DEF JobQueueInv

(* Nobody takes a live lease from the worker that claimed it with          *)
(* claim_due_jobs or claim_job.                                            *)
THEOREM LeasesAreExclusive == Spec => [](LiveLeaseIsKept /\ OneOwner)
  <1>1. JobQueueInv => LiveLeaseIsKept
    BY DEF JobQueueInv, ClaimInv, GoodClaim, LiveLeaseIsKept
  <1>2. JobQueueInv => OneOwner
    BY DEF JobQueueInv, ClaimsDiffer, OneOwner, HoldsLease
  <1>. QED
    BY <1>1, <1>2, Invariance, PTL

(* The completion events of _run_job agree with the table.                 *)
THEOREM LedgerIsTruthful == Spec => []LedgerMatchesTable
  <1>1. JobQueueInv => LedgerMatchesTable
    BY DEF JobQueueInv, LedgerInv, LedgerMatchesTable
  <1>. QED
    BY <1>1, Invariance, PTL

(* fail_job and claim_due_jobs together bound the runs of a handler.       *)
THEOREM RetriesBounded == Spec => []RetriesAreBounded
  <1>1. JobQueueInv => RetriesAreBounded
    BY DEF JobQueueInv, TableInv, LedgerInv, RetriesAreBounded
  <1>. QED
    BY <1>1, Invariance, PTL

-----------------------------------------------------------------------------
(* Refinement *)

(* What a step does to one job: nothing that its life shows, or one of the *)
(* steps of JobLifecycle, and then the job was not settled yet.            *)
LifeStep(j) ==
    \/ /\ LifeOf(j)' = LifeOf(j)
       /\ Settled(jobs[j]) => jobs'[j] = jobs[j]
    \/ /\ ~Settled(jobs[j])
       /\ \/ Lifecycle!Submitted(LifeOf(j), LifeOf(j)')
          \/ Lifecycle!Attempted(LifeOf(j), LifeOf(j)')
          \/ Lifecycle!Finished(LifeOf(j), LifeOf(j)')
          \/ Lifecycle!Retired(j, LifeOf(j), LifeOf(j)')
          \/ Lifecycle!GivenUp(LifeOf(j), LifeOf(j)')

LifeType == [phase : {"absent", "open", "succeeded", "failed"},
             attempts : Nat, events : Nat]

LEMMA SameRow ==
  ASSUME NEW j \in JobIds, jobs'[j] = jobs[j], completed'[j] = completed[j]
  PROVE  LifeStep(j)
  BY DEF LifeStep, LifeOf

LEMMA EnqueueLife ==
  ASSUME JobQueueInv, NEW id, NEW at \in Time, Enqueue(id, at),
         UNCHANGED completed, NEW j \in JobIds
  PROVE  LifeStep(j)
  <1>1. jobs[j] \in Row /\ completed[j] \in {0, 1}
    BY DEF JobQueueInv, TypeOK, LedgerInv
  <1>2. CASE jobs'[j] = jobs[j]
    BY <1>2, SameRow
  <1>3. CASE jobs[j].status = "absent" /\ jobs'[j] = NewRow(at)
    <2>1. /\ completed[j] = 0 /\ completed'[j] = 0
          /\ jobs[j].attempts = 0 /\ jobs'[j].attempts = 0
          /\ jobs'[j].status = "queued"
      BY <1>1, <1>3 DEF JobQueueInv, TableInv, LedgerInv, NewRow, NoRow
    <2>2. LifeOf(j) = Lifecycle!Unborn
      BY <1>3, <2>1 DEF LifeOf, Lifecycle!Unborn
    <2>3. LifeOf(j)' = [Lifecycle!Unborn EXCEPT !.phase = "open"]
      BY <1>3, <2>1 DEF LifeOf, Lifecycle!Unborn
    <2>. QED
      BY <1>3, <2>2, <2>3 DEF LifeStep, Settled, Lifecycle!Submitted
  <1>4. CASE /\ jobs[j].status = "queued" /\ Scheduled(j)
             /\ jobs'[j] = Release(jobs[j], "succeeded")
    <2>1. LifeOf(j)' = [LifeOf(j) EXCEPT !.phase = "succeeded"]
      BY <1>1, <1>4 DEF LifeOf, Release, Row
    <2>. QED
      BY <1>4, <2>1 DEF LifeStep, LifeOf, Settled, Lifecycle!Retired
  <1>. QED
    BY <1>2, <1>3, <1>4, EnqueueRows

LEMMA ClaimLife ==
  ASSUME JobQueueInv, NEW now \in Time, NEW batch \in SUBSET JobIds,
         NEW given \in SUBSET JobIds, Claiming(batch, given, now), NEW j \in JobIds
  PROVE  LifeStep(j)
  <1>1. /\ jobs[j] \in Row /\ minted[j] \in Nat
        /\ jobs[j].attempts <= MaxAttempts
        /\ completed' = completed
    BY DEF JobQueueInv, TypeOK, TableInv, Claiming
  <1>2. CASE j \in given
    <2>1. jobs'[j] = Release(jobs[j], "failed") /\ Exhausted(jobs[j], now)
      BY <1>2 DEF Claiming
    <2>2. jobs[j].attempts = MaxAttempts /\ jobs[j].status \in {"queued", "running"}
      BY <1>1, <2>1, JobQueueAssumption DEF Exhausted, LeaseExpired, Row
    <2>3. LifeOf(j)' = [LifeOf(j) EXCEPT !.phase = "failed"]
      BY <1>1, <2>1 DEF LifeOf, Release, Row
    <2>. QED
      BY <2>2, <2>3 DEF LifeStep, LifeOf, Settled, Lifecycle!GivenUp
  <1>3. CASE j \in batch /\ j \notin given
    <2>1. /\ jobs'[j] = Leased(jobs[j], now, minted[j] + 1)
          /\ Claimable(jobs[j], now)
      BY <1>3 DEF Claiming
    <2>2. jobs[j].attempts < MaxAttempts /\ jobs[j].status \in {"queued", "running"}
      BY <2>1 DEF Claimable, LeaseExpired
    <2>3. LifeOf(j)' = [LifeOf(j) EXCEPT !.attempts = @ + 1]
      BY <1>1, <2>1, <2>2 DEF LifeOf, Leased, Row
    <2>. QED
      BY <2>2, <2>3 DEF LifeStep, LifeOf, Settled, Lifecycle!Attempted
  <1>4. CASE j \notin batch \cup given
    BY <1>1, <1>4, SameRow DEF Claiming
  <1>. QED
    BY <1>2, <1>3, <1>4

LEMMA CompleteLife ==
  ASSUME JobQueueInv, NEW w \in Workers, CompleteJob(w), NEW j \in JobIds
  PROVE  LifeStep(j)
  <1>1. PICK c \in worker[w].current :
          IF HoldsLease(c)
          THEN /\ jobs' = [jobs EXCEPT ![c.job] = Release(@, "succeeded")]
               /\ completed' = [completed EXCEPT ![c.job] = @ + 1]
          ELSE UNCHANGED <<jobs, completed>>
    BY DEF CompleteJob
  <1>2. /\ jobs[j] \in Row /\ completed[j] \in {0, 1}
        /\ jobs \in [JobIds -> Row] /\ completed \in [JobIds -> Nat]
    BY DEF JobQueueInv, TypeOK, LedgerInv
  <1>3. CASE HoldsLease(c) /\ j = c.job
    <2>1. /\ jobs'[j] = Release(jobs[j], "succeeded")
          /\ completed'[j] = completed[j] + 1
          /\ jobs[j].status = "running"
      BY <1>1, <1>2, <1>3 DEF HoldsLease
    <2>2. LifeOf(j)' = [LifeOf(j) EXCEPT !.phase = "succeeded", !.events = 1]
      <3>1. /\ jobs'[j].status = "succeeded"
            /\ jobs'[j].attempts = jobs[j].attempts
        BY <1>2, <2>1 DEF Release, Row
      <3>2. completed[j] # 1
        BY <2>1 DEF JobQueueInv, LedgerInv
      <3>3. completed'[j] = 1
        BY <1>2, <2>1, <3>2
      <3>4. /\ LifeOf(j)' \in LifeType /\ LifeOf(j) \in LifeType
            /\ LifeOf(j)'.phase = "succeeded" /\ LifeOf(j)'.events = 1
            /\ LifeOf(j)'.attempts = LifeOf(j).attempts
        BY <3>1, <3>3, <2>1, <1>2 DEF LifeOf, LifeType, Row
      <3>. QED
        BY <3>4 DEF LifeType
    <2>3. jobs[j].attempts > 0
      <3>1. c \in Claims(w)
        BY DEF CompleteJob, Claims
      <3>2. c.token \in 1..minted[j]
        BY <1>3, <3>1 DEF JobQueueInv, ClaimInv, GoodClaim
      <3>3. jobs[j].attempts = minted[j] /\ minted[j] \in Nat
        BY DEF JobQueueInv, TableInv, TypeOK
      <3>. QED
        BY <3>2, <3>3
    <2>. QED
      BY <2>1, <2>2, <2>3 DEF LifeStep, LifeOf, Settled, Lifecycle!Finished
  <1>4. CASE ~(HoldsLease(c) /\ j = c.job)
    BY <1>1, <1>2, <1>4, SameRow
  <1>. QED
    BY <1>3, <1>4

LEMMA FailLife ==
  ASSUME JobQueueInv, NEW w \in Workers, FailJob(w), NEW j \in JobIds
  PROVE  LifeStep(j)
  <1>1. PICK c \in worker[w].current :
          jobs' = IF HoldsLease(c)
                  THEN [jobs EXCEPT ![c.job] = Failed(@, worker[w].seen, clock)]
                  ELSE jobs
    BY DEF FailJob
  <1>2. /\ jobs[j] \in Row /\ jobs \in [JobIds -> Row] /\ completed' = completed
        /\ jobs[j].attempts <= MaxAttempts
    BY DEF JobQueueInv, TypeOK, TableInv, FailJob
  <1>3. CASE HoldsLease(c) /\ j = c.job
    <2>1. /\ jobs'[j] = Failed(jobs[j], worker[w].seen, clock)
          /\ worker[w].seen = jobs[j].attempts
          /\ jobs[j].status = "running"
      BY <1>1, <1>2, <1>3
      DEF HoldsLease, JobQueueInv, WorkerInv, LocalInv, FailJob
    <2>2. CASE jobs[j].attempts < MaxAttempts
      BY <1>2, <2>1, <2>2 DEF Failed, Release, Row, LifeStep, LifeOf, Settled
    <2>3. CASE ~(jobs[j].attempts < MaxAttempts)
      <3>1. jobs[j].attempts = MaxAttempts
        BY <1>2, <2>3, JobQueueAssumption DEF Row
      <3>2. LifeOf(j)' = [LifeOf(j) EXCEPT !.phase = "failed"]
        BY <1>2, <2>1, <2>3 DEF Failed, Release, Row, LifeOf
      <3>. QED
        BY <2>1, <3>1, <3>2 DEF LifeStep, LifeOf, Settled, Lifecycle!GivenUp
    <2>. QED
      BY <2>2, <2>3
  <1>4. CASE ~(HoldsLease(c) /\ j = c.job)
    BY <1>1, <1>2, <1>4, SameRow
  <1>. QED
    BY <1>3, <1>4

LEMMA NextLife ==
  ASSUME JobQueueInv, [Next]_vars, NEW j \in JobIds
  PROVE  LifeStep(j)
  <1>1. CASE Tick \/ UNCHANGED vars
    BY <1>1, SameRow DEF Tick, vars
  <1>2. ASSUME NEW w \in Workers, EnqueuePeriodic(w) PROVE LifeStep(j)
    BY <1>2, EnqueueLife DEF EnqueuePeriodic, JobQueueInv, TypeOK, Worker
  <1>3. ASSUME NEW w \in Workers, RunOnce(w) PROVE LifeStep(j)
    BY <1>3, EnqueueLife DEF RunOnce, JobQueueInv, TypeOK
  <1>4. ASSUME NEW w \in Workers, ClaimDueJobs(w) PROVE LifeStep(j)
    <2>1. PICK now : now = worker[w].now
      OBVIOUS
    <2>2. PICK batch \in SUBSET {k \in JobIds : Claimable(jobs[k], now)} :
            /\ jobs' = [k \in JobIds |->
                  IF Exhausted(jobs[k], now) THEN Release(jobs[k], "failed")
                  ELSE IF k \in batch THEN Leased(jobs[k], now, minted[k] + 1)
                  ELSE jobs[k]]
            /\ minted' = [k \in JobIds |->
                  IF k \in batch THEN minted[k] + 1 ELSE minted[k]]
      BY <1>4, <2>1 DEF ClaimDueJobs
    <2>3. PICK given \in SUBSET JobIds :
            given = {k \in JobIds : Exhausted(jobs[k], now)}
      OBVIOUS
    <2>4. Claiming(batch, given, now)
      BY <1>4, <2>2, <2>3 DEF ClaimDueJobs, Claiming
    <2>5. now \in Time /\ batch \in SUBSET JobIds
      BY <2>1 DEF JobQueueInv, TypeOK, Worker
    <2>. QED
      BY <2>4, <2>5, ClaimLife
  <1>5. ASSUME NEW w \in Workers, ClaimJob(w) PROVE LifeStep(j)
    <2>1. PICK target \in worker[w].current :
            \/ /\ Claimable(jobs[target.job], worker[w].now)
               /\ jobs' = [jobs EXCEPT ![target.job] =
                     Leased(@, worker[w].now, minted[target.job] + 1)]
               /\ minted' = [minted EXCEPT ![target.job] = @ + 1]
            \/ UNCHANGED <<jobs, minted>>
      BY <1>5 DEF ClaimJob
    <2>2. target.job \in JobIds /\ worker[w].now \in Time
      BY <2>1 DEF JobQueueInv, TypeOK, Worker, Claim
    <2>3. CASE UNCHANGED <<jobs, minted>>
      BY <1>5, <2>3, SameRow DEF ClaimJob
    <2>4. CASE ~UNCHANGED <<jobs, minted>>
      <3>1. PICK batch \in SUBSET JobIds, given \in SUBSET JobIds :
                  batch = {target.job} /\ given = {}
        BY <2>2
      <3>2. Claiming(batch, given, worker[w].now)
        BY <1>5, <2>1, <2>4, <3>1
        DEF JobQueueInv, TypeOK, ClaimJob, Claiming
      <3>. QED
        BY <2>2, <3>2, ClaimLife
    <2>. QED
      BY <2>3, <2>4
  <1>6. ASSUME NEW w \in Workers,
               \/ BeginTick(w) \/ RunHandler(w) \/ HandlerRaises(w)
               \/ CompletionRaises(w) \/ ReadAttempts(w) \/ EndTick(w) \/ Crash(w)
        PROVE  LifeStep(j)
    BY <1>6, SameRow DEF BeginTick, RunHandler, HandlerRaises, CompletionRaises,
       ReadAttempts, EndTick, Crash
  <1>7. ASSUME NEW w \in Workers, CompleteJob(w) \/ FailJob(w) PROVE LifeStep(j)
    BY <1>7, CompleteLife, FailLife
  <1>. QED
    BY <1>1, <1>2, <1>3, <1>4, <1>5, <1>6, <1>7 DEF Next, TickStep

(* A settled job is never reopened, by any statement of the job table.     *)
THEOREM SettledJobsStay == Spec => SettledIsFinal
  <1>1. ASSUME JobQueueInv, [Next]_vars
        PROVE  [\A j \in JobIds : Settled(jobs[j]) => jobs'[j] = jobs[j]]_vars
    BY <1>1, NextLife DEF LifeStep
  <1>. QED
    BY <1>1, Invariance, PTL DEF Spec, SettledIsFinal

(* The job table with its workers, leases, crashes and clocks implements   *)
(* the life cycle of JobLifecycle.                                         *)
THEOREM Refinement == Spec => ImplementsLifecycle
  <1>. DEFINE life == [j \in JobIds |-> LifeOf(j)]
  <1>1. Init => Lifecycle!Init
    BY DEF Init, Lifecycle!Init, Lifecycle!Unborn, LifeOf, NoRow
  <1>2. ASSUME JobQueueInv, JobQueueInv', [Next]_vars
        PROVE  [Lifecycle!Next]_life
    <2>1. \A j \in JobIds : LifeStep(j)
      BY <1>2, NextLife
    <2>2. life' \in [JobIds -> Lifecycle!Life]
      <3>1. \A j \in JobIds : /\ jobs'[j] \in Row /\ completed'[j] \in {0, 1}
                             /\ jobs'[j].attempts <= MaxAttempts
        BY <1>2 DEF JobQueueInv, TypeOK, TableInv, LedgerInv
      <3>2. \A j \in JobIds : LifeOf(j)' \in Lifecycle!Life
        BY <3>1, JobQueueAssumption DEF LifeOf, Row, Lifecycle!Life
      <3>. QED
        BY <3>2
    <2>3. \A j \in JobIds :
            \/ life'[j] = life[j]
            \/ Lifecycle!Submitted(life[j], life'[j])
            \/ Lifecycle!Attempted(life[j], life'[j])
            \/ Lifecycle!Finished(life[j], life'[j])
            \/ Lifecycle!Retired(j, life[j], life'[j])
            \/ Lifecycle!GivenUp(life[j], life'[j])
      BY <2>1 DEF LifeStep
    <2>4. Lifecycle!Next
      BY <2>2, <2>3 DEF Lifecycle!Next
    <2>. QED
      BY <2>4
  <1>. QED
    BY <1>1, <1>2, Invariance, PTL DEF Spec, ImplementsLifecycle, Lifecycle!Spec

=============================================================================
