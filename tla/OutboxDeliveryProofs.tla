------------------------ MODULE OutboxDeliveryProofs ------------------------
(***************************************************************************)
(* Proofs about OutboxDelivery, for every number of messages, devices and  *)
(* workers, every channel, lease, back-off and attempt limit.              *)
(*                                                                         *)
(* What a worker remembers of a claimed row (its progress and its lease)   *)
(* and what the table says meanwhile are tied together by ClaimSound: the  *)
(* progress of the claim is still stored or was lost, and while the lease  *)
(* is the worker's the table knows nothing the claim does not.             *)
(* WorkerSound says what the fan-out may assume of it: whoever is still to *)
(* be sent the message is not known to have it.  RowSound keeps the        *)
(* attempts and what a receipt that is under way will write back.          *)
(***************************************************************************)
EXTENDS OutboxDelivery, TLAPS

RowSound(m) ==
    LET row == outbox[m]
    IN  /\ row.status = "absent" => row.attempts = 0
        /\ row.attempts <= MaxAttempts
        /\ row.status \in {"queued", "retrying", "delivering"} => row.attempts < MaxAttempts
        /\ row.status = "failed" => row.attempts = MaxAttempts \/ row.reached = {}
        /\ row.reached \subseteq got[m]
        /\ \A seen \in reading[m] : seen \subseteq row.reached
        /\ channel # "fcm" => got[m] \subseteq lost[m]

ClaimSound(w, c) ==
    LET row == outbox[c.message]
    IN  /\ c.reached \subseteq got[c.message]
        /\ c.reached \subseteq row.reached \cup lost[c.message]
        /\ HoldsLease(w, c.message) => row.reached \subseteq c.reached /\ row.until = c.until
        /\ HoldsLease(w, c.message) \/ c.until <= clock \/ row.status = "answered"

WorkerSound(w) ==
    LET me == worker[w]
    IN  /\ me.pc = "idle" => me.batch = {}
        /\ me.pc \in {"idle", "next"} => me.current = {}
        /\ \A c, d \in me.current : c = d
        /\ \A c, d \in Claims(w) : c.message = d.message => c = d
        /\ me.batch \cap me.current = {}
        /\ me.pc = "report" => me.outcome # "none"
        /\ me.pc = "fanout" => channel = "fcm" /\ me.todo \cap me.known = {}
        /\ \A c \in me.current :
              /\ me.known \subseteq got[c.message]
              /\ me.pc = "send" => me.known \subseteq c.reached
              /\ (me.pc = "send" /\ channel = "fcm") \/ me.pc = "fanout"
                    => c.reached \subseteq me.known
              /\ me.outcome = "gone" => me.known = {} /\ c.reached = {}

RowInv == \A m \in Messages : RowSound(m)
ClaimInv == \A w \in Workers : \A c \in Claims(w) : ClaimSound(w, c)
WorkerInv == \A w \in Workers : WorkerSound(w)

OutboxInv == TypeOK /\ RowInv /\ ClaimInv /\ WorkerInv /\ AcceptedIsAccounted
-----------------------------------------------------------------------------
(* The values the code writes *)

LEMMA CapTime == \A t \in Nat : Cap(t) \in Time
  BY OutboxAssumption DEF Cap, Time

LEMMA TimeIsNat == Time \subseteq Nat /\ 0 \in Time
  BY OutboxAssumption DEF Time

LEMMA NoRowType == NoRow \in Row
  BY TimeIsNat DEF Row, NoRow

LEMMA IdleWorkerType == IdleWorker \in Worker
  BY TimeIsNat DEF Worker, IdleWorker, Outcomes

LEMMA ReleasedType ==
  ASSUME NEW row \in Row, NEW status \in {"queued", "retrying", "delivered", "failed"},
         NEW next \in Nat, NEW tried \in {0, 1}, NEW ids \in SUBSET Devices
  PROVE  Released(row, status, next, tried, ids) \in Row
  <1>1. Cap(next) \in Time
    BY CapTime
  <1>2. row.attempts + tried \in Nat /\ row.reached \cup ids \in SUBSET Devices
    BY DEF Row
  <1>. QED
    BY <1>1, <1>2, TimeIsNat DEF Row, Released

(* What update_outbox_delivery makes of a row, whatever the outcome.       *)
Settles(old, new, outcome, ids) ==
    /\ new \in Row
    /\ new.token = NoToken /\ new.reached = old.reached \cup ids
    /\ \/ new.status = "queued" /\ new.attempts = old.attempts
       \/ /\ new.status = "delivered" /\ outcome = "ok"
          /\ new.attempts = old.attempts + 1
       \/ /\ new.status = "failed" /\ new.attempts = old.attempts + 1
          /\ outcome = "gone" \/ new.attempts = MaxAttempts
       \/ /\ new.status = "retrying" /\ new.attempts = old.attempts + 1
          /\ new.attempts < MaxAttempts

LEMMA ReportedFacts ==
  ASSUME NEW row \in Row, NEW outcome \in Outcomes, NEW ids \in SUBSET Devices,
         NEW now \in Time, row.attempts < MaxAttempts, outcome # "none"
  PROVE  Settles(row, Reported(row, outcome, ids, now), outcome, ids)
  <1>. USE DEF Settles
  <1>. DEFINE new == Reported(row, outcome, ids, now)
  <1>1. row.attempts \in Nat /\ now \in Nat /\ MaxAttempts \in Nat /\ SkipDelay \in Nat
    BY TimeIsNat, OutboxAssumption DEF Row
  <1>2. ASSUME NEW status \in {"queued", "retrying", "delivered", "failed"},
               NEW next \in Nat, NEW tried \in {0, 1},
               new = Released(row, status, next, tried, ids)
        PROVE  /\ new \in Row /\ new.token = NoToken /\ new.reached = row.reached \cup ids
               /\ new.status = status /\ new.attempts = row.attempts + tried
    BY <1>2, ReleasedType DEF Released
  <1>3. CASE outcome = "ok"
    <2>1. new = Released(row, "delivered", 0, 1, ids)
      BY <1>3 DEF Reported, GivesUp
    <2>. QED
      BY <1>2, <1>3, <2>1
  <1>4. CASE outcome = "skip"
    <2>1. new = Released(row, "queued", now + SkipDelay, 0, ids)
      BY <1>4 DEF Reported, GivesUp
    <2>2. now + SkipDelay \in Nat /\ row.attempts + 0 = row.attempts
      BY <1>1
    <2>. QED
      BY <1>2, <2>1, <2>2
  <1>5. CASE GivesUp(row, outcome)
    <2>1. new = Released(row, "failed", 0, 1, ids)
      BY <1>5 DEF Reported, GivesUp
    <2>2. outcome = "gone" \/ row.attempts + 1 = MaxAttempts
      BY <1>1, <1>5 DEF GivesUp
    <2>. QED
      BY <1>2, <2>1, <2>2
  <1>6. CASE outcome = "fail" /\ ~GivesUp(row, outcome)
    <2>1. new = Released(row, "retrying", now + RetryDelay(row.attempts + 1), 1, ids)
      BY <1>6 DEF Reported
    <2>2. row.attempts + 1 \in 0..MaxAttempts /\ row.attempts + 1 < MaxAttempts
      BY <1>1, <1>6 DEF GivesUp
    <2>3. now + RetryDelay(row.attempts + 1) \in Nat
      BY <1>1, <2>2, OutboxAssumption
    <2>. QED
      BY <1>2, <2>1, <2>2, <2>3
  <1>. QED
    BY <1>3, <1>4, <1>5, <1>6 DEF Outcomes, GivesUp

LEMMA VerdictType ==
  ASSUME NEW known, NEW retry \in {0, 1}, NEW removed
  PROVE  /\ Verdict(known, retry, removed) \in {"ok", "fail", "gone"}
         /\ Verdict(known, retry, removed) = "gone" => known = {}
  <1>1. CASE retry = 1
    BY <1>1 DEF Verdict
  <1>2. CASE retry = 0 /\ known # {}
    BY <1>2 DEF Verdict
  <1>3. CASE retry = 0 /\ known = {} /\ removed = 1
    BY <1>3 DEF Verdict
  <1>4. CASE retry = 0 /\ known = {} /\ removed # 1
    BY <1>4 DEF Verdict
  <1>. QED
    BY <1>1, <1>2, <1>3, <1>4
-----------------------------------------------------------------------------
(* Type correctness *)

LEMMA ClaimsTyped ==
  ASSUME TypeOK, NEW w \in Workers
  PROVE  /\ worker[w] \in Worker
         /\ Claims(w) \subseteq Claim
         /\ worker[w].current \subseteq Claim /\ worker[w].batch \subseteq Claim
         /\ worker[w].known \subseteq Devices /\ worker[w].todo \subseteq Devices
         /\ \A c \in Claims(w) : /\ c.message \in Messages /\ c.reached \subseteq Devices
                                /\ outbox[c.message] \in Row
         /\ \A m \in Messages : Known(w, m) \subseteq Devices
  <1>1. worker[w] \in Worker
    BY DEF TypeOK
  <1>2. /\ worker[w].current \subseteq Claim /\ worker[w].batch \subseteq Claim
        /\ worker[w].known \subseteq Devices /\ worker[w].todo \subseteq Devices
    BY <1>1 DEF Worker
  <1>3. \A c \in Claim : c.message \in Messages /\ c.reached \subseteq Devices
    BY DEF Claim
  <1>4. \A m \in Messages : outbox[m] \in Row
    BY DEF TypeOK
  <1>. QED
    BY <1>1, <1>2, <1>3, <1>4 DEF Claims, Known

LEMMA ForgetType ==
  ASSUME TypeOK, NEW w \in Workers
  PROVE  Forget(w) \in [Messages -> SUBSET Devices]
  BY ClaimsTyped DEF Forget, TypeOK

LEMMA AfterPushType ==
  ASSUME TypeOK, NEW w \in Workers, NEW d, NEW delivered \in SUBSET Devices,
         NEW retry \in {0, 1}, NEW removed \in {0, 1},
         AfterPush(w, d, delivered, retry, removed)
  PROVE  worker' \in [Workers -> Worker]
  <1>. DEFINE todo == worker[w].todo \ {d}
              known == worker[w].known \cup delivered
              outcome == IF todo = {} THEN Verdict(known, retry, removed) ELSE "none"
              pc == IF todo = {} THEN "report" ELSE "fanout"
  <1>1. outcome \in Outcomes
    BY VerdictType DEF Outcomes
  <1>2. /\ todo \in SUBSET Devices /\ known \in SUBSET Devices
        /\ pc \in {"report", "fanout"}
    BY ClaimsTyped
  <1>3. worker' = [worker EXCEPT ![w] = [worker[w] EXCEPT !.todo = todo, !.known = known,
            !.retry = retry, !.removed = removed, !.pc = pc, !.outcome = outcome]]
    BY DEF AfterPush
  <1>. HIDE DEF todo, known, outcome, pc
  <1>4. [worker[w] EXCEPT !.todo = todo, !.known = known, !.retry = retry,
            !.removed = removed, !.pc = pc, !.outcome = outcome] \in Worker
    BY <1>1, <1>2, ClaimsTyped DEF Worker
  <1>. QED
    BY <1>3, <1>4 DEF TypeOK

Places == {"idle", "next", "send", "fanout", "report"}

LEMMA MovedType ==
  ASSUME NEW v \in Worker, NEW pc \in Places, NEW outcome \in Outcomes,
         NEW batch \in SUBSET Claim, NEW current \in SUBSET Claim,
         NEW known \in SUBSET Devices, NEW todo \in SUBSET Devices
  PROVE  /\ [v EXCEPT !.pc = pc, !.outcome = outcome] \in Worker
         /\ [v EXCEPT !.pc = pc, !.outcome = outcome, !.known = known] \in Worker
         /\ [v EXCEPT !.pc = pc, !.outcome = outcome, !.todo = todo] \in Worker
         /\ [v EXCEPT !.pc = pc, !.outcome = outcome, !.batch = batch, !.current = current,
                !.known = known, !.todo = todo, !.retry = 0, !.removed = 0] \in Worker
  BY DEF Worker, Places

LEMMA InitTypeOK == Init => TypeOK
  BY TimeIsNat, NoRowType, IdleWorkerType DEF Init, TypeOK

LEMMA PushTypeOK ==
  ASSUME TypeOK, NEW w \in Workers,
         PushAccepted(w) \/ PushUnanswered(w) \/ PushUnregistered(w)
  PROVE  TypeOK'
  <1>. USE ClaimsTyped DEF TypeOK
  <1>1. worker[w].retry \in {0, 1} /\ worker[w].removed \in {0, 1}
    BY DEF Worker
  <1>2. ASSUME NEW c \in worker[w].current, NEW d \in worker[w].todo, Accepts(c.message, d)
        PROVE  got' \in [Messages -> SUBSET Devices] /\ repeated' \in [Messages -> SUBSET Devices]
    BY <1>2 DEF Accepts
  <1>3. CASE PushAccepted(w)
    <2>1. PICK c \in worker[w].current, d \in worker[w].todo :
            /\ Accepts(c.message, d)
            /\ AfterPush(w, d, {d}, worker[w].retry, worker[w].removed)
      BY <1>3 DEF PushAccepted
    <2>2. worker' \in [Workers -> Worker]
      BY <1>1, <2>1, AfterPushType
    <2>. QED
      BY <1>2, <1>3, <2>1, <2>2 DEF PushAccepted
  <1>4. CASE PushUnanswered(w)
    <2>1. PICK c \in worker[w].current, d \in worker[w].todo :
            /\ \/ /\ Accepts(c.message, d)
                  /\ lost' = [lost EXCEPT ![c.message] = @ \cup {d}]
               \/ UNCHANGED history
            /\ AfterPush(w, d, {}, 1, worker[w].removed)
      BY <1>4 DEF PushUnanswered
    <2>2. worker' \in [Workers -> Worker]
      BY <1>1, <2>1, AfterPushType
    <2>3. /\ got' \in [Messages -> SUBSET Devices] /\ repeated' \in [Messages -> SUBSET Devices]
          /\ lost' \in [Messages -> SUBSET Devices]
      BY <1>2, <2>1 DEF history
    <2>. QED
      BY <1>4, <2>2, <2>3 DEF PushUnanswered
  <1>5. CASE PushUnregistered(w)
    <2>1. PICK d \in worker[w].todo : active' = active \ {d} /\ AfterPush(w, d, {}, worker[w].retry, 1)
      BY <1>5 DEF PushUnregistered
    <2>2. worker' \in [Workers -> Worker]
      BY <1>1, <2>1, AfterPushType
    <2>. QED
      BY <1>5, <2>1, <2>2 DEF PushUnregistered, history
  <1>. QED
    BY <1>3, <1>4, <1>5

LEMMA RequestTypeOK ==
  ASSUME TypeOK, Request
  PROVE  TypeOK'
  <1>. USE DEF TypeOK
  <1>1. ASSUME NEW m \in Messages, Append(m) PROVE TypeOK'
    BY <1>1 DEF Append, Row, history
  <1>2. ASSUME NEW m \in Messages, Feedback(m) PROVE TypeOK'
    BY <1>2 DEF Feedback, Row, history
  <1>3. ASSUME NEW m \in Messages, ReadReceipt(m) PROVE TypeOK'
    BY <1>3 DEF ReadReceipt, Row, history
  <1>4. ASSUME NEW m \in Messages, WriteReceipt(m) PROVE TypeOK'
    BY <1>4 DEF WriteReceipt, Row
  <1>5. ASSUME NEW d \in Devices, RegisterDevice(d) PROVE TypeOK'
    BY <1>5 DEF RegisterDevice, history
  <1>6. CASE LoseDevices
    BY <1>6 DEF LoseDevices, history
  <1>. QED
    BY <1>1, <1>2, <1>3, <1>4, <1>5, <1>6 DEF Request, Receipt

LEMMA ReportTypeOK ==
  ASSUME TypeOK, RowInv, WorkerInv, NEW w \in Workers, Report(w)
  PROVE  TypeOK'
  <1>. USE DEF TypeOK
  <1>1. PICK c \in worker[w].current :
          IF HoldsLease(w, c.message)
          THEN /\ outbox' = [outbox EXCEPT ![c.message] =
                     Reported(@, worker[w].outcome, worker[w].known, worker[w].now)]
               /\ UNCHANGED lost
          ELSE /\ lost' = Forget(w)
               /\ UNCHANGED outbox
    BY DEF Report
  <1>2. c.message \in Messages /\ outbox[c.message] \in Row
    BY ClaimsTyped DEF Claims
  <1>3. ASSUME HoldsLease(w, c.message)
        PROVE  outbox' \in [Messages -> Row] /\ lost' \in [Messages -> SUBSET Devices]
    <2>1. outbox[c.message].attempts < MaxAttempts
      BY <1>2, <1>3 DEF HoldsLease, RowInv, RowSound
    <2>2. /\ worker[w].outcome \in Outcomes /\ worker[w].outcome # "none"
          /\ worker[w].known \in SUBSET Devices /\ worker[w].now \in Time
      BY DEF Worker, Report, WorkerInv, WorkerSound
    <2>3. Reported(outbox[c.message], worker[w].outcome, worker[w].known, worker[w].now) \in Row
      BY <1>2, <2>1, <2>2, ReportedFacts DEF Settles
    <2>. QED
      BY <1>1, <1>3, <2>3
  <1>4. outbox' \in [Messages -> Row] /\ lost' \in [Messages -> SUBSET Devices]
    BY <1>1, <1>3, ForgetType
  <1>5. worker' \in [Workers -> Worker]
    <2>1. worker[w].batch \in SUBSET Claim /\ worker[w].now \in Time
      BY DEF Worker
    <2>2. ASSUME NEW pc \in {"idle", "next"}, NEW now \in Time
          PROVE  [IdleWorker EXCEPT !.pc = pc, !.now = now, !.batch = worker[w].batch] \in Worker
      BY <2>1, IdleWorkerType DEF Worker
    <2>. QED
      BY <2>1, <2>2, TimeIsNat DEF Report
  <1>. QED
    BY <1>4, <1>5 DEF Report

LEMMA ClaimTypeOK ==
  ASSUME TypeOK, NEW w \in Workers, ClaimDeliverable(w)
  PROVE  TypeOK'
  <1>. USE DEF TypeOK
  <1>1. PICK now \in {clock, clock - 1} \cap Time :
          LET batch == Oldest(Due(now))
              until == Cap(now + LeaseTime)
          IN  /\ outbox' = [m \in Messages |->
                    IF m \in batch
                    THEN [outbox[m] EXCEPT !.status = "delivering",
                              !.token = w, !.until = until]
                    ELSE outbox[m]]
              /\ worker' = [worker EXCEPT ![w] =
                    [IdleWorker EXCEPT !.pc = "next", !.now = now,
                        !.batch = {[message |-> m, reached |-> outbox[m].reached,
                                    until |-> until] : m \in batch}]]
    BY DEF ClaimDeliverable
  <1>. DEFINE batch == Oldest(Due(now))
              until == Cap(now + LeaseTime)
              claims == {[message |-> m, reached |-> outbox[m].reached, until |-> until] : m \in batch}
  <1>2. until \in Time /\ batch \subseteq Messages
    BY CapTime, TimeIsNat, OutboxAssumption DEF Oldest, Due
  <1>. HIDE DEF batch, until
  <1>3. claims \in SUBSET Claim
    BY <1>2 DEF Claim, Row
  <1>4. outbox' \in [Messages -> Row]
    <2>1. outbox' = [m \in Messages |->
                    IF m \in batch
                    THEN [outbox[m] EXCEPT !.status = "delivering", !.token = w, !.until = until]
                    ELSE outbox[m]]
      BY <1>1 DEF batch, until
    <2>2. ASSUME NEW m \in Messages
          PROVE  [outbox[m] EXCEPT !.status = "delivering", !.token = w, !.until = until] \in Row
      <3>1. outbox[m] \in Row
        OBVIOUS
      <3>. QED
        BY <1>2, <3>1 DEF Row
    <2>. QED
      BY <2>1, <2>2
  <1>5. worker' = [worker EXCEPT ![w] = [IdleWorker EXCEPT !.pc = "next", !.now = now, !.batch = claims]]
    BY <1>1 DEF batch, until
  <1>. HIDE DEF claims
  <1>6. worker' \in [Workers -> Worker]
    BY <1>3, <1>5, IdleWorkerType DEF Worker
  <1>. QED
    BY <1>4, <1>6 DEF ClaimDeliverable, history

LEMMA NextTypeOK ==
  ASSUME TypeOK, RowInv, WorkerInv, [Next]_vars
  PROVE  TypeOK'
  <1>. USE DEF TypeOK
  <1>1. CASE Tick
    BY <1>1, OutboxAssumption DEF Tick, Time, history
  <1>2. ASSUME NEW w \in Workers, Take(w) PROVE TypeOK'
    <2>1. PICK c \in FirstOf(worker[w].batch), pc \in Places, outcome \in Outcomes,
               known \in SUBSET Devices :
            worker' = [worker EXCEPT ![w] = [worker[w] EXCEPT
              !.pc = pc, !.outcome = outcome,
              !.batch = worker[w].batch \ {c}, !.current = {c},
              !.known = known, !.todo = {}, !.retry = 0, !.removed = 0]]
      <3>1. PICK c \in FirstOf(worker[w].batch) :
            worker' = [worker EXCEPT ![w] = [worker[w] EXCEPT
              !.pc = IF FirstLook(c) = "none" THEN "send" ELSE "report",
              !.outcome = FirstLook(c),
              !.batch = worker[w].batch \ {c}, !.current = {c},
              !.known = IF channel = "fcm" THEN c.reached ELSE {},
              !.todo = {}, !.retry = 0, !.removed = 0]]
        BY <1>2 DEF Take
      <3>2. FirstLook(c) \in Outcomes
        BY DEF FirstLook, Outcomes
      <3>3. /\ (IF FirstLook(c) = "none" THEN "send" ELSE "report") \in Places
            /\ (IF channel = "fcm" THEN c.reached ELSE {}) \in SUBSET Devices
        BY ClaimsTyped DEF FirstOf, Claim, Places
      <3>. QED
        BY <3>1, <3>2, <3>3
    <2>2. worker[w].batch \ {c} \in SUBSET Claim /\ {c} \in SUBSET Claim
      BY ClaimsTyped DEF FirstOf
    <2>3. [worker[w] EXCEPT
              !.pc = pc, !.outcome = outcome,
              !.batch = worker[w].batch \ {c}, !.current = {c},
              !.known = known, !.todo = {}, !.retry = 0, !.removed = 0] \in Worker
      BY <2>2, MovedType
    <2>5. worker' \in [Workers -> Worker]
      BY <2>1, <2>3
    <2>. QED
      BY <1>2, <2>5 DEF Take, history
  <1>3. ASSUME NEW w \in Workers, CredentialsFail(w) PROVE TypeOK'
    <2>1. worker' \in [Workers -> Worker]
      BY <1>3, MovedType DEF CredentialsFail, Outcomes, Places
    <2>. QED
      BY <1>3, <2>1 DEF CredentialsFail, history
  <1>4. ASSUME NEW w \in Workers, ListDevices(w) PROVE TypeOK'
    <2>1. PICK pc \in Places, outcome \in Outcomes :
            worker' = [worker EXCEPT ![w].pc = pc, ![w].outcome = outcome,
                                     ![w].todo = active \ worker[w].known]
      BY <1>4 DEF ListDevices, Outcomes, Places
    <2>2. worker' \in [Workers -> Worker]
      BY <2>1, MovedType
    <2>. QED
      BY <1>4, <2>2 DEF ListDevices, history
  <1>5. ASSUME NEW w \in Workers, Post(w) PROVE TypeOK'
    <2>1. PICK c \in worker[w].current, d \in Devices :
            /\ \/ /\ Accepts(c.message, d)
                  /\ lost' = [lost EXCEPT ![c.message] = @ \cup {d}]
               \/ UNCHANGED history
            /\ \E outcome \in {"ok", "fail"} :
                  worker' = [worker EXCEPT ![w].pc = "report", ![w].outcome = outcome]
      BY <1>5 DEF Post
    <2>2. c.message \in Messages
      BY ClaimsTyped DEF Claims
    <2>3. /\ got' \in [Messages -> SUBSET Devices] /\ repeated' \in [Messages -> SUBSET Devices]
          /\ lost' \in [Messages -> SUBSET Devices]
      BY <2>1, <2>2 DEF Accepts, history
    <2>4. worker' \in [Workers -> Worker]
      <3>1. PICK outcome \in {"ok", "fail"} :
              worker' = [worker EXCEPT ![w].pc = "report", ![w].outcome = outcome]
        BY <2>1
      <3>. QED
        BY <3>1, MovedType DEF Outcomes, Places
    <2>. QED
      BY <1>5, <2>3, <2>4 DEF Post
  <1>6. ASSUME NEW w \in Workers, Abandon(w) PROVE TypeOK'
    BY <1>6, ForgetType, IdleWorkerType DEF Abandon
  <1>7. CASE UNCHANGED vars
    BY <1>7 DEF vars
  <1>. QED
    BY <1>1, <1>2, <1>3, <1>4, <1>5, <1>6, <1>7, PushTypeOK, RequestTypeOK, ReportTypeOK,
       ClaimTypeOK DEF Next, Deliver, NothingDue
-----------------------------------------------------------------------------
(* Preservation of the inductive invariant *)

(* Histories only grow. *)
Grows == \A m \in Messages : got[m] \subseteq got'[m] /\ lost[m] \subseteq lost'[m]

OthersStay(w) == \A v \in Workers \ {w} : worker'[v] = worker[v]

LEMMA SameWorker ==
  ASSUME NEW v \in Workers, worker'[v] = worker[v], UNCHANGED channel, TypeOK,
         WorkerSound(v), Grows
  PROVE  WorkerSound(v)' /\ Claims(v)' = Claims(v) /\ \A m \in Messages : Known(v, m)' = Known(v, m)
  <1>1. \A c \in worker[v].current : c.message \in Messages
    BY ClaimsTyped DEF Claims
  <1>2. Claims(v)' = Claims(v)
    BY DEF Claims
  <1>3. \A c \in worker[v].current : got[c.message] \subseteq got'[c.message]
    BY <1>1 DEF Grows
  <1>. QED
    BY <1>2, <1>3 DEF WorkerSound, Known

(* A step of one worker that writes no row.                                *)
LEMMA LocalStep ==
  ASSUME OutboxInv, TypeOK', NEW w \in Workers, OthersStay(w), Grows,
         UNCHANGED <<channel, clock, outbox, reading>>,
         WorkerSound(w)', Claims(w)' \subseteq Claims(w),
         channel # "fcm" => \A m \in Messages : got'[m] \ got[m] \subseteq lost'[m],
         channel = "fcm" => \A m \in Messages :
            /\ got'[m] \ got[m] \subseteq lost'[m] \cup Known(w, m)'
            /\ Known(w, m) \subseteq Known(w, m)' \cup outbox[m].reached \cup lost'[m]
  PROVE  OutboxInv'
  <1>. USE DEF OutboxInv
  <1>1. \A v \in Workers \ {w} : /\ WorkerSound(v)' /\ Claims(v)' = Claims(v)
                                 /\ \A m \in Messages : Known(v, m)' = Known(v, m)
    BY SameWorker DEF OthersStay, WorkerInv
  <1>2. WorkerInv'
    BY <1>1 DEF WorkerInv
  <1>3. RowInv'
    BY DEF RowInv, RowSound, Grows
  <1>4. ClaimInv'
    <2>. SUFFICES ASSUME NEW v \in Workers, NEW c \in Claims(v)' PROVE ClaimSound(v, c)'
      BY DEF ClaimInv
    <2>1. c \in Claims(v)
      BY <1>1
    <2>2. ClaimSound(v, c) /\ c.message \in Messages
      BY <2>1, ClaimsTyped DEF ClaimInv
    <2>. QED
      BY <2>2 DEF ClaimSound, HoldsLease, Grows
  <1>5. AcceptedIsAccounted'
    <2>. SUFFICES ASSUME channel = "fcm", NEW m \in Messages, NEW d \in got'[m]
                  PROVE  \/ d \in outbox[m].reached \cup lost'[m]
                         \/ \E v \in Workers : d \in Known(v, m)'
      BY DEF AcceptedIsAccounted
    <2>1. CASE d \notin got[m]
      BY <2>1
    <2>2. CASE d \in got[m]
      <3>1. d \in outbox[m].reached \cup lost[m] \/ \E v \in Workers : d \in Known(v, m)
        BY <2>2 DEF AcceptedIsAccounted
      <3>2. CASE d \in outbox[m].reached \cup lost[m]
        BY <3>2 DEF Grows
      <3>3. ASSUME NEW v \in Workers, d \in Known(v, m)
            PROVE  \/ d \in outbox[m].reached \cup lost'[m]
                   \/ \E u \in Workers : d \in Known(u, m)'
        <4>1. CASE v = w
          BY <3>3, <4>1
        <4>2. CASE v # w
          BY <1>1, <3>3, <4>2
        <4>. QED
          BY <4>1, <4>2
      <3>. QED
        BY <3>1, <3>2, <3>3
    <2>. QED
      BY <2>1, <2>2
  <1>. QED
    BY <1>2, <1>3, <1>4, <1>5

(* A step of the API that changes one row, or what a receipt remembers.    *)
LEMMA RowStep ==
  ASSUME OutboxInv, TypeOK', NEW m \in Messages,
         UNCHANGED <<channel, clock, worker, got>>, Grows, RowSound(m)',
         \A k \in Messages \ {m} : outbox'[k] = outbox[k] /\ reading'[k] = reading[k],
         outbox'[m].until = outbox[m].until, outbox'[m].token = outbox[m].token,
         outbox'[m].reached \subseteq outbox[m].reached,
         outbox[m].reached \subseteq outbox'[m].reached \cup lost'[m],
         outbox'[m].status = "delivering" => outbox[m].status = "delivering",
         outbox[m].status \in {"delivering", "answered"} =>
            outbox'[m].status \in {outbox[m].status, "answered"}
  PROVE  OutboxInv'
  <1>. USE DEF OutboxInv
  <1>1. \A v \in Workers : /\ WorkerSound(v)' /\ Claims(v)' = Claims(v)
                           /\ \A k \in Messages : Known(v, k)' = Known(v, k)
    BY SameWorker DEF WorkerInv
  <1>2. WorkerInv'
    BY <1>1 DEF WorkerInv
  <1>3. RowInv'
    BY DEF RowInv, RowSound, Grows
  <1>4. ClaimInv'
    <2>. SUFFICES ASSUME NEW v \in Workers, NEW c \in Claims(v) PROVE ClaimSound(v, c)'
      BY <1>1 DEF ClaimInv
    <2>1. ClaimSound(v, c) /\ c.message \in Messages
      BY ClaimsTyped DEF ClaimInv
    <2>2. CASE c.message # m
      BY <2>1, <2>2 DEF ClaimSound, HoldsLease, Grows
    <2>3. CASE c.message = m
      BY <2>1, <2>3 DEF ClaimSound, HoldsLease, Grows
    <2>. QED
      BY <2>2, <2>3
  <1>5. AcceptedIsAccounted'
    <2>. SUFFICES ASSUME channel = "fcm", NEW k \in Messages, NEW d \in got[k]
                  PROVE  \/ d \in outbox'[k].reached \cup lost'[k]
                         \/ \E v \in Workers : d \in Known(v, k)'
      BY DEF AcceptedIsAccounted
    <2>1. d \in outbox[k].reached \cup lost[k] \/ \E v \in Workers : d \in Known(v, k)
      BY DEF AcceptedIsAccounted
    <2>2. outbox[k].reached \subseteq outbox'[k].reached \cup lost'[k]
      OBVIOUS
    <2>. QED
      BY <1>1, <2>1, <2>2 DEF Grows
  <1>. QED
    BY <1>2, <1>3, <1>4, <1>5

(* Time passes, devices come and go.                                       *)
LEMMA QuietStep ==
  ASSUME OutboxInv, TypeOK', clock <= clock',
         UNCHANGED <<channel, outbox, worker, reading, got, lost>>
  PROVE  OutboxInv'
  <1>. USE DEF OutboxInv
  <1>1. Grows
    BY DEF Grows
  <1>2. \A v \in Workers : /\ WorkerSound(v)' /\ Claims(v)' = Claims(v)
                           /\ \A k \in Messages : Known(v, k)' = Known(v, k)
    BY <1>1, SameWorker DEF WorkerInv
  <1>3. WorkerInv' /\ RowInv'
    BY <1>2 DEF WorkerInv, RowInv, RowSound
  <1>4. ClaimInv'
    <2>. SUFFICES ASSUME NEW v \in Workers, NEW c \in Claims(v) PROVE ClaimSound(v, c)'
      BY <1>2 DEF ClaimInv
    <2>1. ClaimSound(v, c) /\ c.until \in Nat /\ clock \in Nat /\ clock' \in Nat
      BY ClaimsTyped, TimeIsNat DEF ClaimInv, Claim, TypeOK
    <2>. QED
      BY <2>1 DEF ClaimSound, HoldsLease
  <1>5. AcceptedIsAccounted'
    BY <1>2 DEF AcceptedIsAccounted
  <1>. QED
    BY <1>3, <1>4, <1>5

LEMMA AcceptsGrows ==
  ASSUME TypeOK, NEW m \in Messages, NEW d \in Devices,
         \/ Accepts(m, d) /\ (UNCHANGED lost \/ lost' = [lost EXCEPT ![m] = @ \cup {d}])
         \/ UNCHANGED history
  PROVE  /\ Grows
         /\ \A k \in Messages : got'[k] \subseteq got[k] \cup (IF k = m THEN {d} ELSE {})
         /\ Accepts(m, d) => d \in got'[m]
  BY DEF Accepts, TypeOK, Grows, history

LEMMA AfterPushFacts ==
  ASSUME TypeOK, NEW w \in Workers, NEW d \in Devices,
         NEW delivered \in SUBSET Devices, NEW retry \in {0, 1}, NEW removed \in {0, 1},
         AfterPush(w, d, delivered, retry, removed)
  PROVE  /\ OthersStay(w)
         /\ worker'[w].batch = worker[w].batch /\ worker'[w].current = worker[w].current
         /\ worker'[w].todo = worker[w].todo \ {d}
         /\ worker'[w].known = worker[w].known \cup delivered
         /\ \/ worker'[w].pc = "fanout" /\ worker'[w].outcome = "none"
            \/ worker'[w].pc = "report" /\ worker'[w].outcome \in {"ok", "fail"}
            \/ /\ worker'[w].pc = "report" /\ worker'[w].outcome = "gone"
               /\ worker'[w].known = {}
  <1>. DEFINE todo == worker[w].todo \ {d}
              known == worker[w].known \cup delivered
              outcome == IF todo = {} THEN Verdict(known, retry, removed) ELSE "none"
              pc == IF todo = {} THEN "report" ELSE "fanout"
  <1>1. worker' = [worker EXCEPT ![w] = [worker[w] EXCEPT !.todo = todo, !.known = known,
            !.retry = retry, !.removed = removed, !.pc = pc, !.outcome = outcome]]
    BY DEF AfterPush
  <1>2. \/ pc = "fanout" /\ outcome = "none"
        \/ pc = "report" /\ outcome \in {"ok", "fail"}
        \/ pc = "report" /\ outcome = "gone" /\ known = {}
    BY VerdictType
  <1>3. OthersStay(w)
    BY <1>1 DEF OthersStay, TypeOK
  <1>. HIDE DEF todo, known, outcome, pc
  <1>4. worker[w] \in Worker
    BY DEF TypeOK
  <1>5. /\ worker'[w].batch = worker[w].batch /\ worker'[w].current = worker[w].current
        /\ worker'[w].todo = todo /\ worker'[w].known = known
        /\ worker'[w].pc = pc /\ worker'[w].outcome = outcome
    BY <1>1, <1>4 DEF TypeOK, Worker
  <1>. QED
    BY <1>2, <1>3, <1>5 DEF todo, known

LEMMA PushSound ==
  ASSUME OutboxInv, TypeOK', NEW w \in Workers, worker[w].pc = "fanout",
         NEW d \in Devices, NEW delivered \in SUBSET Devices,
         NEW retry \in {0, 1}, NEW removed \in {0, 1}, AfterPush(w, d, delivered, retry, removed),
         UNCHANGED channel, delivered \subseteq {d}, Grows,
         \A c \in worker[w].current : delivered \subseteq got'[c.message]
  PROVE  /\ WorkerSound(w)' /\ OthersStay(w) /\ Claims(w)' = Claims(w)
         /\ \A m \in Messages : Known(w, m) \subseteq Known(w, m)'
         /\ \A c \in worker[w].current : Known(w, c.message)' = worker[w].known \cup delivered
  <1>. USE DEF OutboxInv
  <1>1. /\ OthersStay(w)
        /\ worker'[w].batch = worker[w].batch /\ worker'[w].current = worker[w].current
        /\ worker'[w].todo = worker[w].todo \ {d}
        /\ worker'[w].known = worker[w].known \cup delivered
        /\ \/ worker'[w].pc = "fanout" /\ worker'[w].outcome = "none"
           \/ worker'[w].pc = "report" /\ worker'[w].outcome \in {"ok", "fail"}
           \/ /\ worker'[w].pc = "report" /\ worker'[w].outcome = "gone"
              /\ worker'[w].known = {}
    BY AfterPushFacts
  <1>2. Claims(w)' = Claims(w)
    BY <1>1 DEF Claims
  <1>3. WorkerSound(w)
    BY DEF WorkerInv
  <1>4. \A c \in worker[w].current : got[c.message] \subseteq got'[c.message]
    BY ClaimsTyped DEF Grows, Claims
  <1>5. WorkerSound(w)'
    BY <1>1, <1>2, <1>3, <1>4 DEF WorkerSound
  <1>. QED
    BY <1>1, <1>2, <1>5 DEF Known

LEMMA PushInv ==
  ASSUME OutboxInv, TypeOK', NEW w \in Workers,
         PushAccepted(w) \/ PushUnanswered(w) \/ PushUnregistered(w)
  PROVE  OutboxInv'
  <1>. USE DEF OutboxInv
  <1>1. /\ worker[w].pc = "fanout" /\ worker[w].retry \in {0, 1}
        /\ worker[w].removed \in {0, 1} /\ channel = "fcm"
        /\ UNCHANGED <<channel, clock, outbox, reading>>
    BY DEF PushAccepted, PushUnanswered, PushUnregistered, TypeOK, Worker, WorkerInv, WorkerSound
  <1>2. ASSUME NEW c \in worker[w].current PROVE c.message \in Messages
    BY ClaimsTyped DEF Claims
  <1>3. worker[w].todo \subseteq Devices /\ \A c, e \in worker[w].current : c = e
    BY ClaimsTyped DEF WorkerInv, WorkerSound
  <1>4. CASE PushAccepted(w)
    <2>1. PICK c \in worker[w].current, d \in worker[w].todo :
            /\ Accepts(c.message, d)
            /\ AfterPush(w, d, {d}, worker[w].retry, worker[w].removed)
            /\ UNCHANGED lost
      BY <1>4 DEF PushAccepted
    <2>2. /\ Grows /\ d \in got'[c.message]
          /\ \A k \in Messages : got'[k] \subseteq got[k] \cup (IF k = c.message THEN {d} ELSE {})
      BY <1>2, <1>3, <2>1, AcceptsGrows
    <2>3. /\ WorkerSound(w)' /\ OthersStay(w) /\ Claims(w)' = Claims(w)
          /\ \A m \in Messages : Known(w, m) \subseteq Known(w, m)'
          /\ Known(w, c.message)' = worker[w].known \cup {d}
      BY <1>1, <1>3, <2>1, <2>2, PushSound
    <2>4. \A m \in Messages : got'[m] \ got[m] \subseteq Known(w, m)'
      BY <2>2, <2>3
    <2>9. /\ channel # "fcm" => \A m \in Messages : got'[m] \ got[m] \subseteq lost'[m]
          /\ channel = "fcm" => \A m \in Messages :
                /\ got'[m] \ got[m] \subseteq lost'[m] \cup Known(w, m)'
                /\ Known(w, m) \subseteq Known(w, m)' \cup outbox[m].reached \cup lost'[m]
      BY <1>1, <2>3, <2>4
    <2>. QED
      BY <1>1, <2>2, <2>3, <2>9, LocalStep
  <1>5. CASE PushUnanswered(w)
    <2>1. PICK c \in worker[w].current, d \in worker[w].todo :
            /\ \/ /\ Accepts(c.message, d)
                  /\ lost' = [lost EXCEPT ![c.message] = @ \cup {d}]
               \/ UNCHANGED history
            /\ AfterPush(w, d, {}, 1, worker[w].removed)
      BY <1>5 DEF PushUnanswered
    <2>2. /\ Grows
          /\ \A k \in Messages : got'[k] \subseteq got[k] \cup (IF k = c.message THEN {d} ELSE {})
      BY <1>2, <1>3, <2>1, AcceptsGrows
    <2>3. /\ WorkerSound(w)' /\ OthersStay(w) /\ Claims(w)' = Claims(w)
          /\ \A m \in Messages : Known(w, m) \subseteq Known(w, m)'
      BY <1>1, <1>3, <2>1, <2>2, PushSound
    <2>4. \A m \in Messages : got'[m] \ got[m] \subseteq lost'[m]
      BY <1>2, <2>1, <2>2 DEF history, TypeOK
    <2>9. /\ channel # "fcm" => \A m \in Messages : got'[m] \ got[m] \subseteq lost'[m]
          /\ channel = "fcm" => \A m \in Messages :
                /\ got'[m] \ got[m] \subseteq lost'[m] \cup Known(w, m)'
                /\ Known(w, m) \subseteq Known(w, m)' \cup outbox[m].reached \cup lost'[m]
      BY <1>1, <2>3, <2>4
    <2>. QED
      BY <1>1, <2>2, <2>3, <2>9, LocalStep
  <1>6. CASE PushUnregistered(w)
    <2>1. PICK d \in worker[w].todo : AfterPush(w, d, {}, worker[w].retry, 1) /\ UNCHANGED history
      BY <1>6 DEF PushUnregistered
    <2>2. Grows /\ UNCHANGED <<got, lost>>
      BY <2>1 DEF Grows, history
    <2>3. /\ WorkerSound(w)' /\ OthersStay(w) /\ Claims(w)' = Claims(w)
          /\ \A m \in Messages : Known(w, m) \subseteq Known(w, m)'
      BY <1>1, <1>3, <2>1, <2>2, PushSound
    <2>9. /\ channel # "fcm" => \A m \in Messages : got'[m] \ got[m] \subseteq lost'[m]
          /\ channel = "fcm" => \A m \in Messages :
                /\ got'[m] \ got[m] \subseteq lost'[m] \cup Known(w, m)'
                /\ Known(w, m) \subseteq Known(w, m)' \cup outbox[m].reached \cup lost'[m]
      BY <1>1, <2>2, <2>3
    <2>. QED
      BY <1>1, <2>2, <2>3, <2>9, LocalStep
  <1>. QED
    BY <1>4, <1>5, <1>6

LEMMA TakeInv ==
  ASSUME OutboxInv, TypeOK', NEW w \in Workers, Take(w)
  PROVE  OutboxInv'
  <1>. USE DEF OutboxInv
  <1>1. PICK c \in FirstOf(worker[w].batch) :
            worker' = [worker EXCEPT ![w] = [worker[w] EXCEPT
              !.pc = IF FirstLook(c) = "none" THEN "send" ELSE "report",
              !.outcome = FirstLook(c),
              !.batch = worker[w].batch \ {c}, !.current = {c},
              !.known = IF channel = "fcm" THEN c.reached ELSE {},
              !.todo = {}, !.retry = 0, !.removed = 0]]
    BY DEF Take
  <1>2. worker[w].pc = "next" /\ UNCHANGED <<channel, clock, outbox, reading, got, lost>>
    BY DEF Take, history
  <1>3. worker[w] \in Worker /\ OthersStay(w) /\ Grows
    BY <1>1, <1>2 DEF TypeOK, OthersStay, Grows
  <1>. DEFINE pc == IF FirstLook(c) = "none" THEN "send" ELSE "report"
              known == IF channel = "fcm" THEN c.reached ELSE {}
              look == FirstLook(c)
  <1>. HIDE DEF pc, known, look
  <1>4. /\ worker'[w].pc = pc /\ worker'[w].outcome = look
        /\ worker'[w].batch = worker[w].batch \ {c} /\ worker'[w].current = {c}
        /\ worker'[w].known = known
    <2>1. worker'[w] = [worker[w] EXCEPT !.pc = pc, !.outcome = look,
              !.batch = worker[w].batch \ {c}, !.current = {c},
              !.known = known, !.todo = {}, !.retry = 0, !.removed = 0]
      BY <1>1 DEF TypeOK, pc, known, look
    <2>. QED
      BY <1>3, <2>1 DEF Worker
  <1>5. /\ pc \in {"send", "report"}
        /\ pc = "report" => look # "none"
        /\ look # "gone" /\ known \subseteq c.reached
        /\ channel = "fcm" => known = c.reached
    BY DEF pc, known, look, FirstLook
  <1>6. c \in worker[w].batch /\ worker[w].current = {}
    BY <1>2 DEF FirstOf, WorkerInv, WorkerSound
  <1>7. Claims(w)' = Claims(w) /\ c \in Claims(w)
    BY <1>4, <1>6 DEF Claims
  <1>8. c.reached \subseteq got[c.message]
    BY <1>7 DEF ClaimInv, ClaimSound
  <1>9. WorkerSound(w)'
    <2>1. \A b, e \in Claims(w)' : b.message = e.message => b = e
      BY <1>7 DEF WorkerInv, WorkerSound
    <2>2. worker'[w].pc \notin {"idle", "next", "fanout"} /\ worker'[w].outcome # "gone"
      BY <1>4, <1>5
    <2>3. worker'[w].batch \cap worker'[w].current = {}
      BY <1>4
    <2>4. \A b \in worker'[w].current :
            /\ b = c /\ worker'[w].known \subseteq got'[b.message]
            /\ worker'[w].known \subseteq b.reached
            /\ channel' = "fcm" => b.reached \subseteq worker'[w].known
      BY <1>2, <1>4, <1>5, <1>8
    <2>. QED
      BY <1>4, <1>5, <2>1, <2>2, <2>3, <2>4 DEF WorkerSound
  <1>10. \A m \in Messages : Known(w, m) = {} /\ got'[m] = got[m]
    BY <1>2, <1>6 DEF Known
  <1>. QED
    BY <1>2, <1>3, <1>7, <1>9, <1>10, LocalStep

(* A worker decides on an outcome without calling anyone, or looks at the  *)
(* devices to call.                                                        *)
LEMMA DecideInv ==
  ASSUME OutboxInv, TypeOK', NEW w \in Workers, CredentialsFail(w) \/ ListDevices(w)
  PROVE  OutboxInv'
  <1>. USE DEF OutboxInv
  <1>1. /\ worker[w].pc = "send" /\ channel = "fcm"
        /\ UNCHANGED <<channel, clock, outbox, reading, got, lost>>
    BY DEF CredentialsFail, ListDevices, history
  <1>2. worker[w] \in Worker /\ OthersStay(w) /\ Grows
    BY <1>1 DEF TypeOK, OthersStay, Grows, CredentialsFail, ListDevices
  <1>3. /\ worker'[w].batch = worker[w].batch /\ worker'[w].current = worker[w].current
        /\ \/ /\ worker'[w].pc = "report" /\ worker'[w].outcome = "fail"
              /\ worker'[w].known = {}
           \/ /\ worker'[w].pc = "report" /\ worker'[w].outcome = "ok"
              /\ worker'[w].known = worker[w].known
           \/ /\ worker'[w].pc = "fanout" /\ worker'[w].outcome = "none"
              /\ worker'[w].known = worker[w].known
              /\ worker'[w].todo \cap worker[w].known = {}
    <2>1. CASE CredentialsFail(w)
      BY <2>1 DEF CredentialsFail, TypeOK, Worker
    <2>2. CASE ListDevices(w)
      <3>1. worker' = [worker EXCEPT
              ![w].pc = IF active \ worker[w].known = {} THEN "report" ELSE "fanout",
              ![w].outcome = IF active \ worker[w].known = {} THEN "ok" ELSE "none",
              ![w].todo = active \ worker[w].known]
        BY <2>2 DEF ListDevices
      <3>2. /\ worker'[w].batch = worker[w].batch /\ worker'[w].current = worker[w].current
            /\ worker'[w].known = worker[w].known
            /\ worker'[w].todo = active \ worker[w].known
            /\ worker'[w].pc = IF active \ worker[w].known = {} THEN "report" ELSE "fanout"
            /\ worker'[w].outcome = IF active \ worker[w].known = {} THEN "ok" ELSE "none"
        BY <1>2, <3>1 DEF TypeOK, Worker
      <3>. QED
        BY <3>2
    <2>. QED
      BY <2>1, <2>2
  <1>4. Claims(w)' = Claims(w)
    BY <1>3 DEF Claims
  <1>5. WorkerSound(w)
    BY DEF WorkerInv
  <1>6. WorkerSound(w)'
    BY <1>1, <1>3, <1>4, <1>5 DEF WorkerSound
  <1>7. ASSUME NEW m \in Messages
        PROVE  Known(w, m) \subseteq Known(w, m)' \cup outbox[m].reached \cup lost[m]
    <2>1. CASE \E c \in worker[w].current : c.message = m
      <3>1. PICK c \in worker[w].current : c.message = m
        BY <2>1
      <3>2. worker[w].known \subseteq c.reached
        BY <1>1, <1>5 DEF WorkerSound
      <3>3. c.reached \subseteq outbox[m].reached \cup lost[m]
        BY <3>1 DEF ClaimInv, ClaimSound, Claims
      <3>. QED
        BY <2>1, <3>2, <3>3 DEF Known
    <2>2. CASE ~\E c \in worker[w].current : c.message = m
      BY <2>2 DEF Known
    <2>. QED
      BY <2>1, <2>2
  <1>8. channel = "fcm" => \A m \in Messages :
            /\ got'[m] \ got[m] \subseteq lost'[m] \cup Known(w, m)'
            /\ Known(w, m) \subseteq Known(w, m)' \cup outbox[m].reached \cup lost'[m]
    BY <1>1, <1>7
  <1>9. channel # "fcm" => \A m \in Messages : got'[m] \ got[m] \subseteq lost'[m]
    BY <1>1
  <1>. QED
    BY <1>1, <1>2, <1>4, <1>6, <1>8, <1>9, LocalStep

LEMMA PostInv ==
  ASSUME OutboxInv, TypeOK', NEW w \in Workers, Post(w)
  PROVE  OutboxInv'
  <1>. USE DEF OutboxInv
  <1>1. /\ worker[w].pc = "send" /\ channel = "webhook" /\ channel # "fcm"
        /\ UNCHANGED <<channel, clock, outbox, reading>>
    BY DEF Post
  <1>2. PICK c \in worker[w].current, d \in Devices :
            /\ \/ /\ Accepts(c.message, d)
                  /\ lost' = [lost EXCEPT ![c.message] = @ \cup {d}]
               \/ UNCHANGED history
            /\ \E outcome \in {"ok", "fail"} :
                  worker' = [worker EXCEPT ![w].pc = "report", ![w].outcome = outcome]
    BY DEF Post
  <1>3. c.message \in Messages
    BY ClaimsTyped DEF Claims
  <1>4. worker[w] \in Worker /\ OthersStay(w)
    BY <1>2 DEF TypeOK, OthersStay
  <1>5. /\ Grows
        /\ \A k \in Messages : got'[k] \subseteq got[k] \cup (IF k = c.message THEN {d} ELSE {})
    BY <1>2, <1>3, AcceptsGrows
  <1>6. \A m \in Messages : got'[m] \ got[m] \subseteq lost'[m]
    BY <1>2, <1>3, <1>5 DEF TypeOK, history
  <1>7. /\ worker'[w].batch = worker[w].batch /\ worker'[w].current = worker[w].current
        /\ worker'[w].pc = "report" /\ worker'[w].outcome \in {"ok", "fail"}
        /\ worker'[w].known = worker[w].known
    <2>1. PICK outcome \in {"ok", "fail"} :
                  worker' = [worker EXCEPT ![w].pc = "report", ![w].outcome = outcome]
      BY <1>2
    <2>. QED
      BY <1>4, <2>1 DEF TypeOK, Worker
  <1>8. Claims(w)' = Claims(w)
    BY <1>7 DEF Claims
  <1>9. WorkerSound(w)'
    <2>1. WorkerSound(w)
      BY DEF WorkerInv
    <2>2. \A b \in worker[w].current : got[b.message] \subseteq got'[b.message]
      BY <1>5, ClaimsTyped DEF Grows, Claims
    <2>. QED
      BY <1>1, <1>7, <1>8, <2>1, <2>2 DEF WorkerSound
  <1>. QED
    BY <1>1, <1>4, <1>5, <1>6, <1>8, <1>9, LocalStep

(* The batch of a claim: every row of it changes hands, and nobody else's  *)
(* claim on such a row has a lease that still runs.                        *)
LEMMA ClaimStepInv ==
  ASSUME OutboxInv, TypeOK', NEW w \in Workers, ClaimDeliverable(w)
  PROVE  OutboxInv'
  <1>. USE DEF OutboxInv
  <1>1. PICK now \in {clock, clock - 1} \cap Time :
          LET batch == Oldest(Due(now))
              until == Cap(now + LeaseTime)
          IN  /\ outbox' = [m \in Messages |->
                    IF m \in batch
                    THEN [outbox[m] EXCEPT !.status = "delivering",
                              !.token = w, !.until = until]
                    ELSE outbox[m]]
              /\ worker' = [worker EXCEPT ![w] =
                    [IdleWorker EXCEPT !.pc = "next", !.now = now,
                        !.batch = {[message |-> m, reached |-> outbox[m].reached,
                                    until |-> until] : m \in batch}]]
    BY DEF ClaimDeliverable
  <1>. DEFINE batch == Oldest(Due(now))
              until == Cap(now + LeaseTime)
              claims == {[message |-> m, reached |-> outbox[m].reached, until |-> until] : m \in batch}
  <1>2. /\ worker[w].pc = "idle"
        /\ UNCHANGED <<channel, clock, active, reading, got, lost>>
    BY DEF ClaimDeliverable, history
  <1>3. now <= clock /\ now \in Nat /\ clock \in Nat
    BY TimeIsNat DEF TypeOK
  <1>4. \A m \in batch : m \in Messages /\ Claimable(outbox[m], now)
    BY DEF Oldest, Due
  <1>. HIDE DEF batch, until
  <1>5. \A m \in Messages : outbox[m] \in Row /\ outbox[m].until \in Nat
    BY TimeIsNat DEF TypeOK, Row
  <1>6. \A m \in Messages : outbox'[m] =
            IF m \in batch
            THEN [outbox[m] EXCEPT !.status = "delivering", !.token = w, !.until = until]
            ELSE outbox[m]
    BY <1>1 DEF batch, until
  <1>7. \A m \in Messages : /\ outbox'[m].reached = outbox[m].reached
                            /\ outbox'[m].attempts = outbox[m].attempts
    BY <1>5, <1>6 DEF Row
  <1>8. ASSUME NEW m \in batch
        PROVE  /\ outbox'[m].status = "delivering" /\ outbox'[m].token = w
               /\ outbox'[m].until = until
               /\ outbox[m].status \in {"queued", "retrying", "delivering"}
               /\ outbox[m].status = "delivering" => outbox[m].until <= now
    <2>1. m \in Messages /\ Claimable(outbox[m], now)
      BY <1>4
    <2>. QED
      BY <1>5, <1>6, <2>1 DEF Claimable, LeaseExpired, Row
  <1>9. \A m \in Messages \ batch : outbox'[m] = outbox[m]
    BY <1>6
  <1>10. Grows /\ OthersStay(w)
    BY <1>1, <1>2 DEF Grows, OthersStay, TypeOK
  <1>11. /\ worker'[w].pc = "next" /\ worker'[w].batch = claims
         /\ worker'[w].current = {} /\ worker'[w].outcome = "none"
    <2>1. worker' = [worker EXCEPT ![w] = [IdleWorker EXCEPT !.pc = "next", !.now = now, !.batch = claims]]
      BY <1>1 DEF batch, until
    <2>. HIDE DEF claims
    <2>. QED
      BY <2>1 DEF IdleWorker, TypeOK
  <1>12. Claims(w) = {} /\ \A m \in Messages : Known(w, m) = {}
    BY <1>2 DEF WorkerInv, WorkerSound, Claims, Known
  <1>13. Claims(w)' = claims
    BY <1>11 DEF Claims
  <1>14. WorkerSound(w)'
    <2>1. \A b, e \in Claims(w)' : b.message = e.message => b = e
      BY <1>13
    <2>. QED
      BY <1>11, <2>1 DEF WorkerSound
  <1>15. \A v \in Workers \ {w} : /\ WorkerSound(v)' /\ Claims(v)' = Claims(v)
                                  /\ \A m \in Messages : Known(v, m)' = Known(v, m)
    BY <1>2, <1>10, SameWorker DEF OthersStay, WorkerInv
  <1>16. WorkerInv'
    BY <1>14, <1>15 DEF WorkerInv
  <1>17. RowInv'
    <2>. SUFFICES ASSUME NEW m \in Messages PROVE RowSound(m)'
      BY DEF RowInv
    <2>1. RowSound(m)
      BY DEF RowInv
    <2>2. CASE m \in batch
      BY <1>2, <1>7, <1>8, <2>1, <2>2 DEF RowSound
    <2>3. CASE m \notin batch
      BY <1>2, <1>9, <2>1, <2>3 DEF RowSound
    <2>. QED
      BY <2>2, <2>3
  <1>18. ClaimInv'
    <2>. SUFFICES ASSUME NEW v \in Workers, NEW c \in Claims(v)' PROVE ClaimSound(v, c)'
      BY DEF ClaimInv
    <2>1. CASE v = w
      <3>1. PICK m \in batch : c = [message |-> m, reached |-> outbox[m].reached, until |-> until]
        BY <1>13, <2>1
      <3>2. c.message = m /\ c.reached = outbox[m].reached /\ c.until = until
        BY <3>1
      <3>3. m \in Messages /\ outbox[m].reached \subseteq got[m]
        BY <1>4 DEF RowInv, RowSound
      <3>4. /\ outbox'[m].reached = c.reached /\ outbox'[m].until = c.until
            /\ outbox'[m].status = "delivering" /\ outbox'[m].token = v
        BY <1>7, <1>8, <2>1, <3>2, <3>3
      <3>. QED
        BY <1>2, <3>2, <3>3, <3>4 DEF ClaimSound, HoldsLease
    <2>2. CASE v # w
      <3>0. c \in Claims(v) /\ c \in Claim
        BY <1>15, <2>2, ClaimsTyped
      <3>1. c.message \in Messages /\ ClaimSound(v, c) /\ c.until \in Nat
        BY <3>0, TimeIsNat DEF ClaimInv, Claim
      <3>2. CASE c.message \in batch
        <4>1. ~HoldsLease(v, c.message)'
          BY <1>8, <2>2, <3>2 DEF HoldsLease
        <4>2. c.until <= clock
          BY <1>3, <1>5, <1>8, <3>1, <3>2 DEF ClaimSound, HoldsLease
        <4>. QED
          BY <1>2, <1>7, <3>1, <4>1, <4>2 DEF ClaimSound
      <3>3. CASE c.message \notin batch
        BY <1>2, <1>9, <3>1, <3>3 DEF ClaimSound, HoldsLease
      <3>. QED
        BY <3>2, <3>3
    <2>. QED
      BY <2>1, <2>2
  <1>19. AcceptedIsAccounted'
    <2>. SUFFICES ASSUME channel = "fcm", NEW m \in Messages, NEW d \in got[m]
                  PROVE  \/ d \in outbox'[m].reached \cup lost[m]
                         \/ \E v \in Workers : d \in Known(v, m)'
      BY <1>2 DEF AcceptedIsAccounted
    <2>1. d \in outbox[m].reached \cup lost[m] \/ \E v \in Workers : d \in Known(v, m)
      BY DEF AcceptedIsAccounted
    <2>. QED
      BY <1>7, <1>12, <1>15, <2>1
  <1>. QED
    BY <1>16, <1>17, <1>18, <1>19

(* Report and Abandon forget what the worker knew, and put it in lost if   *)
(* the row does not have it.                                               *)
LEMMA ForgetGrows ==
  ASSUME TypeOK, NEW w \in Workers, lost' = Forget(w), UNCHANGED got
  PROVE  /\ Grows
         /\ \A m \in Messages : Known(w, m) \subseteq outbox[m].reached \cup lost'[m]
  BY DEF Forget, Grows, TypeOK

LEMMA AccountedStep ==
  ASSUME TypeOK, AcceptedIsAccounted, NEW w \in Workers, OthersStay(w), Grows,
         UNCHANGED <<channel, got>>,
         \A m \in Messages : /\ Known(w, m) \subseteq outbox'[m].reached \cup lost'[m]
                             /\ outbox[m].reached \subseteq outbox'[m].reached
  PROVE  AcceptedIsAccounted'
  <1>. SUFFICES ASSUME channel = "fcm", NEW m \in Messages, NEW d \in got[m]
                PROVE  \/ d \in outbox'[m].reached \cup lost'[m]
                       \/ \E v \in Workers : d \in Known(v, m)'
    BY DEF AcceptedIsAccounted
  <1>1. d \in outbox[m].reached \cup lost[m] \/ \E v \in Workers : d \in Known(v, m)
    BY DEF AcceptedIsAccounted
  <1>2. ASSUME NEW v \in Workers, v # w PROVE Known(v, m)' = Known(v, m)
    BY <1>2 DEF OthersStay, Known
  <1>. QED
    BY <1>1, <1>2 DEF Grows

LEMMA AbandonInv ==
  ASSUME OutboxInv, TypeOK', NEW w \in Workers, Abandon(w)
  PROVE  OutboxInv'
  <1>. USE DEF OutboxInv
  <1>1. /\ worker' = [worker EXCEPT ![w] = IdleWorker] /\ lost' = Forget(w)
        /\ UNCHANGED <<channel, clock, outbox, reading, got>>
    BY DEF Abandon
  <1>2. OthersStay(w) /\ worker'[w] = IdleWorker
    BY <1>1 DEF OthersStay, TypeOK
  <1>3. /\ Grows
        /\ \A m \in Messages : Known(w, m) \subseteq outbox[m].reached \cup lost'[m]
    BY <1>1, ForgetGrows
  <1>4. WorkerSound(w)' /\ Claims(w)' = {}
    BY <1>2 DEF WorkerSound, Claims, IdleWorker
  <1>5. \A v \in Workers \ {w} : WorkerSound(v)' /\ Claims(v)' = Claims(v)
    BY <1>1, <1>2, <1>3, SameWorker DEF OthersStay, WorkerInv
  <1>6. WorkerInv'
    BY <1>4, <1>5 DEF WorkerInv
  <1>7. RowInv'
    BY <1>1, <1>3 DEF RowInv, RowSound, Grows
  <1>8. ClaimInv'
    <2>. SUFFICES ASSUME NEW v \in Workers, NEW c \in Claims(v)' PROVE ClaimSound(v, c)'
      BY DEF ClaimInv
    <2>1. c \in Claims(v)
      BY <1>4, <1>5
    <2>2. ClaimSound(v, c) /\ c.message \in Messages
      BY <2>1, ClaimsTyped DEF ClaimInv
    <2>. QED
      BY <1>1, <1>3, <2>2 DEF ClaimSound, HoldsLease, Grows
  <1>9. AcceptedIsAccounted'
    BY <1>1, <1>2, <1>3, AccountedStep
  <1>. QED
    BY <1>6, <1>7, <1>8, <1>9

LEMMA ReportInv ==
  ASSUME OutboxInv, TypeOK', NEW w \in Workers, Report(w)
  PROVE  OutboxInv'
  <1>. USE DEF OutboxInv
  <1>1. PICK c \in worker[w].current :
          IF HoldsLease(w, c.message)
          THEN /\ outbox' = [outbox EXCEPT ![c.message] =
                     Reported(@, worker[w].outcome, worker[w].known, worker[w].now)]
               /\ UNCHANGED lost
          ELSE /\ lost' = Forget(w)
               /\ UNCHANGED outbox
    BY DEF Report
  <1>2. /\ c.message \in Messages /\ outbox[c.message] \in Row /\ c \in Claims(w)
        /\ \A m \in Messages : outbox[m].attempts \in Nat
    BY ClaimsTyped DEF Claims, TypeOK, Row
  <1>3. /\ worker[w].pc = "report"
        /\ UNCHANGED <<channel, clock, reading, got>>
    BY DEF Report
  <1>4. /\ OthersStay(w)
        /\ worker'[w].pc \in {"idle", "next"} /\ worker'[w].current = {}
        /\ worker'[w].pc = "idle" => worker[w].batch = {}
        /\ worker'[w].batch = worker[w].batch
        /\ worker'[w].outcome = "none"
    BY DEF Report, OthersStay, IdleWorker, TypeOK
  <1>5. /\ WorkerSound(w) /\ \A b \in worker[w].current : b = c
        /\ \A b \in worker[w].batch : b.message # c.message
    <2>1. WorkerSound(w)
      BY DEF WorkerInv
    <2>2. \A b \in worker[w].batch : b # c /\ b \in Claims(w)
      BY <2>1 DEF WorkerSound, Claims
    <2>. QED
      BY <1>2, <2>1, <2>2 DEF WorkerSound
  <1>6. Claims(w)' = worker[w].batch /\ worker[w].batch \subseteq Claims(w)
    BY <1>4 DEF Claims
  <1>7. WorkerSound(w)'
    <2>1. \A b, e \in Claims(w)' : b.message = e.message => b = e
      BY <1>5, <1>6 DEF WorkerSound
    <2>. QED
      BY <1>4, <1>5, <2>1 DEF WorkerSound
  <1>8. \A m \in Messages \ {c.message} : Known(w, m) = {}
    BY <1>5 DEF Known
  <1>9. CASE ~HoldsLease(w, c.message)
    <2>1. lost' = Forget(w) /\ UNCHANGED outbox
      BY <1>1, <1>9
    <2>2. /\ Grows
          /\ \A m \in Messages : Known(w, m) \subseteq outbox[m].reached \cup lost'[m]
      BY <1>3, <2>1, ForgetGrows
    <2>3. \A v \in Workers \ {w} : WorkerSound(v)' /\ Claims(v)' = Claims(v)
      BY <1>3, <1>4, <2>2, SameWorker DEF OthersStay, WorkerInv
    <2>4. WorkerInv'
      BY <1>7, <2>3 DEF WorkerInv
    <2>5. RowInv'
      BY <1>3, <2>1, <2>2 DEF RowInv, RowSound, Grows
    <2>6. ClaimInv'
      <3>. SUFFICES ASSUME NEW v \in Workers, NEW b \in Claims(v)' PROVE ClaimSound(v, b)'
        BY DEF ClaimInv
      <3>1. b \in Claims(v)
        BY <1>6, <2>3
      <3>2. ClaimSound(v, b) /\ b.message \in Messages
        BY <3>1, ClaimsTyped DEF ClaimInv
      <3>. QED
        BY <1>3, <2>1, <2>2, <3>2 DEF ClaimSound, HoldsLease, Grows
    <2>7. AcceptedIsAccounted'
      BY <1>3, <1>4, <2>1, <2>2, AccountedStep
    <2>. QED
      BY <2>4, <2>5, <2>6, <2>7
  <1>10. CASE HoldsLease(w, c.message)
    <2>. DEFINE m == c.message
                old == outbox[c.message]
                new == Reported(old, worker[w].outcome, worker[w].known, worker[w].now)
    <2>1. old.status = "delivering" /\ old.token = w
      BY <1>10 DEF HoldsLease
    <2>2. old.attempts < MaxAttempts
      BY <1>2, <2>1 DEF RowInv, RowSound
    <2>3. /\ worker[w].outcome \in Outcomes /\ worker[w].outcome # "none"
          /\ worker[w].known \in SUBSET Devices /\ worker[w].now \in Time
      BY <1>3, <1>5 DEF TypeOK, Worker, WorkerSound
    <2>4. Settles(old, new, worker[w].outcome, worker[w].known)
      BY <1>2, <2>2, <2>3, ReportedFacts
    <2>5. /\ outbox'[m] = new /\ UNCHANGED lost
          /\ \A k \in Messages \ {m} : outbox'[k] = outbox[k]
      BY <1>1, <1>2, <1>10 DEF TypeOK
    <2>6. worker[w].known \subseteq got[m] /\ Known(w, m) = worker[w].known
      BY <1>5 DEF WorkerSound, Known
    <2>7. worker[w].outcome = "gone" => worker[w].known = {} /\ old.reached = {}
      <3>1. worker[w].outcome = "gone" => worker[w].known = {} /\ c.reached = {}
        BY <1>5 DEF WorkerSound
      <3>2. old.reached \subseteq c.reached
        BY <1>2, <1>10 DEF ClaimInv, ClaimSound
      <3>. QED
        BY <3>1, <3>2
    <2>. HIDE DEF new
    <2>8. RowSound(m)'
      <3>1. RowSound(m)
        BY <1>2 DEF RowInv
      <3>0. old.attempts \in Nat /\ MaxAttempts \in Nat
        BY <1>2, OutboxAssumption
      <3>2. old.attempts + 1 \in Nat /\ old.attempts + 1 <= MaxAttempts
        BY <2>2, <3>0
      <3>3. /\ new.attempts \in Nat /\ new.attempts <= MaxAttempts
            /\ new.status \in {"queued", "retrying"} => new.attempts < MaxAttempts
            /\ new.status = "failed" => new.attempts = MaxAttempts \/ new.reached = {}
            /\ new.status \notin {"absent", "delivering"}
        BY <2>2, <2>4, <2>7, <3>0, <3>2 DEF Settles
      <3>4. old.reached \subseteq new.reached /\ new.reached \subseteq got[m]
        BY <2>4, <2>6, <3>1 DEF RowSound, Settles
      <3>. QED
        BY <1>3, <2>5, <3>1, <3>3, <3>4 DEF RowSound
    <2>9. Grows
      BY <1>3, <2>5 DEF Grows
    <2>10. \A v \in Workers \ {w} : WorkerSound(v)' /\ Claims(v)' = Claims(v)
      BY <1>3, <1>4, <2>9, SameWorker DEF OthersStay, WorkerInv
    <2>11. WorkerInv'
      BY <1>7, <2>10 DEF WorkerInv
    <2>12. RowInv'
      BY <1>3, <2>5, <2>8 DEF RowInv, RowSound
    <2>13. ClaimInv'
      <3>. SUFFICES ASSUME NEW v \in Workers, NEW b \in Claims(v)' PROVE ClaimSound(v, b)'
        BY DEF ClaimInv
      <3>1. b \in Claims(v)
        BY <1>6, <2>10
      <3>2. ClaimSound(v, b) /\ b.message \in Messages
        BY <3>1, ClaimsTyped DEF ClaimInv
      <3>3. CASE b.message # m
        BY <1>3, <2>5, <3>2, <3>3 DEF ClaimSound, HoldsLease
      <3>4. CASE b.message = m
        <4>1. v # w
          BY <1>5, <1>6, <3>4
        <4>2. ~HoldsLease(v, m)
          BY <2>1, <4>1 DEF HoldsLease
        <4>3. ~HoldsLease(v, m)'
          BY <2>4, <2>5, OutboxAssumption DEF HoldsLease, Settles
        <4>4. b.until <= clock
          BY <2>1, <3>2, <3>4, <4>2 DEF ClaimSound
        <4>. QED
          BY <1>3, <2>4, <2>5, <3>2, <3>4, <4>3, <4>4 DEF ClaimSound, Settles
      <3>. QED
        BY <3>3, <3>4
    <2>14. AcceptedIsAccounted'
      <3>1. \A k \in Messages : /\ Known(w, k) \subseteq outbox'[k].reached \cup lost'[k]
                                /\ outbox[k].reached \subseteq outbox'[k].reached
        BY <1>8, <2>4, <2>5, <2>6 DEF Settles
      <3>. QED
        BY <1>3, <1>4, <2>9, <3>1, AccountedStep
    <2>. QED
      BY <2>11, <2>12, <2>13, <2>14
  <1>. QED
    BY <1>9, <1>10

LEMMA RequestInv ==
  ASSUME OutboxInv, TypeOK', Request
  PROVE  OutboxInv'
  <1>. USE DEF OutboxInv
  <1>1. ASSUME NEW m \in Messages, Append(m) PROVE OutboxInv'
    <2>1. /\ outbox[m].status = "absent" /\ outbox' = [outbox EXCEPT ![m].status = "queued"]
          /\ UNCHANGED <<channel, clock, worker, reading, got, lost>>
      BY <1>1 DEF Append, history
    <2>2. /\ outbox'[m].status = "queued" /\ outbox'[m].reached = outbox[m].reached
          /\ outbox'[m].until = outbox[m].until /\ outbox'[m].token = outbox[m].token
          /\ outbox'[m].attempts = outbox[m].attempts
          /\ \A k \in Messages \ {m} : outbox'[k] = outbox[k]
      BY <2>1 DEF TypeOK, Row
    <2>3. RowSound(m) /\ MaxAttempts \in Nat \ {0}
      BY OutboxAssumption DEF RowInv
    <2>4. RowSound(m)' /\ Grows
      BY <2>1, <2>2, <2>3 DEF RowSound, Grows
    <2>. QED
      BY <2>1, <2>2, <2>4, RowStep
  <1>2. ASSUME NEW m \in Messages, Feedback(m) PROVE OutboxInv'
    <2>1. /\ outbox[m].status # "absent" /\ outbox' = [outbox EXCEPT ![m].status = "answered"]
          /\ UNCHANGED <<channel, clock, worker, reading, got, lost>>
      BY <1>2 DEF Feedback, history
    <2>2. /\ outbox'[m].status = "answered" /\ outbox'[m].reached = outbox[m].reached
          /\ outbox'[m].until = outbox[m].until /\ outbox'[m].token = outbox[m].token
          /\ outbox'[m].attempts = outbox[m].attempts
          /\ \A k \in Messages \ {m} : outbox'[k] = outbox[k]
      BY <2>1 DEF TypeOK, Row
    <2>3. RowSound(m)' /\ Grows
      BY <2>1, <2>2 DEF RowInv, RowSound, Grows
    <2>. QED
      BY <2>1, <2>2, <2>3, RowStep
  <1>3. ASSUME NEW m \in Messages, ReadReceipt(m) PROVE OutboxInv'
    <2>1. /\ reading' = [reading EXCEPT ![m] = {outbox[m].reached}]
          /\ UNCHANGED <<channel, clock, outbox, worker, got, lost>>
      BY <1>3 DEF ReadReceipt, history
    <2>2. RowSound(m)' /\ Grows /\ \A k \in Messages \ {m} : reading'[k] = reading[k]
      BY <2>1 DEF RowInv, RowSound, Grows, TypeOK
    <2>. QED
      BY <2>1, <2>2, RowStep
  <1>4. ASSUME NEW m \in Messages, WriteReceipt(m) PROVE OutboxInv'
    <2>1. PICK seen \in reading[m] :
            /\ outbox' = [outbox EXCEPT ![m].reached = seen]
            /\ lost' = [lost EXCEPT ![m] = @ \cup (outbox[m].reached \ seen)]
      BY <1>4 DEF WriteReceipt
    <2>2. reading' = [reading EXCEPT ![m] = {}] /\ UNCHANGED <<channel, clock, worker, got>>
      BY <1>4 DEF WriteReceipt
    <2>3. /\ outbox'[m].status = outbox[m].status /\ outbox'[m].reached = seen
          /\ outbox'[m].until = outbox[m].until /\ outbox'[m].token = outbox[m].token
          /\ outbox'[m].attempts = outbox[m].attempts
          /\ \A k \in Messages \ {m} : outbox'[k] = outbox[k] /\ reading'[k] = reading[k]
          /\ reading'[m] = {}
          /\ lost'[m] = lost[m] \cup (outbox[m].reached \ seen)
      BY <2>1, <2>2 DEF TypeOK, Row
    <2>4. Grows
      BY <2>1, <2>2 DEF Grows, TypeOK
    <2>5. RowSound(m) /\ seen \subseteq outbox[m].reached
      BY DEF RowInv, RowSound
    <2>6. RowSound(m)'
      BY <2>2, <2>3, <2>4, <2>5 DEF RowSound, Grows
    <2>. QED
      BY <2>2, <2>3, <2>4, <2>5, <2>6, RowStep
  <1>5. ASSUME NEW d \in Devices, RegisterDevice(d) PROVE OutboxInv'
    <2>1. UNCHANGED <<channel, outbox, worker, reading, got, lost>> /\ clock' = clock
      BY <1>5 DEF RegisterDevice, history
    <2>2. clock <= clock'
      BY <2>1, TimeIsNat DEF TypeOK
    <2>. QED
      BY <2>1, <2>2, QuietStep
  <1>6. CASE LoseDevices
    <2>1. UNCHANGED <<channel, outbox, worker, reading, got, lost>> /\ clock' = clock
      BY <1>6 DEF LoseDevices, history
    <2>2. clock <= clock'
      BY <2>1, TimeIsNat DEF TypeOK
    <2>. QED
      BY <2>1, <2>2, QuietStep
  <1>. QED
    BY <1>1, <1>2, <1>3, <1>4, <1>5, <1>6 DEF Request, Receipt

LEMMA InitInv == Init => OutboxInv
  <1>. SUFFICES ASSUME Init PROVE OutboxInv
    OBVIOUS
  <1>1. TypeOK
    BY InitTypeOK
  <1>2. \A m \in Messages : /\ outbox[m] = NoRow /\ reading[m] = {}
                            /\ got[m] = {} /\ lost[m] = {}
    BY DEF Init
  <1>3. \A w \in Workers : worker[w] = IdleWorker
    BY DEF Init
  <1>4. RowInv
    BY <1>2, OutboxAssumption DEF RowInv, RowSound, NoRow
  <1>5. ClaimInv /\ WorkerInv
    BY <1>3 DEF ClaimInv, WorkerInv, WorkerSound, Claims, IdleWorker
  <1>6. AcceptedIsAccounted
    BY <1>2 DEF AcceptedIsAccounted
  <1>. QED
    BY <1>1, <1>4, <1>5, <1>6 DEF OutboxInv

LEMMA NextInv == OutboxInv /\ [Next]_vars => OutboxInv'
  <1>. SUFFICES ASSUME OutboxInv, [Next]_vars PROVE OutboxInv'
    OBVIOUS
  <1>1. TypeOK'
    BY NextTypeOK DEF OutboxInv
  <1>2. clock \in Nat
    BY TimeIsNat DEF OutboxInv, TypeOK
  <1>3. CASE Tick
    <2>1. UNCHANGED <<channel, outbox, worker, reading, got, lost>> /\ clock <= clock'
      BY <1>2, <1>3 DEF Tick, history
    <2>. QED
      BY <1>1, <2>1, QuietStep
  <1>4. CASE UNCHANGED vars
    <2>1. UNCHANGED <<channel, outbox, worker, reading, got, lost>> /\ clock <= clock'
      BY <1>2, <1>4 DEF vars
    <2>. QED
      BY <1>1, <2>1, QuietStep
  <1>. QED
    BY <1>1, <1>3, <1>4, RequestInv, ClaimStepInv, TakeInv, DecideInv, PushInv, PostInv,
       ReportInv, AbandonInv DEF Next, Deliver, NothingDue

LEMMA Invariance == Spec => []OutboxInv
  BY InitInv, NextInv, PTL DEF Spec
-----------------------------------------------------------------------------
(* The results *)

(* Every column of the outbox and every local of a delivery keeps its      *)
(* type.                                                                   *)
THEOREM TypeCorrect == Spec => []TypeOK
  <1>1. OutboxInv => TypeOK
    BY DEF OutboxInv
  <1>. QED
    BY Invariance, <1>1, PTL

(* Nobody takes a claimed message away from its worker before the lease is *)
(* over, except the user by answering (claim_deliverable_outbox,           *)
(* record_outbox_feedback).                                                *)
THEOREM LeasesAreKept == Spec => []LeaseIsKept
  <1>1. OutboxInv => LeaseIsKept
    BY DEF OutboxInv, ClaimInv, ClaimSound, LeaseIsKept
  <1>. QED
    BY Invariance, <1>1, PTL

(* A device named in delivered_device_ids was reached, so a retry that     *)
(* leaves it out loses nothing (update_outbox_delivery, _deliver_fcm).     *)
THEOREM ProgressIsTrue == Spec => []ReachedIsTrue
  <1>1. OutboxInv => ReachedIsTrue
    BY DEF OutboxInv, RowInv, RowSound, ReachedIsTrue
  <1>. QED
    BY Invariance, <1>1, PTL

(* No accepted push is forgotten silently: it is stored, or some worker    *)
(* still has to report it, or one of the named accidents lost it.          *)
THEOREM AcceptancesAccounted == Spec => []AcceptedIsAccounted
  <1>1. OutboxInv => AcceptedIsAccounted
    BY DEF OutboxInv
  <1>. QED
    BY Invariance, <1>1, PTL

(* A message that reached somebody is given up only when its attempts are  *)
(* used up (_deliver_fcm's verdict, update_outbox_delivery).               *)
THEOREM GiveUpsJustified == Spec => []GiveUpIsJustified
  <1>1. OutboxInv => GiveUpIsJustified
    BY DEF OutboxInv, RowInv, RowSound, GiveUpIsJustified
  <1>. QED
    BY Invariance, <1>1, PTL

(* What RepeatsAreExplained asks of one step. *)
Explained(m, d) ==
    \/ d \in lost[m]
    \/ \E w \in Workers :
          /\ ~HoldsLease(w, m)
          /\ \E c \in worker[w].current : c.message = m
          /\ d \in worker[w].known \cup (worker[w].todo \ worker'[w].todo)

LEMMA RepeatExplained ==
  ASSUME OutboxInv, NEW w \in Workers, worker[w].pc = "fanout",
         NEW c \in worker[w].current, NEW d \in worker[w].todo, d \in got[c.message],
         NEW known \in SUBSET Devices, NEW retry \in {0, 1}, NEW removed \in {0, 1},
         AfterPush(w, d, known, retry, removed)
  PROVE  Explained(c.message, d)
  <1>. USE DEF OutboxInv
  <1>1. c.message \in Messages /\ d \in Devices /\ c \in Claims(w)
    BY ClaimsTyped DEF Claims
  <1>2. /\ channel = "fcm" /\ c.reached \subseteq worker[w].known /\ d \notin worker[w].known
    BY DEF WorkerInv, WorkerSound
  <1>3. worker'[w].todo = worker[w].todo \ {d}
    BY <1>1, AfterPushFacts
  <1>4. CASE ~HoldsLease(w, c.message)
    BY <1>3, <1>4 DEF Explained
  <1>5. CASE HoldsLease(w, c.message)
    <2>1. outbox[c.message].reached \subseteq c.reached
      BY <1>1, <1>5 DEF ClaimInv, ClaimSound
    <2>2. d \in lost[c.message] \/ \E v \in Workers : d \in Known(v, c.message)
      BY <1>1, <1>2, <2>1 DEF AcceptedIsAccounted
    <2>3. ASSUME NEW v \in Workers, d \in Known(v, c.message)
          PROVE  Explained(c.message, d)
      <3>1. d \in worker[v].known /\ \E b \in worker[v].current : b.message = c.message
        BY <2>3 DEF Known
      <3>2. v # w
        BY <1>2, <3>1
      <3>3. ~HoldsLease(v, c.message)
        BY <1>5, <3>2 DEF HoldsLease
      <3>. QED
        BY <3>1, <3>3 DEF Explained
    <2>. QED
      BY <2>2, <2>3 DEF Explained
  <1>. QED
    BY <1>4, <1>5

(* A repeat is sent by a worker that lost its lease, while such a worker   *)
(* is still at work, or because the first acceptance is among the lost     *)
(* ones (_deliver_fcm, claim_deliverable_outbox).                          *)
THEOREM RepeatsExplained == Spec => RepeatsAreExplained
  <1>1. ASSUME OutboxInv, [Next]_vars
        PROVE  [\A m \in Messages : \A d \in repeated'[m] \ repeated[m] : Explained(m, d)]_vars
    <2>. USE <1>1 DEF OutboxInv
    <2>. SUFFICES ASSUME NEW m \in Messages, NEW d \in repeated'[m], d \notin repeated[m]
                  PROVE  Explained(m, d)
      OBVIOUS
    <2>1. ASSUME NEW w \in Workers, PushAccepted(w) PROVE Explained(m, d)
      <3>1. PICK c \in worker[w].current, e \in worker[w].todo :
              /\ Accepts(c.message, e)
              /\ AfterPush(w, e, {e}, worker[w].retry, worker[w].removed)
        BY <2>1 DEF PushAccepted
      <3>2. e \in Devices /\ c.message \in Messages
        BY ClaimsTyped DEF Claims
      <3>3. m = c.message /\ d = e /\ d \in got[m]
        BY <3>1, <3>2 DEF Accepts, TypeOK
      <3>4. /\ worker[w].pc = "fanout" /\ {e} \in SUBSET Devices /\ {} \in SUBSET Devices
            /\ worker[w].retry \in {0, 1} /\ worker[w].removed \in {0, 1}
        BY <2>1, <3>2 DEF PushAccepted, TypeOK, Worker
      <3>5. Explained(c.message, e)
        BY <3>1, <3>3, <3>4, RepeatExplained
      <3>. QED
        BY <3>3, <3>5
    <2>2. ASSUME NEW w \in Workers, PushUnanswered(w) PROVE Explained(m, d)
      <3>1. PICK c \in worker[w].current, e \in worker[w].todo :
              /\ Accepts(c.message, e) \/ UNCHANGED history
              /\ AfterPush(w, e, {}, 1, worker[w].removed)
        BY <2>2 DEF PushUnanswered
      <3>2. e \in Devices /\ c.message \in Messages
        BY ClaimsTyped DEF Claims
      <3>3. m = c.message /\ d = e /\ d \in got[m]
        BY <3>1, <3>2 DEF Accepts, TypeOK, history
      <3>4. /\ worker[w].pc = "fanout" /\ {e} \in SUBSET Devices /\ {} \in SUBSET Devices
            /\ worker[w].retry \in {0, 1} /\ worker[w].removed \in {0, 1}
        BY <2>2, <3>2 DEF PushUnanswered, TypeOK, Worker
      <3>5. Explained(c.message, e)
        BY <3>1, <3>3, <3>4, RepeatExplained
      <3>. QED
        BY <3>3, <3>5
    <2>3. ASSUME NEW w \in Workers, Post(w) PROVE Explained(m, d)
      <3>1. PICK c \in worker[w].current, e \in Devices : Accepts(c.message, e) \/ UNCHANGED history
        BY <2>3 DEF Post
      <3>2. c.message \in Messages
        BY ClaimsTyped DEF Claims
      <3>3. d \in got[m]
        BY <3>1, <3>2 DEF Accepts, TypeOK, history
      <3>4. got[m] \subseteq lost[m]
        BY <2>3 DEF Post, RowInv, RowSound
      <3>. QED
        BY <3>3, <3>4 DEF Explained
    <2>4. CASE UNCHANGED repeated
      BY <2>4
    <2>5. ASSUME NEW w \in Workers,
                 \/ ClaimDeliverable(w) \/ NothingDue(w) \/ Take(w) \/ CredentialsFail(w)
                 \/ ListDevices(w) \/ PushUnregistered(w) \/ Report(w) \/ Abandon(w)
          PROVE  UNCHANGED repeated
      BY <2>5 DEF ClaimDeliverable, NothingDue, Take, CredentialsFail, ListDevices,
         PushUnregistered, Report, Abandon, history, vars
    <2>6. CASE Request
      BY <2>6 DEF Request, Append, Feedback, Receipt, ReadReceipt, WriteReceipt,
         RegisterDevice, LoseDevices, history
    <2>7. CASE Tick \/ UNCHANGED vars
      BY <2>7 DEF Tick, vars, history
    <2>. QED
      BY <2>1, <2>2, <2>3, <2>4, <2>5, <2>6, <2>7 DEF Next, Deliver
  <1>. QED
    BY <1>1, Invariance, PTL DEF Spec, RepeatsAreExplained, Explained
-----------------------------------------------------------------------------
(* The outbox implements its life cycle *)

LifeStep(m) ==
    LET old == EntryOf(outbox[m])
        new == EntryOf(outbox'[m])
    IN  \/ new = old
        \/ Lifecycle!Queued(old, new)
        \/ Lifecycle!Retried(old, new)
        \/ Lifecycle!Ended(old, new)
        \/ Lifecycle!Answered(old, new)

LEMMA ReportLife ==
  ASSUME OutboxInv, NEW w \in Workers, Report(w), NEW m \in Messages
  PROVE  LifeStep(m)
  <1>. USE DEF OutboxInv
  <1>1. PICK c \in worker[w].current :
          IF HoldsLease(w, c.message)
          THEN outbox' = [outbox EXCEPT ![c.message] =
                     Reported(@, worker[w].outcome, worker[w].known, worker[w].now)]
          ELSE UNCHANGED outbox
    BY DEF Report
  <1>2. CASE outbox'[m] = outbox[m]
    BY <1>2 DEF LifeStep
  <1>3. CASE outbox'[m] # outbox[m]
    <2>1. c.message = m /\ HoldsLease(w, m)
      BY <1>1, <1>3, ClaimsTyped DEF Claims, TypeOK
    <2>. DEFINE old == outbox[m]
                new == Reported(old, worker[w].outcome, worker[w].known, worker[w].now)
    <2>2. outbox'[m] = new /\ old.status = "delivering"
      BY <1>1, <2>1 DEF HoldsLease, TypeOK
    <2>6. old \in Row
      BY DEF TypeOK
    <2>3. /\ worker[w].outcome \in Outcomes /\ worker[w].outcome # "none"
          /\ worker[w].known \in SUBSET Devices /\ worker[w].now \in Time
      BY DEF Report, TypeOK, Worker, WorkerInv, WorkerSound
    <2>4. old.attempts < MaxAttempts
      BY <2>2 DEF RowInv, RowSound
    <2>5. Settles(old, new, worker[w].outcome, worker[w].known)
      BY <2>3, <2>4, <2>6, ReportedFacts
    <2>. HIDE DEF new
    <2>. QED
      BY <2>2, <2>5 DEF Settles, LifeStep, EntryOf, Lifecycle!Retried, Lifecycle!Ended, Lifecycle!Charged
  <1>. QED
    BY <1>2, <1>3

LEMMA NextLife ==
  ASSUME OutboxInv, [Next]_vars, NEW m \in Messages
  PROVE  LifeStep(m)
  <1>. USE DEF OutboxInv
  <1>0. outbox[m] \in Row /\ RowSound(m)
    BY DEF TypeOK, RowInv
  <1>1. CASE UNCHANGED outbox
    BY <1>1 DEF LifeStep
  <1>2. ASSUME NEW k \in Messages, Append(k) PROVE LifeStep(m)
    <2>1. CASE k = m
      <3>1. /\ outbox[m].status = "absent" /\ outbox'[m].status = "queued"
            /\ outbox'[m].attempts = outbox[m].attempts
        BY <1>0, <1>2, <2>1 DEF Append, TypeOK, Row
      <3>2. outbox[m].attempts = 0
        BY <1>0, <3>1 DEF RowSound
      <3>3. /\ EntryOf(outbox[m]) = [phase |-> "absent", attempts |-> 0]
            /\ EntryOf(outbox'[m]) = [phase |-> "pending", attempts |-> 0]
        BY <3>1, <3>2 DEF EntryOf
      <3>4. Lifecycle!Queued(EntryOf(outbox[m]), EntryOf(outbox'[m]))
        BY <3>3 DEF Lifecycle!Queued, Lifecycle!Unsent
      <3>. QED
        BY <3>4 DEF LifeStep
    <2>2. CASE k # m
      BY <1>2, <2>2 DEF Append, TypeOK, LifeStep
    <2>. QED
      BY <2>1, <2>2
  <1>3. ASSUME NEW k \in Messages, Feedback(k) PROVE LifeStep(m)
    <2>1. CASE k = m
      <3>1. /\ outbox[m].status # "absent" /\ outbox'[m].status = "answered"
            /\ outbox'[m].attempts = outbox[m].attempts
        BY <1>0, <1>3, <2>1 DEF Feedback, TypeOK, Row
      <3>2. EntryOf(outbox'[m]) = [phase |-> "answered", attempts |-> outbox[m].attempts]
        BY <3>1 DEF EntryOf
      <3>3. /\ EntryOf(outbox[m]).phase # "absent"
            /\ [EntryOf(outbox[m]) EXCEPT !.phase = "answered"]
                  = [phase |-> "answered", attempts |-> outbox[m].attempts]
        BY <3>1 DEF EntryOf
      <3>4. Lifecycle!Answered(EntryOf(outbox[m]), EntryOf(outbox'[m]))
        BY <3>2, <3>3 DEF Lifecycle!Answered
      <3>. QED
        BY <3>4 DEF LifeStep
    <2>2. CASE k # m
      BY <1>3, <2>2 DEF Feedback, TypeOK, LifeStep
    <2>. QED
      BY <2>1, <2>2
  <1>4. ASSUME NEW k \in Messages, WriteReceipt(k) PROVE LifeStep(m)
    <2>1. outbox'[m].status = outbox[m].status /\ outbox'[m].attempts = outbox[m].attempts
      BY <1>0, <1>4 DEF WriteReceipt, TypeOK, Row
    <2>. QED
      BY <2>1 DEF LifeStep, EntryOf
  <1>5. ASSUME NEW w \in Workers, ClaimDeliverable(w) PROVE LifeStep(m)
    <2>1. PICK now \in {clock, clock - 1} \cap Time :
            outbox' = [k \in Messages |->
                    IF k \in Oldest(Due(now))
                    THEN [outbox[k] EXCEPT !.status = "delivering",
                              !.token = w, !.until = Cap(now + LeaseTime)]
                    ELSE outbox[k]]
      BY <1>5 DEF ClaimDeliverable
    <2>2. CASE m \in Oldest(Due(now))
      <3>1. outbox[m].status \in {"queued", "retrying", "delivering"}
        BY <2>2 DEF Oldest, Due, Claimable, LeaseExpired
      <3>2. outbox'[m] = [outbox[m] EXCEPT !.status = "delivering", !.token = w,
                                          !.until = Cap(now + LeaseTime)]
        BY <2>1, <2>2
      <3>3. outbox'[m].status = "delivering" /\ outbox'[m].attempts = outbox[m].attempts
        BY <1>0, <3>2 DEF Row
      <3>. QED
        BY <3>1, <3>3 DEF LifeStep, EntryOf
    <2>3. CASE m \notin Oldest(Due(now))
      BY <2>1, <2>3 DEF LifeStep
    <2>. QED
      BY <2>2, <2>3
  <1>6. ASSUME NEW w \in Workers, Report(w) PROVE LifeStep(m)
    BY <1>6, ReportLife
  <1>7. ASSUME NEW w \in Workers,
               \/ NothingDue(w) \/ Take(w) \/ CredentialsFail(w) \/ ListDevices(w)
               \/ PushAccepted(w) \/ PushUnanswered(w) \/ PushUnregistered(w)
               \/ Post(w) \/ Abandon(w)
        PROVE  UNCHANGED outbox
    BY <1>7 DEF NothingDue, Take, CredentialsFail, ListDevices, PushAccepted, PushUnanswered,
       PushUnregistered, Post, Abandon, vars
  <1>8. CASE Tick \/ LoseDevices \/ UNCHANGED vars
    BY <1>1, <1>8 DEF Tick, LoseDevices, vars
  <1>9. ASSUME NEW d \in Devices, RegisterDevice(d) PROVE LifeStep(m)
    BY <1>1, <1>9 DEF RegisterDevice
  <1>10. ASSUME NEW k \in Messages, ReadReceipt(k) PROVE LifeStep(m)
    BY <1>1, <1>10 DEF ReadReceipt
  <1>. QED
    BY <1>1, <1>2, <1>3, <1>4, <1>5, <1>6, <1>7, <1>8, <1>9, <1>10
    DEF Next, Request, Receipt, Deliver

(* The outbox with its leases, stale workers, device changes and receipts  *)
(* implements OutboxLifecycle: an attempt is charged once, at most         *)
(* MaxAttempts are, and no message is revived.                             *)
THEOREM Refinement == Spec => ImplementsLifecycle
  <1>. DEFINE entry == [m \in Messages |-> EntryOf(outbox[m])]
  <1>1. Init => Lifecycle!Init
    BY DEF Init, Lifecycle!Init, Lifecycle!Unsent, EntryOf, NoRow
  <1>2. ASSUME OutboxInv, OutboxInv', [Next]_vars
        PROVE  [Lifecycle!Next]_entry
    <2>1. \A m \in Messages : LifeStep(m)
      BY <1>2, NextLife
    <2>2. entry' \in [Messages -> Lifecycle!Entry]
      <3>1. \A m \in Messages : outbox'[m] \in Row /\ outbox'[m].attempts <= MaxAttempts
        BY <1>2 DEF OutboxInv, TypeOK, RowInv, RowSound
      <3>2. \A m \in Messages : EntryOf(outbox'[m]) \in Lifecycle!Entry
        BY <3>1, OutboxAssumption DEF EntryOf, Row, Lifecycle!Entry
      <3>. QED
        BY <3>2
    <2>3. \A m \in Messages :
            \/ entry'[m] = entry[m]
            \/ Lifecycle!Queued(entry[m], entry'[m])
            \/ Lifecycle!Retried(entry[m], entry'[m])
            \/ Lifecycle!Ended(entry[m], entry'[m])
            \/ Lifecycle!Answered(entry[m], entry'[m])
      BY <2>1 DEF LifeStep
    <2>4. Lifecycle!Next
      BY <2>2, <2>3 DEF Lifecycle!Next
    <2>. QED
      BY <2>4
  <1>. QED
    BY <1>1, <1>2, Invariance, PTL DEF Spec, ImplementsLifecycle, Lifecycle!Spec
=============================================================================
