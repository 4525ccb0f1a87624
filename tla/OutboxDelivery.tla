--------------------------- MODULE OutboxDelivery ---------------------------
(***************************************************************************)
(* The outbox and the workers that deliver it: append_outbox,              *)
(* claim_deliverable_outbox, update_outbox_delivery, record_outbox_feedback *)
(* and record_outbox_receipt of CompanionRuntimeStore, _deliver_outbox of  *)
(* CompanionWorker, and NotificationBridge.deliver with its FCM fan-out.   *)
(*                                                                         *)
(* A delivery is a lease on the row, a read of the registered devices, one *)
(* network call per device and a transaction that settles the row; API     *)
(* requests (user feedback, client receipts, device registration) come in  *)
(* between any two of these.  The clock is as in JobQueue: at MaxTime      *)
(* everything is due and every lease has run out.                          *)
(*                                                                         *)
(* A lease token names the worker that made it: a process delivers one     *)
(* batch at a time, so it never has two claims on one message.             *)
(*                                                                         *)
(* An operator X_Slip is X with one mistake in it; no specification uses   *)
(* it, it shows that a property notices the slip.                          *)
(***************************************************************************)
EXTENDS Naturals, FiniteSets

CONSTANTS
    Messages,       \* the messages, numbered in the order of created_at
    Devices,        \* registered phones, or the one endpoint of a webhook
    Workers,        \* processes that run _deliver_outbox
    Channels,       \* what the configuration may select: see _select_channel
    LeaseTime,      \* lease_seconds
    SkipDelay,      \* postponement of a message that could not be tried
    BaseDelay,      \* first retry delay (1 minute)
    MaxDelay,       \* its cap (60 minutes)
    MaxAttempts,    \* max_attempts
    Limit,          \* messages one batch claims at most
    MaxTime,        \* bound: last instant of the clock
    MaxCrashes,     \* bound: how often a delivery dies or raises
    MaxChanges,     \* bound: how often a device comes or goes
    MaxReceipts     \* bound: how many receipts the clients post

Cap(t) == IF t < MaxTime THEN t ELSE MaxTime

(* min(2 ** max(attempts - 1, 0), 60) minutes *)
RetryDelay(attempts) ==
    LET delay == BaseDelay * 2 ^ (IF attempts = 0 THEN 0 ELSE attempts - 1)
    IN  IF delay < MaxDelay THEN delay ELSE MaxDelay

NoToken == "none"                       \* delivery_lock_token = ''

ASSUME OutboxAssumption ==
    /\ Messages \subseteq Nat
    /\ Channels \subseteq {"fcm", "webhook", "internal"}
    /\ LeaseTime \in Nat /\ SkipDelay \in Nat
    /\ MaxAttempts \in Nat \ {0}
    /\ Limit \in Nat /\ MaxTime \in Nat
    /\ MaxCrashes \in Nat /\ MaxChanges \in Nat /\ MaxReceipts \in Nat
    /\ \A a \in 0..MaxAttempts : RetryDelay(a) \in Nat
    /\ NoToken \notin Workers

Time == 0..MaxTime

VARIABLES
    channel,    \* the configured channel, the same for every worker
    clock,      \* wall clock
    outbox,     \* the outbox table
    active,     \* devices that read_notification_devices returns
    worker,     \* program counter and local state of every worker
    reading,    \* receipts that have read the payload and not yet written it
    got,        \* history: devices that accepted a message
    repeated,   \* history: devices that accepted it more than once
    lost,       \* history: acceptances nobody will remember
    spent       \* crashes, device changes and receipts so far

vars == <<channel, clock, outbox, active, worker, reading, got, repeated, lost, spent>>

history == <<got, repeated, lost>>
-----------------------------------------------------------------------------
(* The outbox table *)

Row == [status : {"absent", "queued", "retrying", "delivering", "delivered",
                  "failed", "answered"},
        next : Time, until : Time, token : Workers \cup {NoToken},
        attempts : Nat, reached : SUBSET Devices]

NoRow == [status |-> "absent", next |-> 0, until |-> 0, token |-> NoToken,
          attempts |-> 0, reached |-> {}]

Settled(row) == row.status \in {"delivered", "failed", "answered"}

LeaseExpired(row, now) == row.status = "delivering" /\ row.until <= now

Claimable(row, now) ==
    \/ row.status \in {"queued", "retrying"} /\ row.next <= now
    \/ LeaseExpired(row, now)

(* The three outcomes of update_outbox_delivery.  Every one of them ends   *)
(* the lease and adds the devices reached so far to the stored progress.   *)
Released(row, status, next, tried, ids) ==
    [status |-> status, next |-> Cap(next), until |-> 0, token |-> NoToken,
     attempts |-> row.attempts + tried, reached |-> row.reached \cup ids]

GivesUp(row, outcome) ==
    outcome = "gone" \/ (outcome = "fail" /\ row.attempts + 1 >= MaxAttempts)

Reported_ForgetsProgress(row, outcome, ids, now) ==
    CASE outcome = "ok" -> Released(row, "delivered", 0, 1, ids)
      [] outcome = "skip" -> Released(row, "queued", now + SkipDelay, 0, ids)
      [] GivesUp(row, outcome) -> Released(row, "failed", 0, 1, ids)
      [] OTHER -> Released(row, "retrying",
                      now + RetryDelay(row.attempts + 1), 1, {})

Reported(row, outcome, ids, now) ==
    CASE outcome = "ok" -> Released(row, "delivered", 0, 1, ids)
      [] outcome = "skip" -> Released(row, "queued", now + SkipDelay, 0, ids)
      [] GivesUp(row, outcome) -> Released(row, "failed", 0, 1, ids)
      [] OTHER -> Released(row, "retrying",
                      now + RetryDelay(row.attempts + 1), 1, ids)

(* WHERE status = 'delivering' AND delivery_lock_token = ? *)
HoldsLease(w, m) == outbox[m].status = "delivering" /\ outbox[m].token = w
-----------------------------------------------------------------------------
(* Workers *)

(* A claimed row as the worker remembers it: with the progress and the end *)
(* of the lease at the time of the claim.                                  *)
Claim == [message : Messages, reached : SUBSET Devices, until : Time]

Outcomes == {"none", "ok", "skip", "fail", "gone"}

Worker == [pc : {"idle", "next", "send", "fanout", "report"}, now : Time,
           batch : SUBSET Claim, current : SUBSET Claim,
           todo : SUBSET Devices, known : SUBSET Devices,
           retry : {0, 1}, removed : {0, 1}, outcome : Outcomes]

IdleWorker == [pc |-> "idle", now |-> 0, batch |-> {}, current |-> {},
               todo |-> {}, known |-> {}, retry |-> 0, removed |-> 0,
               outcome |-> "none"]

Init ==
    /\ channel \in Channels
    /\ clock = 0
    /\ outbox = [m \in Messages |-> NoRow]
    /\ active \in SUBSET Devices
    /\ worker = [w \in Workers |-> IdleWorker]
    /\ reading = [m \in Messages |-> {}]
    /\ got = [m \in Messages |-> {}]
    /\ repeated = [m \in Messages |-> {}]
    /\ lost = [m \in Messages |-> {}]
    /\ spent = [crashes |-> 0, changes |-> 0, receipts |-> 0]

Tick ==
    /\ clock < MaxTime
    /\ clock' = clock + 1
    /\ UNCHANGED <<channel, outbox, active, worker, reading, history, spent>>

(* append_outbox: one row per idempotency key, whoever comes first.        *)
Append(m) ==
    /\ outbox[m].status = "absent"
    /\ outbox' = [outbox EXCEPT ![m].status = "queued"]
    /\ UNCHANGED <<channel, clock, active, worker, reading, history, spent>>

(* claim_deliverable_outbox: the Limit oldest due rows, in one transaction. *)
(* Its clock is the tick's: it may be older than the wall clock.           *)
Due(now) == {m \in Messages : Claimable(outbox[m], now)}

Oldest(candidates) ==
    {m \in candidates : Cardinality({k \in candidates : k < m}) < Limit}

ClaimDeliverable(w) ==
    /\ worker[w].pc = "idle"
    /\ \E now \in {clock, clock - 1} \cap Time :
          LET batch == Oldest(Due(now))
              until == Cap(now + LeaseTime)
          IN  /\ batch # {}
              /\ outbox' = [m \in Messages |->
                    IF m \in batch
                    THEN [outbox[m] EXCEPT !.status = "delivering",
                              !.token = w, !.until = until]
                    ELSE outbox[m]]
              /\ worker' = [worker EXCEPT ![w] =
                    [IdleWorker EXCEPT !.pc = "next", !.now = now,
                        !.batch = {[message |-> m, reached |-> outbox[m].reached,
                                    until |-> until] : m \in batch}]]
    /\ UNCHANGED <<channel, clock, active, reading, history, spent>>

(* Nothing is due: the batch is empty and the handler returns.             *)
NothingDue(w) ==
    /\ worker[w].pc = "idle"
    /\ Due(clock) = {}
    /\ UNCHANGED vars

(* deliver(), up to its first look at the registered devices.              *)
FirstOf(batch) == {c \in batch : \A d \in batch : c.message <= d.message}

FirstLook(c) ==
    CASE channel = "internal" -> "skip"
      [] channel = "fcm" /\ active = {} -> IF c.reached = {} THEN "skip" ELSE "ok"
      [] OTHER -> "none"

Take_IgnoresProgress(w) ==
    /\ worker[w].pc = "next"
    /\ \E c \in FirstOf(worker[w].batch) :
          worker' = [worker EXCEPT ![w] = [worker[w] EXCEPT
              !.pc = IF FirstLook(c) = "none" THEN "send" ELSE "report",
              !.outcome = FirstLook(c),
              !.batch = @ \ {c}, !.current = {c},
              !.known = {},
              !.todo = {}, !.retry = 0, !.removed = 0]]
    /\ UNCHANGED <<channel, clock, outbox, active, reading, history, spent>>

Take(w) ==
    /\ worker[w].pc = "next"
    /\ \E c \in FirstOf(worker[w].batch) :
          worker' = [worker EXCEPT ![w] = [worker[w] EXCEPT
              !.pc = IF FirstLook(c) = "none" THEN "send" ELSE "report",
              !.outcome = FirstLook(c),
              !.batch = @ \ {c}, !.current = {c},
              !.known = IF channel = "fcm" THEN c.reached ELSE {},
              !.todo = {}, !.retry = 0, !.removed = 0]]
    /\ UNCHANGED <<channel, clock, outbox, active, reading, history, spent>>

(* Fetching the FCM credentials raises: the failure carries no device ids. *)
CredentialsFail(w) ==
    /\ worker[w].pc = "send"
    /\ channel = "fcm"
    /\ worker' = [worker EXCEPT ![w].pc = "report", ![w].outcome = "fail",
                                ![w].known = {}]
    /\ UNCHANGED <<channel, clock, outbox, active, reading, history, spent>>

(* _deliver_fcm reads the devices a second time and leaves out the ones    *)
(* that already have the message.                                          *)
ListDevices(w) ==
    /\ worker[w].pc = "send"
    /\ channel = "fcm"
    /\ LET pending == active \ worker[w].known
       IN  worker' = [worker EXCEPT
              ![w].pc = IF pending = {} THEN "report" ELSE "fanout",
              ![w].outcome = IF pending = {} THEN "ok" ELSE "none",
              ![w].todo = pending]
    /\ UNCHANGED <<channel, clock, outbox, active, reading, history, spent>>

(* The verdict over the whole fan-out. *)
Verdict_GoneBeforeReached(known, retry, removed) ==
    CASE retry = 1 -> "fail"
      [] retry = 0 /\ removed = 1 -> "gone"
      [] retry = 0 /\ removed = 0 /\ known # {} -> "ok"
      [] OTHER -> "fail"

Verdict(known, retry, removed) ==
    CASE retry = 1 -> "fail"
      [] retry = 0 /\ known # {} -> "ok"
      [] retry = 0 /\ known = {} /\ removed = 1 -> "gone"
      [] OTHER -> "fail"

(* What became of one push, with the worker's counters after it.           *)
AfterPush(w, d, delivered, retry, removed) ==
    LET me == worker[w]
        todo == me.todo \ {d}
        known == me.known \cup delivered
    IN  worker' = [worker EXCEPT ![w] = [me EXCEPT
            !.todo = todo, !.known = known, !.retry = retry, !.removed = removed,
            !.pc = IF todo = {} THEN "report" ELSE "fanout",
            !.outcome = IF todo = {} THEN Verdict(known, retry, removed) ELSE "none"]]

Accepts(m, d) ==
    /\ got' = [got EXCEPT ![m] = @ \cup {d}]
    /\ repeated' = [repeated EXCEPT ![m] = @ \cup (got[m] \cap {d})]

(* FCM answers 2xx ... *)
PushAccepted(w) ==
    /\ worker[w].pc = "fanout"
    /\ \E c \in worker[w].current, d \in worker[w].todo :
          /\ Accepts(c.message, d)
          /\ AfterPush(w, d, {d}, worker[w].retry, worker[w].removed)
    /\ UNCHANGED <<channel, clock, outbox, active, reading, lost, spent>>

(* ... or accepts the push but the answer is lost ... *)
PushUnanswered(w) ==
    /\ worker[w].pc = "fanout"
    /\ \E c \in worker[w].current, d \in worker[w].todo :
          /\ \/ /\ Accepts(c.message, d)
                /\ lost' = [lost EXCEPT ![c.message] = @ \cup {d}]
             \/ UNCHANGED history
          /\ AfterPush(w, d, {}, 1, worker[w].removed)
    /\ UNCHANGED <<channel, clock, outbox, active, reading, spent>>

(* ... or says the device is gone, which disables it.                      *)
PushUnregistered(w) ==
    /\ worker[w].pc = "fanout"
    /\ \E d \in worker[w].todo :
          /\ active' = active \ {d}
          /\ AfterPush(w, d, {}, worker[w].retry, 1)
    /\ UNCHANGED <<channel, clock, outbox, reading, history, spent>>

(* Webhook, Telegram and Bark: one call, no device ids in the metadata.    *)
Post(w) ==
    /\ worker[w].pc = "send"
    /\ channel = "webhook"
    /\ \E c \in worker[w].current, d \in Devices :
          \/ /\ Accepts(c.message, d)
             /\ lost' = [lost EXCEPT ![c.message] = @ \cup {d}]
             /\ worker' = [worker EXCEPT ![w].pc = "report", ![w].outcome = "ok"]
          \/ /\ Accepts(c.message, d)
             /\ lost' = [lost EXCEPT ![c.message] = @ \cup {d}]
             /\ worker' = [worker EXCEPT ![w].pc = "report", ![w].outcome = "fail"]
          \/ /\ UNCHANGED history
             /\ worker' = [worker EXCEPT ![w].pc = "report", ![w].outcome = "fail"]
    /\ UNCHANGED <<channel, clock, outbox, active, reading, spent>>

(* update_outbox_delivery and the receipt, in one transaction: nothing is  *)
(* written if the lease is no longer this worker's.                        *)
Known(w, m) ==
    IF \E c \in worker[w].current : c.message = m THEN worker[w].known ELSE {}

Forget(w) == [m \in Messages |-> lost[m] \cup (Known(w, m) \ outbox[m].reached)]

Report_Unguarded(w) ==
    /\ worker[w].pc = "report"
    /\ \E c \in worker[w].current :
          outbox' = [outbox EXCEPT ![c.message] =
              Reported(@, worker[w].outcome, worker[w].known, worker[w].now)]
    /\ worker' = [worker EXCEPT ![w] =
          [IdleWorker EXCEPT !.pc = IF worker[w].batch = {} THEN "idle" ELSE "next",
              !.now = IF worker[w].batch = {} THEN 0 ELSE worker[w].now,
              !.batch = worker[w].batch]]
    /\ UNCHANGED <<channel, clock, active, reading, history, spent>>

Report(w) ==
    /\ worker[w].pc = "report"
    /\ \E c \in worker[w].current :
          IF HoldsLease(w, c.message)
          THEN /\ outbox' = [outbox EXCEPT ![c.message] =
                     Reported(@, worker[w].outcome, worker[w].known, worker[w].now)]
               /\ UNCHANGED lost
          ELSE /\ lost' = Forget(w)
               /\ UNCHANGED outbox
    /\ worker' = [worker EXCEPT ![w] =
          [IdleWorker EXCEPT !.pc = IF worker[w].batch = {} THEN "idle" ELSE "next",
              !.now = IF worker[w].batch = {} THEN 0 ELSE worker[w].now,
              !.batch = worker[w].batch]]
    /\ UNCHANGED <<channel, clock, active, reading, got, repeated, spent>>

(* The process dies, or a statement raises out of _deliver_outbox: the     *)
(* rest of the batch stays leased until the leases run out.                *)
Abandon(w) ==
    /\ worker[w].pc # "idle"
    /\ spent.crashes < MaxCrashes
    /\ worker' = [worker EXCEPT ![w] = IdleWorker]
    /\ lost' = Forget(w)
    /\ spent' = [spent EXCEPT !.crashes = @ + 1]
    /\ UNCHANGED <<channel, clock, outbox, active, reading, got, repeated>>
-----------------------------------------------------------------------------
(* The API *)

(* record_outbox_feedback: the user's answer becomes the status of the     *)
(* row, whatever it was; the lease columns are left alone.                 *)
Feedback(m) ==
    /\ outbox[m].status \notin {"absent", "answered"}
    /\ outbox' = [outbox EXCEPT ![m].status = "answered"]
    /\ UNCHANGED <<channel, clock, active, worker, reading, history, spent>>

(* record_outbox_receipt for a client: the payload is read in one          *)
(* transaction and written back, as a whole, in another.                   *)
ReadReceipt(m) ==
    /\ spent.receipts < MaxReceipts
    /\ outbox[m].status # "absent"
    /\ reading[m] = {}
    /\ reading' = [reading EXCEPT ![m] = {outbox[m].reached}]
    /\ spent' = [spent EXCEPT !.receipts = @ + 1]
    /\ UNCHANGED <<channel, clock, outbox, active, worker, history>>

WriteReceipt(m) ==
    /\ \E seen \in reading[m] :
          /\ outbox' = [outbox EXCEPT ![m].reached = seen]
          /\ lost' = [lost EXCEPT ![m] = @ \cup (outbox[m].reached \ seen)]
    /\ reading' = [reading EXCEPT ![m] = {}]
    /\ UNCHANGED <<channel, clock, active, worker, got, repeated, spent>>

Receipt(m) == ReadReceipt(m) \/ WriteReceipt(m)

(* upsert_notification_device: a phone is registered, or is active again.  *)
RegisterDevice(d) ==
    /\ spent.changes < MaxChanges
    /\ d \notin active
    /\ active' = active \cup {d}
    /\ spent' = [spent EXCEPT !.changes = @ + 1]
    /\ UNCHANGED <<channel, clock, outbox, worker, reading, history>>

(* A device is disabled, or all those of a session that is revoked, runs   *)
(* out or has been idle too long.                                          *)
LoseDevices ==
    /\ spent.changes < MaxChanges
    /\ \E gone \in SUBSET active : gone # {} /\ active' = active \ gone
    /\ spent' = [spent EXCEPT !.changes = @ + 1]
    /\ UNCHANGED <<channel, clock, outbox, worker, reading, history>>

Deliver(w) ==
    \/ ClaimDeliverable(w) \/ NothingDue(w) \/ Take(w) \/ CredentialsFail(w) \/ ListDevices(w)
    \/ PushAccepted(w) \/ PushUnanswered(w) \/ PushUnregistered(w)
    \/ Post(w) \/ Report(w)

Request ==
    \/ \E m \in Messages : Append(m) \/ Feedback(m) \/ Receipt(m)
    \/ \E d \in Devices : RegisterDevice(d)
    \/ LoseDevices

Next == Tick \/ Request \/ \E w \in Workers : Deliver(w) \/ Abandon(w)

Spec == Init /\ [][Next]_vars

(* outbox_delivery is a periodic job (see JobQueue): some worker goes on    *)
(* delivering, and time passes.  No request and no crash is ever owed.     *)
FairSpec == Spec /\ WF_vars(Tick) /\ \A w \in Workers : WF_vars(Deliver(w))
-----------------------------------------------------------------------------
(* Properties *)

Claims(w) == worker[w].batch \cup worker[w].current

(* Every variable has its type. *)
TypeOK ==
    /\ channel \in Channels
    /\ clock \in Time
    /\ outbox \in [Messages -> Row]
    /\ active \in SUBSET Devices
    /\ worker \in [Workers -> Worker]
    /\ reading \in [Messages -> SUBSET SUBSET Devices]
    /\ got \in [Messages -> SUBSET Devices]
    /\ repeated \in [Messages -> SUBSET Devices]
    /\ lost \in [Messages -> SUBSET Devices]
    /\ spent \in [crashes : Nat, changes : Nat, receipts : Nat]

(* A worker keeps the lease of a claimed message until the lease time is   *)
(* over; the only thing that takes it away earlier is the user's answer.   *)
LeaseIsKept ==
    \A w \in Workers : \A c \in Claims(w) :
        \/ HoldsLease(w, c.message)
        \/ c.until <= clock
        \/ outbox[c.message].status = "answered"

(* The stored progress never claims too much: a device listed in           *)
(* delivered_device_ids has the message, so no retry passes it over.       *)
ReachedIsTrue == \A m \in Messages : outbox[m].reached \subseteq got[m]

(* An accepted push is stored as progress, or is known to a worker that    *)
(* has yet to report, unless it was lost to an unanswered call, a crash,   *)
(* an expired lease, an answered message or a receipt that overwrote it.   *)
AcceptedIsAccounted ==
    channel = "fcm" =>
        \A m \in Messages : got[m] \subseteq
            outbox[m].reached \cup lost[m] \cup UNION {Known(w, m) : w \in Workers}

(* A device is sent a message it already has only if its first acceptance  *)
(* was lost, or while a worker whose lease has run out is still at work.   *)
RepeatsAreExplained ==
    [][\A m \in Messages : \A d \in repeated'[m] \ repeated[m] :
          \/ d \in lost[m]
          \/ \E w \in Workers :
                /\ ~HoldsLease(w, m)
                /\ \E c \in worker[w].current : c.message = m
                /\ d \in worker[w].known \cup (worker[w].todo \ worker'[w].todo)]_vars

(* A message is given up before its last attempt only when it reached      *)
(* nobody: devices that are gone never turn a partial success into a       *)
(* failure.                                                                *)
GiveUpIsJustified ==
    \A m \in Messages : outbox[m].status = "failed" =>
        outbox[m].attempts = MaxAttempts \/ outbox[m].reached = {}

(* The table implements the life cycle of OutboxLifecycle: leases, stale    *)
(* workers, device changes and receipts never charge an attempt twice,      *)
(* exceed MaxAttempts or revive a message.                                  *)
EntryOf(row) ==
    [phase |-> IF row.status \in {"queued", "retrying", "delivering"}
               THEN "pending" ELSE row.status,
     attempts |-> row.attempts]

Lifecycle == INSTANCE OutboxLifecycle WITH
    entry <- [m \in Messages |-> EntryOf(outbox[m])]

ImplementsLifecycle == Lifecycle!Spec

(* "Expired leases are reclaimable so a worker crash cannot strand a       *)
(* notification forever": with a device to reach, every message is         *)
(* delivered, given up or answered.                                        *)
EveryMessageSettles ==
    <>[](active # {}) =>
        \A m \in Messages : (outbox[m].status # "absent") ~> Settled(outbox[m])

(* The progress kept for a retry is never forgotten. *)
ProgressIsKept ==
    [][\A m \in Messages : outbox[m].reached \subseteq outbox'[m].reached]_vars

(* A message is marked delivered only after a provider took it for some    *)
(* device.                                                                 *)
DeliveredReachedSomeone ==
    \A m \in Messages : outbox[m].status = "delivered" => got[m] # {}

(* No device is sent the same message twice. *)
NeverTwice == \A m \in Messages : repeated[m] = {}
=============================================================================
