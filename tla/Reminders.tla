----------------------------- MODULE Reminders -----------------------------
(***************************************************************************)
(* Reminders: SchedulingService and domain/scheduling.py for the API side, *)
(* claim_due_reminders and process_due_reminders for the worker side, and  *)
(* the part of _deliver_outbox that marks a reminder as delivered.         *)
(*                                                                         *)
(* A reminder at a due time is an occurrence; its outbox message is keyed  *)
(* by <<reminder_id, due_at>>.  How a message is delivered is the subject  *)
(* of OutboxDelivery: here a message is leased and settled in one step     *)
(* each, with every outcome open.                                          *)
(*                                                                         *)
(* An operator X_Slip is X with one mistake in it; no specification uses   *)
(* it, it shows that a property notices the slip.                          *)
(***************************************************************************)
EXTENDS Naturals, FiniteSets

CONSTANTS
    Reminders,      \* reminder ids, numbered in their order
    Recurring,      \* those with recurrence daily or weekly
    Cadence,        \* the time between two occurrences
    Workers,        \* processes that run reminder_due_tick
    Creates,        \* bound: create requests for each reminder
    DailyLimit,     \* preferences.daily_limit
    Limit,          \* reminders one tick reads at most (20)
    DayLength,      \* length of a day
    MaxTime,        \* bound: last instant of the clock
    MaxUpdates,     \* bound: how many update requests succeed
    MaxChanges,     \* bound: how often the hold on messages changes
    MaxCrashes      \* bound: how often a tick dies or raises

ASSUME RemindersAssumption ==
    /\ Reminders \subseteq Nat
    /\ Recurring \subseteq Reminders
    /\ Cadence \in Nat \ {0} /\ DayLength \in Nat \ {0}
    /\ Creates \in Nat /\ DailyLimit \in Nat /\ Limit \in Nat /\ MaxTime \in Nat
    /\ MaxUpdates \in Nat /\ MaxChanges \in Nat /\ MaxCrashes \in Nat

Time == 0..MaxTime
DueTime == 0..(MaxTime + Cadence)
Occurrence == Reminders \X DueTime

VARIABLES
    clock,      \* wall clock
    reminder,   \* the reminders table
    request,    \* create requests, between their lookup and their save
    mail,       \* the outbox message of every occurrence
    events,     \* reminder_outbox_queued events of every occurrence
    worker,     \* local state of every worker's reminder_due_tick
    hold,       \* do preferences, quiet hours or risk hold messages back?
    sent,       \* history: occurrences whose message was delivered
    spent       \* updates, changes and crashes so far

vars == <<clock, reminder, request, mail, events, worker, hold, sent, spent>>
-----------------------------------------------------------------------------
(* The reminders table *)

Status == {"scheduled", "due", "snoozed", "completed", "cancelled", "expired"}

Row == [status : Status \cup {"absent"}, due : DueTime, count : Nat]

NoRow == [status |-> "absent", due |-> 0, count |-> 0]

NewRow(due) == [status |-> "scheduled", due |-> due, count |-> 0]

Ended == {"completed", "cancelled", "expired"}

(* _TRANSITIONS *)
Transitions(status) ==
    CASE status = "scheduled" -> {"due", "snoozed"} \cup Ended
      [] status = "due" -> {"snoozed"} \cup Ended
      [] status = "snoozed" -> {"due"} \cup Ended
      [] OTHER -> {}

(* Reminder.transition: another status must be allowed, the same one is.   *)
Reachable(status) == {status} \cup Transitions(status)

(* update_reminder: what a request may make of a row.                      *)
Changed(row, status, due) == [row EXCEPT !.status = status, !.due = due]

(* The first due_at + k days (or weeks) after now. *)
NextDue(due, now) ==
    IF due > now THEN due ELSE due + Cadence * ((now - due) \div Cadence + 1)

(* mark_reminder_delivered: a recurring reminder is scheduled again,       *)
(* whatever its status was.                                                *)
Marked(r, row, now) ==
    IF r \in Recurring
    THEN [status |-> "scheduled", due |-> NextDue(row.due, now), count |-> row.count + 1]
    ELSE [row EXCEPT !.count = @ + 1]
-----------------------------------------------------------------------------
(* Outbox messages, as far as reminders see them *)

Mail == [status : {"none", "queued", "delivering", "delivered", "failed", "answered"},
         made : Time]

NoMail == [status |-> "none", made |-> 0]

(* count_outbox_since(day_start) *)
SentToday(now) ==
    Cardinality({o \in Occurrence :
        /\ mail[o].status \in {"queued", "delivered"}
        /\ mail[o].made >= now - (now % DayLength)})

Request == [pc : {"new", "saving", "done"}, due : Time]

(* A row as a SELECT returned it. *)
Snapshot == [id : Reminders, status : Status, due : DueTime, count : Nat]

SnapshotOf(r) == [id |-> r, status |-> reminder[r].status,
                  due |-> reminder[r].due, count |-> reminder[r].count]

Worker == [pc : {"idle", "claim", "each", "append"}, now : Time,
           rows : SUBSET Snapshot, claimed : SUBSET Occurrence]

IdleWorker == [pc |-> "idle", now |-> 0, rows |-> {}, claimed |-> {}]

Init ==
    /\ clock = 0
    /\ reminder = [r \in Reminders |-> NoRow]
    /\ request = [q \in Reminders \X (1..Creates) |-> [pc |-> "new", due |-> 0]]
    /\ mail = [o \in Occurrence |-> NoMail]
    /\ events = [o \in Occurrence |-> 0]
    /\ worker = [w \in Workers |-> IdleWorker]
    /\ hold \in BOOLEAN
    /\ sent = {}
    /\ spent = [updates |-> 0, changes |-> 0, crashes |-> 0]

Tick ==
    /\ clock < MaxTime
    /\ clock' = clock + 1
    /\ UNCHANGED <<reminder, request, mail, events, worker, hold, sent, spent>>

(* A tick reads the clock once, some time before its statements run.  When *)
(* the modelled time is over, every clock has caught up.                   *)
TickTime == IF clock = MaxTime THEN {clock} ELSE {clock, clock - 1} \cap Time
-----------------------------------------------------------------------------
(* The API *)

(* save_reminder: an upsert of the whole row.                              *)
Save(r, row) == reminder' = [reminder EXCEPT ![r] = row]

(* create_reminder looks for the id outside the transaction that saves it. *)
(* A reminder that is there already answers the request.                   *)
StartCreate(q) ==
    /\ request[q].pc = "new"
    /\ \E due \in Time :
          request' = [request EXCEPT ![q] =
              [pc |-> IF reminder[q[1]].status = "absent" THEN "saving" ELSE "done",
               due |-> due]]
    /\ UNCHANGED <<clock, reminder, mail, events, worker, hold, sent, spent>>

SaveCreate(q) ==
    /\ request[q].pc = "saving"
    /\ request' = [request EXCEPT ![q].pc = "done"]
    /\ Save(q[1], NewRow(request[q].due))
    /\ UNCHANGED <<clock, mail, events, worker, hold, sent, spent>>

(* update, snooze, complete and cancel: one transaction each. *)
Update(r) ==
    /\ spent.updates < MaxUpdates
    /\ reminder[r].status # "absent"
    /\ \E status \in Reachable(reminder[r].status), due \in Time :
          Save(r, Changed(reminder[r], status, due))
    /\ spent' = [spent EXCEPT !.updates = @ + 1]
    /\ UNCHANGED <<clock, request, mail, events, worker, hold, sent>>

(* Preferences are edited, quiet hours begin or end, the risk level        *)
(* changes, other messages use up the day's limit.                         *)
ChangePolicy ==
    /\ spent.changes < MaxChanges
    /\ hold' = ~hold
    /\ spent' = [spent EXCEPT !.changes = @ + 1]
    /\ UNCHANGED <<clock, reminder, request, mail, events, worker, sent>>
-----------------------------------------------------------------------------
(* The worker's reminder_due_tick *)

(* SELECT ... WHERE status IN (...) AND due_at <= ? ORDER BY due_at,       *)
(* reminder_id LIMIT ?                                                     *)
Readable(r, now) ==
    reminder[r].status \in {"scheduled", "snoozed", "due"} /\ reminder[r].due <= now

Before(r, s) ==
    \/ reminder[r].due < reminder[s].due
    \/ reminder[r].due = reminder[s].due /\ r < s

Selected(now) ==
    LET readable == {r \in Reminders : Readable(r, now)}
    IN  {r \in readable : Cardinality({s \in readable : Before(s, r)}) < Limit}

(* The SELECT runs before the transaction of the updates has begun. *)
ReadDue(w) ==
    /\ worker[w].pc = "idle"
    /\ \E now \in TickTime :
          /\ Selected(now) # {}
          /\ worker' = [worker EXCEPT ![w] =
                [IdleWorker EXCEPT !.pc = "claim", !.now = now,
                    !.rows = {SnapshotOf(r) : r \in Selected(now)}]]
    /\ UNCHANGED <<clock, reminder, request, mail, events, hold, sent, spent>>

NothingDue(w) ==
    /\ worker[w].pc = "idle"
    /\ Selected(clock) = {}
    /\ UNCHANGED vars

(* UPDATE ... WHERE reminder_id = ? AND status IN ('scheduled', 'snoozed') *)
Updated(row) == reminder[row.id].status \in {"scheduled", "snoozed"}

Claimed_OnlyOnce(rows) == {row \in rows : Updated(row)}

Claimed(rows) ==
    {row \in rows : Updated(row) \/ (row.status = "due" /\ row.count = 0)}

Rest(w, claimed) ==
    IF claimed = {} THEN IdleWorker
    ELSE [worker[w] EXCEPT !.pc = "each", !.rows = {}, !.claimed = claimed]

ClaimDue_Unguarded(w) ==
    /\ worker[w].pc = "claim"
    /\ LET rows == worker[w].rows
       IN  /\ reminder' = [r \in Reminders |->
                 IF r \in {row.id : row \in rows}
                 THEN [reminder[r] EXCEPT !.status = "due"] ELSE reminder[r]]
           /\ worker' = [worker EXCEPT ![w] =
                 Rest(w, {<<row.id, row.due>> : row \in Claimed(rows)})]
    /\ UNCHANGED <<clock, request, mail, events, hold, sent, spent>>

ClaimDue(w) ==
    /\ worker[w].pc = "claim"
    /\ LET rows == worker[w].rows
       IN  /\ reminder' = [r \in Reminders |->
                 IF r \in {row.id : row \in {x \in rows : Updated(x)}}
                 THEN [reminder[r] EXCEPT !.status = "due"] ELSE reminder[r]]
           /\ worker' = [worker EXCEPT ![w] =
                 Rest(w, {<<row.id, row.due>> : row \in Claimed(rows)})]
    /\ UNCHANGED <<clock, request, mail, events, hold, sent, spent>>

First(claimed) ==
    {o \in claimed : \A p \in claimed : o[2] < p[2] \/ (o[2] = p[2] /\ o[1] <= p[1])}

(* get_outbox_by_idempotency_key, then outbound_permitted. *)
Permitted(now) == ~hold /\ SentToday(now) < DailyLimit

Check(w) ==
    /\ worker[w].pc = "each"
    /\ \E o \in First(worker[w].claimed) :
          worker' = [worker EXCEPT ![w] =
              IF mail[o].status = "none" /\ Permitted(worker[w].now)
              THEN [@ EXCEPT !.pc = "append"]
              ELSE Rest(w, worker[w].claimed \ {o})]
    /\ UNCHANGED <<clock, reminder, request, mail, events, hold, sent, spent>>

(* The transaction that looks for the message again and adds it with its   *)
(* event.                                                                  *)
Append_NoRecheck(w) ==
    /\ worker[w].pc = "append"
    /\ \E o \in First(worker[w].claimed) :
          /\ mail' = [mail EXCEPT ![o] =
                IF @.status = "none" THEN [status |-> "queued", made |-> worker[w].now] ELSE @]
          /\ events' = [events EXCEPT ![o] = @ + 1]
          /\ worker' = [worker EXCEPT ![w] = Rest(w, worker[w].claimed \ {o})]
    /\ UNCHANGED <<clock, reminder, request, hold, sent, spent>>

Append(w) ==
    /\ worker[w].pc = "append"
    /\ \E o \in First(worker[w].claimed) :
          /\ IF mail[o].status = "none"
             THEN /\ mail' = [mail EXCEPT ![o] =
                        [status |-> "queued", made |-> worker[w].now]]
                  /\ events' = [events EXCEPT ![o] = @ + 1]
             ELSE UNCHANGED <<mail, events>>
          /\ worker' = [worker EXCEPT ![w] = Rest(w, worker[w].claimed \ {o})]
    /\ UNCHANGED <<clock, reminder, request, hold, sent, spent>>

(* The process dies, or a statement raises: what it claimed stays claimed. *)
Crash(w) ==
    /\ worker[w].pc # "idle"
    /\ spent.crashes < MaxCrashes
    /\ worker' = [worker EXCEPT ![w] = IdleWorker]
    /\ spent' = [spent EXCEPT !.crashes = @ + 1]
    /\ UNCHANGED <<clock, reminder, request, mail, events, hold, sent>>
-----------------------------------------------------------------------------
(* The message: leased, settled by update_outbox_delivery in the           *)
(* transaction that marks the reminder, or answered by the user            *)

Lease(o) ==
    /\ mail[o].status = "queued"
    /\ mail' = [mail EXCEPT ![o].status = "delivering"]
    /\ UNCHANGED <<clock, reminder, request, events, worker, hold, sent, spent>>

Settle(o) ==
    /\ mail[o].status = "delivering"
    /\ \E status \in {"queued", "delivered", "failed"} :
          /\ mail' = [mail EXCEPT ![o].status = status]
          /\ IF status = "delivered"
             THEN /\ sent' = sent \cup {o}
                  /\ \E now \in TickTime :
                        Save(o[1], Marked(o[1], reminder[o[1]], now))
             ELSE UNCHANGED <<sent, reminder>>
    /\ UNCHANGED <<clock, request, events, worker, hold, spent>>

Answer(o) ==
    /\ mail[o].status \notin {"none", "answered"}
    /\ mail' = [mail EXCEPT ![o].status = "answered"]
    /\ UNCHANGED <<clock, reminder, request, events, worker, hold, sent, spent>>
-----------------------------------------------------------------------------
Work(w) ==
    ReadDue(w) \/ NothingDue(w) \/ ClaimDue(w) \/ Check(w) \/ Append(w)

(* What a user can ask of the API. *)
Api ==
    \/ \E q \in Reminders \X (1..Creates) : StartCreate(q) \/ SaveCreate(q)
    \/ \E r \in Reminders : Update(r)
    \/ ChangePolicy

Next ==
    \/ Tick \/ Api
    \/ \E w \in Workers : Work(w) \/ Crash(w)
    \/ \E o \in Occurrence : Lease(o) \/ Settle(o) \/ Answer(o)

Spec == Init /\ [][Next]_vars

(* reminder_due_tick and outbox_delivery are periodic jobs (see JobQueue). *)
FairSpec ==
    /\ Spec
    /\ WF_vars(Tick)
    /\ \A w \in Workers : WF_vars(Work(w))
    /\ \A o \in Occurrence : WF_vars(Lease(o) \/ Settle(o))
-----------------------------------------------------------------------------
(* Properties *)

(* Every variable has its type. *)
TypeOK ==
    /\ clock \in Time
    /\ reminder \in [Reminders -> Row]
    /\ request \in [Reminders \X (1..Creates) -> Request]
    /\ mail \in [Occurrence -> Mail]
    /\ events \in [Occurrence -> Nat]
    /\ worker \in [Workers -> Worker]
    /\ hold \in BOOLEAN
    /\ sent \in SUBSET Occurrence
    /\ spent \in [updates : Nat, changes : Nat, crashes : Nat]

(* However many workers claim the same occurrence (a reminder that is due  *)
(* and undelivered is claimed by every tick), it has one message and one   *)
(* event: "concurrent workers cannot create an orphan event".              *)
OneEventPerMessage ==
    \A o \in Occurrence : events[o] = IF mail[o].status = "none" THEN 0 ELSE 1

(* delivery_count counts every delivered occurrence once: retries, failed  *)
(* attempts, answers and updates in between neither add to it nor lose any. *)
CountIsTrue ==
    \A r \in Reminders : reminder[r].count = Cardinality({o \in sent : o[1] = r})

(* The status of a one-time reminder moves along _TRANSITIONS, whoever     *)
(* writes it: a claim based on an old SELECT never reopens a reminder that *)
(* was completed or cancelled in between.                                  *)
MovesAreAllowed ==
    [][\A r \in Reminders \ Recurring :
          LET old == reminder[r].status
              new == reminder'[r].status
          IN  old = "absent" \/ new = old \/ new \in Transitions(old)]_vars

(* A reminder is sent at its due time or later, never early: a message's   *)
(* occurrence was due when the tick that made it read the clock, whatever  *)
(* became of the reminder since.                                           *)
NeverEarly ==
    \A o \in Occurrence : mail[o].status # "none" => o[2] <= mail[o].made

(* Held back, crashed over, seen by a stale tick or moved by the user, a   *)
(* one-time reminder that was not delivered yet gets its message when its  *)
(* time has come, once messages are no longer held.                        *)
OneTimeIsQueued ==
    <>[]~hold =>
        \A r \in Reminders \ Recurring :
            (reminder[r].status # "absent" /\ reminder[r].count = 0)
                ~> \/ reminder[r].status \in Ended \/ reminder[r].count > 0
                   \/ mail[<<r, reminder[r].due>>].status # "none"

(* "A suppressed reminder can be retried at the next legal tick": so can   *)
(* every occurrence of a recurring one.                                    *)
SuppressedIsRetried ==
    <>[]~hold =>
        \A r \in Reminders, d \in Time :
            (reminder[r].status = "due" /\ reminder[r].due = d)
                ~> (reminder[r].status # "due" \/ mail[<<r, d>>].status # "none")

(* A daily reminder queues each occurrence: when one is over, the next one *)
(* is scheduled.                                                           *)
NextOccurrenceComes ==
    <>[]~hold =>
        \A r \in Recurring, d \in Time :
            (reminder[r].status = "due" /\ reminder[r].due = d)
                ~> (reminder[r].status \in Ended \/ reminder[r].due > d)

(* Nothing leaves a final status: _TRANSITIONS of it is empty. *)
FinalIsFinal ==
    [][\A r \in Reminders :
          reminder[r].status \in Ended => reminder'[r].status = reminder[r].status]_vars

(* A cancelled reminder is not delivered: no worker starts on its message. *)
CancelledIsSilent ==
    [][\A o \in Occurrence :
          mail[o].status = "queued" /\ mail'[o].status = "delivering"
              => reminder[o[1]].status # "cancelled"]_vars

(* No more messages a day than the daily limit, failed ones aside. *)
WithinDailyLimit ==
    \A day \in {t \in Time : t % DayLength = 0} :
        Cardinality({o \in Occurrence :
            /\ mail[o].status \notin {"none", "failed"}
            /\ mail[o].made \in day..(day + DayLength - 1)}) <= DailyLimit

(* Creating a reminder again, with the same id, changes nothing. *)
CreateIsIdempotent ==
    [][\A q \in Reminders \X (1..Creates) :
          request[q].pc = "saving" /\ request'[q].pc = "done" =>
              \/ reminder[q[1]].status = "absent"
              \/ reminder'[q[1]] = reminder[q[1]]]_vars
=============================================================================
