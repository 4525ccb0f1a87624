-------------------------- MODULE RemindersProofs --------------------------
(***************************************************************************)
(* Proofs about Reminders, for every set of reminders and workers and      *)
(* every cadence, limit and bound.                                         *)
(*                                                                         *)
(* What a worker does with a reminder rests on what it read some time ago. *)
(* ReminderInv says what of that is still true: the reminder is there, and *)
(* its occurrence was due at the worker's time.  With one create request   *)
(* for each id (Creates <= 1) nothing is ever created over a reminder that *)
(* is there (CreateInv); what two requests do is in RemindersRecreated.    *)
(***************************************************************************)
EXTENDS Reminders, TLAPS, FiniteSetTheorems

Present(r) == reminder[r].status # "absent"

(* What a worker has read or claimed is there, and was due.                *)
HoldsDue(w) ==
    /\ \A row \in worker[w].rows : Present(row.id) /\ row.due <= worker[w].now
    /\ \A o \in worker[w].claimed : Present(o[1]) /\ o[2] <= worker[w].now

HeldInv == \A w \in Workers : HoldsDue(w)

(* A message is about a reminder that is there.                            *)
MailInv == \A o \in Occurrence : mail[o].status # "none" => Present(o[1])

ReminderInv == TypeOK /\ HeldInv /\ MailInv /\ NeverEarly /\ OneEventPerMessage

(* A request that is about to save found nothing, and there still is none. *)
CreateInv ==
    /\ \A q \in Reminders \X (1..Creates) : request[q].pc = "saving" => ~Present(q[1])
    /\ \A r \in Reminders : ~Present(r) => reminder[r].count = 0

(* What was sent is not sent again.                                        *)
SentInv ==
    /\ IsFiniteSet(sent)
    /\ \A o \in sent : mail[o].status \in {"delivered", "answered"}

CountInv == CreateInv /\ SentInv /\ CountIsTrue
-----------------------------------------------------------------------------
(* The operators *)

LEMMA NextDueType ==
  ASSUME NEW due \in DueTime, NEW now \in Time
  PROVE  NextDue(due, now) \in DueTime
  <1>. DEFINE k == (now - due) \div Cadence
  <1>1. Cadence \in Nat /\ Cadence > 0 /\ MaxTime \in Nat
    BY RemindersAssumption
  <1>2. CASE due > now
    BY <1>2 DEF NextDue
  <1>3. CASE ~(due > now)
    <2>1. now - due \in Nat /\ due \in Nat /\ now \in Nat /\ now <= MaxTime
      BY <1>1, <1>3 DEF DueTime, Time
    <2>2. k \in Nat /\ Cadence * k <= now - due
      BY <1>1, <2>1
    <2>3. Cadence * (k + 1) = Cadence * k + Cadence
      BY <1>1, <2>2
    <2>4. Cadence * k \in Nat
      BY <1>1, <2>2
    <2>5. NextDue(due, now) = due + Cadence * (k + 1)
      BY <1>3 DEF NextDue
    <2>. HIDE DEF k
    <2>. QED
      BY <1>1, <2>1, <2>2, <2>3, <2>4, <2>5 DEF DueTime
  <1>. QED
    BY <1>2, <1>3

LEMMA MarkedRow ==
  ASSUME NEW r \in Reminders, NEW row \in Row, NEW now \in Time
  PROVE  /\ Marked(r, row, now) \in Row
         /\ Marked(r, row, now).count = row.count + 1
         /\ r \notin Recurring => Marked(r, row, now).status = row.status
         /\ row.status # "absent" => Marked(r, row, now).status # "absent"
  <1>1. row.due \in DueTime /\ row.count + 1 \in Nat
    BY DEF Row
  <1>2. CASE r \in Recurring
    BY <1>1, <1>2, NextDueType DEF Marked, Row, Status
  <1>3. CASE r \notin Recurring
    <2>1. Marked(r, row, now) = [row EXCEPT !.count = row.count + 1]
      BY <1>3 DEF Marked
    <2>. QED
      BY <1>1, <1>3, <2>1 DEF Row
  <1>. QED
    BY <1>2, <1>3

LEMMA NewRowType ==
  ASSUME NEW due \in Time
  PROVE  NewRow(due) \in Row /\ NewRow(due).count = 0 /\ NewRow(due).status = "scheduled"
  BY RemindersAssumption DEF NewRow, Row, Status, Time, DueTime

LEMMA ChangedRow ==
  ASSUME NEW row \in Row, row.status # "absent",
         NEW status \in Reachable(row.status), NEW due \in Time
  PROVE  /\ Changed(row, status, due) \in Row
         /\ Changed(row, status, due).status = status
         /\ Changed(row, status, due).status # "absent"
         /\ Changed(row, status, due).count = row.count
  <1>1. status \in Status
    BY DEF Reachable, Transitions, Ended, Status, Row
  <1>2. due \in DueTime
    BY RemindersAssumption DEF Time, DueTime
  <1>. QED
    BY <1>1, <1>2 DEF Changed, Row, Status

LEMMA SnapshotType ==
  ASSUME reminder \in [Reminders -> Row], NEW r \in Reminders, Present(r)
  PROVE  SnapshotOf(r) \in Snapshot
  BY DEF SnapshotOf, Snapshot, Row, Present, Status

LEMMA RestType ==
  ASSUME worker \in [Workers -> Worker], NEW w \in Workers,
         NEW claimed \in SUBSET Occurrence
  PROVE  Rest(w, claimed) \in Worker
  <1>1. IdleWorker \in Worker
    BY RemindersAssumption DEF Worker, IdleWorker, Time
  <1>2. [worker[w] EXCEPT !.pc = "each", !.rows = {}, !.claimed = claimed] \in Worker
    <2>1. worker[w] \in Worker /\ {} \in SUBSET Snapshot
      OBVIOUS
    <2>. QED
      BY <2>1 DEF Worker
  <1>. QED
    BY <1>1, <1>2 DEF Rest

(* What a worker goes on with are the occurrences named, at its own time.  *)
LEMMA RestHolds ==
  ASSUME worker \in [Workers -> Worker], NEW w \in Workers, NEW claimed
  PROVE  /\ Rest(w, claimed).rows = {}
         /\ Rest(w, claimed).claimed = claimed
         /\ claimed # {} => Rest(w, claimed).now = worker[w].now
  BY DEF Rest, Worker, IdleWorker

LEMMA TickTimeType == clock \in Time => TickTime \subseteq Time
  BY DEF TickTime

LEMMA FirstIsClaimed == ASSUME NEW claimed PROVE First(claimed) \subseteq claimed
  BY DEF First
-----------------------------------------------------------------------------
(* Type correctness *)

LEMMA InitTypeOK == Init => TypeOK
  BY RemindersAssumption
  DEF Init, TypeOK, Time, DueTime, Row, NoRow, Status, Request, Mail, NoMail, Worker, IdleWorker

LEMMA SavedType ==
  ASSUME TypeOK, NEW r \in Reminders, NEW row \in Row, Save(r, row)
  PROVE  reminder' \in [Reminders -> Row]
  BY DEF Save, TypeOK

LEMMA MailType ==
  ASSUME NEW m \in Mail, NEW status \in {"queued", "delivering", "delivered", "failed", "answered"}
  PROVE  [m EXCEPT !.status = status] \in Mail
  BY DEF Mail

LEMMA RequestType ==
  ASSUME NEW q \in Request
  PROVE  [q EXCEPT !.pc = "done"] \in Request
  BY DEF Request

(* What ClaimDue and the steps after it leave a worker with.               *)
LEMMA ClaimedType ==
  ASSUME NEW rows \in SUBSET Snapshot
  PROVE  {<<row.id, row.due>> : row \in Claimed(rows)} \in SUBSET Occurrence
  BY DEF Claimed, Snapshot, Occurrence

LEMMA NextTypeOK ==
  ASSUME TypeOK, Next
  PROVE  TypeOK'
  <1>1. CASE Tick
    BY <1>1, RemindersAssumption DEF Tick, TypeOK, Time
  <1>2. ASSUME NEW q \in Reminders \X (1..Creates), StartCreate(q) PROVE TypeOK'
    <2>1. PICK due \in Time : request' = [request EXCEPT ![q] =
              [pc |-> IF reminder[q[1]].status = "absent" THEN "saving" ELSE "done",
               due |-> due]]
      BY <1>2 DEF StartCreate
    <2>2. request' \in [Reminders \X (1..Creates) -> Request]
      BY <2>1 DEF TypeOK, Request
    <2>. QED
      BY <1>2, <2>2 DEF StartCreate, TypeOK
  <1>3. ASSUME NEW q \in Reminders \X (1..Creates), SaveCreate(q) PROVE TypeOK'
    <2>1. q[1] \in Reminders /\ request[q] \in Request /\ request[q].due \in Time
      BY DEF TypeOK, Request
    <2>2. reminder' \in [Reminders -> Row]
      BY <1>3, <2>1, NewRowType, SavedType DEF SaveCreate
    <2>3. request' \in [Reminders \X (1..Creates) -> Request]
      BY <1>3, <2>1, RequestType DEF SaveCreate, TypeOK
    <2>. QED
      BY <1>3, <2>2, <2>3 DEF SaveCreate, TypeOK
  <1>4. ASSUME NEW r \in Reminders, Update(r) PROVE TypeOK'
    <2>1. reminder[r] \in Row /\ reminder[r].status # "absent"
      BY <1>4 DEF Update, TypeOK
    <2>2. reminder' \in [Reminders -> Row]
      BY <1>4, <2>1, ChangedRow, SavedType DEF Update
    <2>3. spent' \in [updates : Nat, changes : Nat, crashes : Nat]
      BY <1>4 DEF Update, TypeOK
    <2>. QED
      BY <1>4, <2>2, <2>3 DEF Update, TypeOK
  <1>5. CASE ChangePolicy
    BY <1>5 DEF ChangePolicy, TypeOK
  <1>6. ASSUME NEW w \in Workers, ReadDue(w) PROVE TypeOK'
    <2>1. PICK now \in TickTime : worker' = [worker EXCEPT ![w] =
                [IdleWorker EXCEPT !.pc = "claim", !.now = now,
                    !.rows = {SnapshotOf(r) : r \in Selected(now)}]]
      BY <1>6 DEF ReadDue
    <2>2. now \in Time
      BY TickTimeType DEF TypeOK
    <2>3. \A r \in Selected(now) : r \in Reminders /\ Present(r)
      BY DEF Selected, Readable, Present
    <2>4. {SnapshotOf(r) : r \in Selected(now)} \in SUBSET Snapshot
      BY <2>3, SnapshotType DEF TypeOK
    <2>5. [IdleWorker EXCEPT !.pc = "claim", !.now = now,
                    !.rows = {SnapshotOf(r) : r \in Selected(now)}] \in Worker
      BY <2>2, <2>4 DEF IdleWorker, Worker
    <2>. QED
      BY <1>6, <2>1, <2>5 DEF ReadDue, TypeOK
  <1>7. ASSUME NEW w \in Workers, ClaimDue(w) PROVE TypeOK'
    <2>1. reminder' \in [Reminders -> Row]
      <3>1. \A r \in Reminders : reminder'[r] \in {reminder[r], [reminder[r] EXCEPT !.status = "due"]}
        BY <1>7 DEF ClaimDue
      <3>2. \A r \in Reminders : [reminder[r] EXCEPT !.status = "due"] \in Row
        BY DEF TypeOK, Row, Status
      <3>3. reminder' = [r \in Reminders |-> reminder'[r]]
        BY <1>7 DEF ClaimDue
      <3>. QED
        BY <3>1, <3>2, <3>3 DEF TypeOK
    <2>2. worker[w].rows \in SUBSET Snapshot
      BY DEF TypeOK, Worker
    <2>3. Rest(w, {<<row.id, row.due>> : row \in Claimed(worker[w].rows)}) \in Worker
      BY <2>2, ClaimedType, RestType DEF TypeOK
    <2>4. worker' \in [Workers -> Worker]
      BY <1>7, <2>3 DEF ClaimDue, TypeOK
    <2>. QED
      BY <1>7, <2>1, <2>4 DEF ClaimDue, TypeOK
  <1>8. ASSUME NEW w \in Workers, Check(w) PROVE TypeOK'
    <2>1. PICK o \in First(worker[w].claimed) :
              worker' = [worker EXCEPT ![w] =
              IF mail[o].status = "none" /\ Permitted(worker[w].now)
              THEN [worker[w] EXCEPT !.pc = "append"]
              ELSE Rest(w, worker[w].claimed \ {o})]
      BY <1>8 DEF Check
    <2>2. worker[w] \in Worker /\ worker[w].claimed \in SUBSET Occurrence
      BY DEF TypeOK, Worker
    <2>3. [worker[w] EXCEPT !.pc = "append"] \in Worker
      BY <2>2 DEF Worker
    <2>4. Rest(w, worker[w].claimed \ {o}) \in Worker
      BY <2>2, RestType DEF TypeOK
    <2>. QED
      BY <1>8, <2>1, <2>3, <2>4 DEF Check, TypeOK
  <1>9. ASSUME NEW w \in Workers, Append(w) PROVE TypeOK'
    <2>1. worker[w] \in Worker /\ worker[w].claimed \in SUBSET Occurrence /\ worker[w].now \in Time
      BY DEF TypeOK, Worker
    <2>2. PICK o \in First(worker[w].claimed) :
          /\ IF mail[o].status = "none"
             THEN /\ mail' = [mail EXCEPT ![o] =
                        [status |-> "queued", made |-> worker[w].now]]
                  /\ events' = [events EXCEPT ![o] = @ + 1]
             ELSE UNCHANGED <<mail, events>>
          /\ worker' = [worker EXCEPT ![w] = Rest(w, worker[w].claimed \ {o})]
      BY <1>9 DEF Append
    <2>3. Rest(w, worker[w].claimed \ {o}) \in Worker
      BY <2>1, RestType DEF TypeOK
    <2>4. o \in Occurrence
      BY <2>1, FirstIsClaimed
    <2>5. mail' \in [Occurrence -> Mail] /\ events' \in [Occurrence -> Nat]
      BY <2>1, <2>2, <2>4 DEF TypeOK, Mail
    <2>. QED
      BY <1>9, <2>2, <2>3, <2>5 DEF Append, TypeOK
  <1>10. ASSUME NEW w \in Workers, Crash(w) PROVE TypeOK'
    <2>1. IdleWorker \in Worker
      BY RemindersAssumption DEF IdleWorker, Worker, Time
    <2>2. spent' \in [updates : Nat, changes : Nat, crashes : Nat]
      BY <1>10 DEF Crash, TypeOK
    <2>. QED
      BY <1>10, <2>1, <2>2 DEF Crash, TypeOK
  <1>11. ASSUME NEW o \in Occurrence, Lease(o) PROVE TypeOK'
    BY <1>11, MailType DEF Lease, TypeOK
  <1>12. ASSUME NEW o \in Occurrence, Settle(o) PROVE TypeOK'
    <2>1. PICK status \in {"queued", "delivered", "failed"} :
          /\ mail' = [mail EXCEPT ![o].status = status]
          /\ IF status = "delivered"
             THEN /\ sent' = sent \cup {o}
                  /\ \E now \in TickTime :
                        Save(o[1], Marked(o[1], reminder[o[1]], now))
             ELSE UNCHANGED <<sent, reminder>>
      BY <1>12 DEF Settle
    <2>2. mail' \in [Occurrence -> Mail]
      BY <2>1, MailType DEF TypeOK
    <2>3. o[1] \in Reminders /\ reminder[o[1]] \in Row
      BY DEF TypeOK, Occurrence
    <2>4. reminder' \in [Reminders -> Row]
      BY <2>1, <2>3, MarkedRow, SavedType, TickTimeType DEF TypeOK
    <2>. QED
      BY <1>12, <2>1, <2>2, <2>4 DEF Settle, TypeOK
  <1>13. ASSUME NEW o \in Occurrence, Answer(o) PROVE TypeOK'
    BY <1>13, MailType DEF Answer, TypeOK
  <1>14. ASSUME NEW w \in Workers, NothingDue(w) PROVE TypeOK'
    BY <1>14 DEF NothingDue, TypeOK, vars
  <1>. QED
    BY <1>1, <1>2, <1>3, <1>4, <1>5, <1>6, <1>7, <1>8, <1>9, <1>10, <1>11, <1>12, <1>13, <1>14
    DEF Next, Api, Work
-----------------------------------------------------------------------------
(* What workers and messages rest on *)

Stays == \A r \in Reminders : Present(r) => Present(r)'

(* No row is ever deleted.                                                 *)
LEMMA NextStays ==
  ASSUME TypeOK, Next
  PROVE  Stays
  <1>1. CASE UNCHANGED reminder
    BY <1>1 DEF Stays, Present
  <1>2. ASSUME NEW q \in Reminders \X (1..Creates), SaveCreate(q) PROVE Stays
    <2>1. request[q].due \in Time
      BY DEF TypeOK, Request
    <2>2. reminder' = [reminder EXCEPT ![q[1]] = NewRow(request[q].due)]
      BY <1>2 DEF SaveCreate, Save
    <2>. QED
      BY <2>1, <2>2, NewRowType DEF Stays, Present, TypeOK
  <1>3. ASSUME NEW r \in Reminders, Update(r) PROVE Stays
    <2>1. PICK status \in Reachable(reminder[r].status), due \in Time :
            reminder' = [reminder EXCEPT ![r] = Changed(reminder[r], status, due)]
      BY <1>3 DEF Update, Save
    <2>2. Changed(reminder[r], status, due).status # "absent"
      BY <1>3, ChangedRow DEF Update, TypeOK
    <2>. QED
      BY <2>1, <2>2 DEF Stays, Present, TypeOK
  <1>4. ASSUME NEW w \in Workers, ClaimDue(w) PROVE Stays
    <2>1. \A r \in Reminders : reminder'[r] \in {reminder[r], [reminder[r] EXCEPT !.status = "due"]}
      BY <1>4 DEF ClaimDue
    <2>2. \A r \in Reminders : [reminder[r] EXCEPT !.status = "due"].status = "due"
      BY DEF TypeOK, Row
    <2>. QED
      BY <2>1, <2>2 DEF Stays, Present
  <1>5. ASSUME NEW o \in Occurrence, Settle(o), ~UNCHANGED reminder PROVE Stays
    <2>1. PICK now \in TickTime :
            reminder' = [reminder EXCEPT ![o[1]] = Marked(o[1], reminder[o[1]], now)]
      BY <1>5 DEF Settle, Save
    <2>2. o[1] \in Reminders /\ now \in Time /\ reminder[o[1]] \in Row
      BY TickTimeType DEF Occurrence, TypeOK
    <2>3. Present(o[1]) => Marked(o[1], reminder[o[1]], now).status # "absent"
      BY <2>2, MarkedRow DEF Present
    <2>. QED
      BY <2>1, <2>2, <2>3 DEF Stays, Present, TypeOK
  <1>. QED
    BY <1>1, <1>2, <1>3, <1>4, <1>5
    DEF Next, Api, Work, Tick, StartCreate, ChangePolicy, ReadDue, NothingDue, Check, Append,
        Crash, Lease, Answer, vars

LEMMA KeptHolds ==
  ASSUME TypeOK, Stays, NEW w \in Workers, HoldsDue(w), worker'[w] = worker[w]
  PROVE  HoldsDue(w)'
  BY DEF TypeOK, Stays, HoldsDue, Present, Worker, Snapshot, Occurrence

(* A worker keeps some of its occurrences, or goes idle.                   *)
LEMMA LessHolds ==
  ASSUME TypeOK, Stays, NEW w \in Workers, HoldsDue(w), worker'[w].rows = {},
         worker'[w].claimed \subseteq worker[w].claimed,
         worker'[w].claimed # {} => worker'[w].now = worker[w].now
  PROVE  HoldsDue(w)'
  BY DEF TypeOK, Stays, HoldsDue, Present, Worker, Occurrence

LEMMA NextHeldInv ==
  ASSUME TypeOK, HeldInv, Next
  PROVE  HeldInv'
  <1>. USE NextStays
  <1>. SUFFICES ASSUME NEW w \in Workers PROVE HoldsDue(w)'
    BY DEF HeldInv
  <1>0. HoldsDue(w) /\ worker[w] \in Worker
    BY DEF HeldInv, TypeOK
  <1>1. CASE worker'[w] = worker[w]
    BY <1>0, <1>1, KeptHolds
  <1>2. CASE ReadDue(w)
    <2>1. PICK now \in TickTime : worker' = [worker EXCEPT ![w] =
                [IdleWorker EXCEPT !.pc = "claim", !.now = now,
                    !.rows = {SnapshotOf(r) : r \in Selected(now)}]]
      BY <1>2 DEF ReadDue
    <2>2. /\ worker'[w].rows = {SnapshotOf(r) : r \in Selected(now)}
          /\ worker'[w].claimed = {} /\ worker'[w].now = now
      BY <2>1 DEF TypeOK, IdleWorker
    <2>3. \A r \in Selected(now) :
            /\ r \in Reminders /\ Present(r)
            /\ SnapshotOf(r).id = r /\ SnapshotOf(r).due <= now
      BY DEF Selected, Readable, Present, SnapshotOf
    <2>. QED
      BY <2>2, <2>3 DEF HoldsDue, Stays
  <1>3. CASE ClaimDue(w)
    <2>1. worker' = [worker EXCEPT ![w] =
                 Rest(w, {<<row.id, row.due>> : row \in Claimed(worker[w].rows)})]
      BY <1>3 DEF ClaimDue
    <2>. DEFINE claimed == {<<row.id, row.due>> : row \in Claimed(worker[w].rows)}
    <2>2. worker'[w] = Rest(w, claimed)
      BY <2>1 DEF TypeOK
    <2>3. \A o \in claimed : Present(o[1]) /\ o[2] <= worker[w].now /\ o[1] \in Reminders
      BY <1>0 DEF Claimed, HoldsDue, Worker, Snapshot
    <2>. HIDE DEF claimed
    <2>. QED
      BY <2>2, <2>3, RestHolds DEF HoldsDue, Stays, TypeOK
  <1>4. CASE Check(w)
    <2>1. PICK o \in First(worker[w].claimed) :
              worker'[w] =
              IF mail[o].status = "none" /\ Permitted(worker[w].now)
              THEN [worker[w] EXCEPT !.pc = "append"]
              ELSE Rest(w, worker[w].claimed \ {o})
      BY <1>4 DEF Check, TypeOK
    <2>2. CASE worker'[w] = [worker[w] EXCEPT !.pc = "append"]
      <3>1. /\ worker'[w].rows = worker[w].rows /\ worker'[w].now = worker[w].now
            /\ worker'[w].claimed = worker[w].claimed
        BY <1>0, <2>2 DEF Worker
      <3>. QED
        BY <1>0, <3>1 DEF HoldsDue, Stays, Present, Worker, Snapshot, Occurrence
    <2>3. CASE worker'[w] = Rest(w, worker[w].claimed \ {o})
      BY <1>0, <2>3, RestHolds, LessHolds DEF TypeOK
    <2>. QED
      BY <2>1, <2>2, <2>3
  <1>5. CASE Append(w)
    <2>1. PICK o \in First(worker[w].claimed) : worker'[w] = Rest(w, worker[w].claimed \ {o})
      BY <1>5 DEF Append, TypeOK
    <2>. QED
      BY <1>0, <2>1, RestHolds, LessHolds DEF TypeOK
  <1>6. CASE Crash(w)
    BY <1>0, <1>6, LessHolds DEF Crash, IdleWorker, TypeOK
  <1>7. ReadDue(w) \/ ClaimDue(w) \/ Check(w) \/ Append(w) \/ Crash(w) \/ worker'[w] = worker[w]
    BY DEF Next, Api, Work, Tick, StartCreate, SaveCreate, Update, ChangePolicy, ReadDue,
           NothingDue, ClaimDue, Check, Append, Crash, Lease, Settle, Answer, vars, TypeOK
  <1>. QED
    BY <1>1, <1>2, <1>3, <1>4, <1>5, <1>6, <1>7

(* A step leaves a message alone, adds it with its event, or changes the   *)
(* status of one that was there.                                           *)
SameMail(o) == mail'[o] = mail[o] /\ events'[o] = events[o]

NewMail(o) ==
    /\ mail[o].status = "none" /\ mail'[o].status = "queued"
    /\ events'[o] = events[o] + 1
    /\ \E w \in Workers : o \in worker[w].claimed /\ mail'[o].made = worker[w].now

MovedMail(o) ==
    /\ mail[o].status # "none" /\ mail'[o].status # "none"
    /\ mail'[o].made = mail[o].made /\ events'[o] = events[o]

LEMMA NextMail ==
  ASSUME TypeOK, Next, NEW o \in Occurrence
  PROVE  SameMail(o) \/ NewMail(o) \/ MovedMail(o)
  <1>1. CASE UNCHANGED <<mail, events>>
    BY <1>1 DEF SameMail
  <1>2. ASSUME NEW w \in Workers, Append(w) PROVE SameMail(o) \/ NewMail(o)
    <2>1. PICK p \in First(worker[w].claimed) :
             IF mail[p].status = "none"
             THEN /\ mail' = [mail EXCEPT ![p] =
                        [status |-> "queued", made |-> worker[w].now]]
                  /\ events' = [events EXCEPT ![p] = @ + 1]
             ELSE UNCHANGED <<mail, events>>
      BY <1>2 DEF Append
    <2>2. p \in worker[w].claimed
      BY FirstIsClaimed
    <2>. QED
      BY <2>1, <2>2 DEF SameMail, NewMail, TypeOK
  <1>3. ASSUME NEW p \in Occurrence, Lease(p) PROVE SameMail(o) \/ MovedMail(o)
    BY <1>3 DEF Lease, SameMail, MovedMail, TypeOK, Mail
  <1>4. ASSUME NEW p \in Occurrence, Settle(p) PROVE SameMail(o) \/ MovedMail(o)
    <2>1. PICK status \in {"queued", "delivered", "failed"} :
             mail' = [mail EXCEPT ![p].status = status] /\ events' = events
      BY <1>4 DEF Settle
    <2>. QED
      BY <1>4, <2>1 DEF Settle, SameMail, MovedMail, TypeOK, Mail
  <1>5. ASSUME NEW p \in Occurrence, Answer(p) PROVE SameMail(o) \/ MovedMail(o)
    BY <1>5 DEF Answer, SameMail, MovedMail, TypeOK, Mail
  <1>. QED
    BY <1>1, <1>2, <1>3, <1>4, <1>5
    DEF Next, Api, Work, Tick, StartCreate, SaveCreate, Update, ChangePolicy, ReadDue,
        NothingDue, ClaimDue, Check, Crash, vars

LEMMA InitReminderInv == Init => ReminderInv
  <1>1. Init => HeldInv /\ MailInv /\ NeverEarly /\ OneEventPerMessage
    BY DEF Init, HeldInv, HoldsDue, IdleWorker, MailInv, NeverEarly, OneEventPerMessage, NoMail
  <1>. QED
    BY <1>1, InitTypeOK DEF ReminderInv

LEMMA NextReminderInv ==
  ASSUME ReminderInv, [Next]_vars
  PROVE  ReminderInv'
  <1>1. CASE UNCHANGED vars
    BY <1>1 DEF vars, ReminderInv, TypeOK, HeldInv, HoldsDue, MailInv, Present, NeverEarly,
                OneEventPerMessage
  <1>2. CASE Next
    <2>0. TypeOK /\ HeldInv /\ MailInv /\ NeverEarly /\ OneEventPerMessage
      BY DEF ReminderInv
    <2>1. TypeOK' /\ HeldInv' /\ Stays
      BY <1>2, <2>0, NextTypeOK, NextHeldInv, NextStays
    <2>2. \A o \in Occurrence : NewMail(o) => Present(o[1]) /\ o[2] <= mail'[o].made
      BY <2>0 DEF NewMail, HeldInv, HoldsDue
    <2>3. MailInv'
      <3>. SUFFICES ASSUME NEW o \in Occurrence, mail'[o].status # "none" PROVE Present(o[1])'
        BY DEF MailInv
      <3>1. Present(o[1]) /\ o[1] \in Reminders
        BY <1>2, <2>0, <2>2, NextMail DEF SameMail, MovedMail, MailInv, Occurrence
      <3>. QED
        BY <2>1, <3>1 DEF Stays
    <2>4. NeverEarly'
      BY <1>2, <2>0, <2>2, NextMail DEF SameMail, MovedMail, NeverEarly
    <2>5. OneEventPerMessage'
      BY <1>2, <2>0, NextMail DEF SameMail, NewMail, MovedMail, OneEventPerMessage
    <2>. QED
      BY <2>1, <2>3, <2>4, <2>5 DEF ReminderInv
  <1>. QED
    BY <1>1, <1>2

LEMMA ReminderInvariance == Spec => []ReminderInv
  BY InitReminderInv, NextReminderInv, PTL DEF Spec
-----------------------------------------------------------------------------
(* One create request for each id *)

(* Only a create request makes a row.                                      *)
LEMMA NothingElseCreates ==
  ASSUME ReminderInv, Next, \A q \in Reminders \X (1..Creates) : ~SaveCreate(q),
         NEW r \in Reminders, ~Present(r)
  PROVE  reminder'[r] = reminder[r]
  <1>0. TypeOK /\ MailInv
    BY DEF ReminderInv
  <1>1. CASE UNCHANGED reminder
    BY <1>1
  <1>2. ASSUME NEW s \in Reminders, Update(s) PROVE reminder'[r] = reminder[r]
    BY <1>0, <1>2 DEF Update, Save, Present, TypeOK
  <1>3. ASSUME NEW w \in Workers, ClaimDue(w) PROVE reminder'[r] = reminder[r]
    <2>1. r \notin {row.id : row \in {x \in worker[w].rows : Updated(x)}}
      BY DEF Updated, Present
    <2>. QED
      BY <1>3, <2>1 DEF ClaimDue
  <1>4. ASSUME NEW o \in Occurrence, Settle(o) PROVE reminder'[r] = reminder[r]
    <2>1. o[1] # r
      BY <1>0, <1>4 DEF Settle, MailInv
    <2>2. \/ reminder' = reminder
          \/ \E row : reminder' = [reminder EXCEPT ![o[1]] = row]
      BY <1>4 DEF Settle, Save
    <2>. QED
      BY <1>0, <2>1, <2>2 DEF TypeOK
  <1>. QED
    BY <1>1, <1>2, <1>3, <1>4
    DEF Next, Api, Work, Tick, StartCreate, ChangePolicy, ReadDue, NothingDue, Check, Append,
        Crash, Lease, Answer, vars

LEMMA NextCreateInv ==
  ASSUME Creates <= 1, ReminderInv, CreateInv, Next
  PROVE  CreateInv'
  <1>0. TypeOK /\ Creates \in Nat
    BY RemindersAssumption DEF ReminderInv
  <1>1. \A p \in Reminders \X (1..Creates), q \in Reminders \X (1..Creates) :
          p[1] = q[1] => p = q
    BY <1>0
  <1>2. ASSUME NEW q \in Reminders \X (1..Creates), SaveCreate(q) PROVE CreateInv'
    <2>1. /\ request' = [request EXCEPT ![q].pc = "done"]
          /\ reminder' = [reminder EXCEPT ![q[1]] = NewRow(request[q].due)]
          /\ request[q].due \in Time
      BY <1>0, <1>2 DEF SaveCreate, Save, TypeOK, Request
    <2>2. request'[q].pc = "done"
      BY <1>0, <2>1 DEF TypeOK, Request
    <2>3. ASSUME NEW p \in Reminders \X (1..Creates), request'[p].pc = "saving"
          PROVE  ~Present(p[1])'
      <3>1. p # q
        BY <2>2, <2>3
      <3>2. p[1] # q[1] /\ p[1] \in Reminders /\ request[p].pc = "saving"
        BY <1>0, <1>1, <2>1, <2>3, <3>1 DEF TypeOK
      <3>. QED
        BY <1>0, <2>1, <3>2 DEF CreateInv, Present, TypeOK
    <2>4. \A r \in Reminders : ~Present(r)' => reminder'[r].count = 0
      BY <1>0, <2>1, NewRowType DEF CreateInv, Present, TypeOK
    <2>. QED
      BY <2>3, <2>4 DEF CreateInv
  <1>3. CASE \A q \in Reminders \X (1..Creates) : ~SaveCreate(q)
    <2>1. \A q \in Reminders \X (1..Creates) :
            request'[q].pc = "saving" => ~Present(q[1]) /\ q[1] \in Reminders
      <3>1. ASSUME NEW p \in Reminders \X (1..Creates), StartCreate(p),
                   NEW q \in Reminders \X (1..Creates), request'[q].pc = "saving"
            PROVE  ~Present(q[1])
        <4>1. PICK due \in Time : request' = [request EXCEPT ![p] =
              [pc |-> IF reminder[p[1]].status = "absent" THEN "saving" ELSE "done",
               due |-> due]]
          BY <3>1 DEF StartCreate
        <4>2. CASE p = q
          BY <1>0, <3>1, <4>1, <4>2 DEF TypeOK, Present
        <4>3. CASE p # q
          BY <1>0, <3>1, <4>1, <4>3 DEF TypeOK, CreateInv
        <4>. QED
          BY <4>2, <4>3
      <3>2. CASE UNCHANGED request
        BY <3>2 DEF CreateInv
      <3>. QED
        BY <1>3, <3>1, <3>2
        DEF Next, Api, Work, Tick, Update, ChangePolicy, ReadDue, NothingDue, ClaimDue, Check,
            Append, Crash, Lease, Settle, Answer, vars
    <2>2. \A r \in Reminders : ~Present(r) => reminder'[r] = reminder[r]
      BY <1>3, NothingElseCreates
    <2>3. Stays
      BY <1>0, NextStays
    <2>. QED
      BY <2>1, <2>2, <2>3 DEF CreateInv, Present, Stays
  <1>. QED
    BY <1>2, <1>3

(* Delivered is delivered: a message that was sent is only ever answered.  *)
LEMMA SentStays ==
  ASSUME TypeOK, Next, NEW o \in Occurrence, mail[o].status \in {"delivered", "answered"}
  PROVE  mail'[o].status \in {"delivered", "answered"}
  <1>1. CASE UNCHANGED mail
    BY <1>1
  <1>2. ASSUME NEW w \in Workers, Append(w) PROVE mail'[o] = mail[o]
    <2>1. \/ mail' = mail
          \/ \E p \in First(worker[w].claimed) : \E new :
                mail[p].status = "none" /\ mail' = [mail EXCEPT ![p] = new]
      BY <1>2 DEF Append
    <2>. QED
      BY <2>1 DEF TypeOK
  <1>3. ASSUME NEW p \in Occurrence, Lease(p) PROVE mail'[o] = mail[o]
    BY <1>3 DEF Lease, TypeOK
  <1>4. ASSUME NEW p \in Occurrence, Settle(p) PROVE mail'[o] = mail[o]
    <2>1. mail[p].status = "delivering" /\ \E status : mail' = [mail EXCEPT ![p].status = status]
      BY <1>4 DEF Settle
    <2>. QED
      BY <2>1 DEF TypeOK
  <1>5. ASSUME NEW p \in Occurrence, Answer(p)
        PROVE  mail'[o] = mail[o] \/ mail'[o].status = "answered"
    BY <1>5 DEF Answer, TypeOK, Mail
  <1>. QED
    BY <1>1, <1>2, <1>3, <1>4, <1>5
    DEF Next, Api, Work, Tick, StartCreate, SaveCreate, Update, ChangePolicy, ReadDue,
        NothingDue, ClaimDue, Check, Crash, vars

(* The counts and the history move together.                               *)
SameCounts ==
    /\ sent' = sent
    /\ \A r \in Reminders : reminder'[r].count = reminder[r].count

Delivers(o) ==
    /\ mail[o].status = "delivering" /\ mail'[o].status = "delivered"
    /\ sent' = sent \cup {o}
    /\ \A r \in Reminders :
          reminder'[r].count = IF r = o[1] THEN reminder[r].count + 1 ELSE reminder[r].count

LEMMA NextCounts ==
  ASSUME Creates <= 1, ReminderInv, CreateInv, Next
  PROVE  SameCounts \/ \E o \in Occurrence : Delivers(o)
  <1>0. TypeOK /\ MailInv
    BY DEF ReminderInv
  <1>1. CASE UNCHANGED <<sent, reminder>>
    BY <1>1 DEF SameCounts
  <1>2. ASSUME NEW q \in Reminders \X (1..Creates), SaveCreate(q) PROVE SameCounts
    <2>1. reminder' = [reminder EXCEPT ![q[1]] = NewRow(request[q].due)] /\ sent' = sent
      BY <1>2 DEF SaveCreate, Save
    <2>2. ~Present(q[1]) /\ reminder[q[1]].count = 0 /\ request[q].due \in Time
      BY <1>0, <1>2 DEF SaveCreate, CreateInv, TypeOK, Request
    <2>. QED
      BY <1>0, <2>1, <2>2, NewRowType DEF SameCounts, TypeOK
  <1>3. ASSUME NEW r \in Reminders, Update(r) PROVE SameCounts
    <2>1. PICK status \in Reachable(reminder[r].status), due \in Time :
            reminder' = [reminder EXCEPT ![r] = Changed(reminder[r], status, due)]
      BY <1>3 DEF Update, Save
    <2>2. Changed(reminder[r], status, due).count = reminder[r].count
      BY <1>0, <1>3, ChangedRow DEF Update, TypeOK
    <2>. QED
      BY <1>0, <1>3, <2>1, <2>2 DEF Update, SameCounts, TypeOK
  <1>4. ASSUME NEW w \in Workers, ClaimDue(w) PROVE SameCounts
    <2>1. \A r \in Reminders : reminder'[r] \in {reminder[r], [reminder[r] EXCEPT !.status = "due"]}
      BY <1>4 DEF ClaimDue
    <2>2. \A r \in Reminders : [reminder[r] EXCEPT !.status = "due"].count = reminder[r].count
      BY <1>0 DEF TypeOK, Row
    <2>. QED
      BY <1>4, <2>1, <2>2 DEF ClaimDue, SameCounts
  <1>5. ASSUME NEW o \in Occurrence, Settle(o), ~UNCHANGED <<sent, reminder>> PROVE Delivers(o)
    <2>1. PICK now \in TickTime :
            reminder' = [reminder EXCEPT ![o[1]] = Marked(o[1], reminder[o[1]], now)]
      BY <1>5 DEF Settle, Save
    <2>2. o[1] \in Reminders /\ now \in Time /\ reminder[o[1]] \in Row
      BY <1>0, TickTimeType DEF Occurrence, TypeOK
    <2>3. Marked(o[1], reminder[o[1]], now).count = reminder[o[1]].count + 1
      BY <2>2, MarkedRow
    <2>4. /\ mail[o].status = "delivering" /\ sent' = sent \cup {o}
          /\ mail' = [mail EXCEPT ![o].status = "delivered"]
      BY <1>5 DEF Settle
    <2>5. mail'[o].status = "delivered"
      BY <1>0, <2>4 DEF TypeOK, Mail
    <2>. QED
      BY <1>0, <2>1, <2>2, <2>3, <2>4, <2>5 DEF Delivers, TypeOK
  <1>. QED
    BY <1>1, <1>2, <1>3, <1>4, <1>5
    DEF Next, Api, Work, Tick, StartCreate, ChangePolicy, ReadDue, NothingDue, Check, Append,
        Crash, Lease, Answer, vars

LEMMA NextCountInv ==
  ASSUME Creates <= 1, ReminderInv, CountInv, [Next]_vars
  PROVE  CountInv'
  <1>1. CASE UNCHANGED vars
    BY <1>1 DEF vars, CountInv, CreateInv, Present, SentInv, CountIsTrue
  <1>2. CASE Next
    <2>0. TypeOK /\ CreateInv /\ SentInv /\ CountIsTrue /\ sent \subseteq Occurrence
      BY DEF ReminderInv, CountInv, TypeOK
    <2>1. CreateInv'
      BY <1>2, <2>0, NextCreateInv
    <2>2. \A o \in sent : mail'[o].status \in {"delivered", "answered"}
      BY <1>2, <2>0, SentStays DEF SentInv
    <2>3. CASE SameCounts
      BY <2>0, <2>1, <2>2, <2>3 DEF SameCounts, SentInv, CountIsTrue, CountInv
    <2>4. ASSUME NEW o \in Occurrence, Delivers(o) PROVE CountInv'
      <3>1. o \notin sent /\ sent' = sent \cup {o}
        BY <2>0, <2>4 DEF Delivers, SentInv
      <3>2. SentInv'
        BY <2>0, <2>2, <2>4, <3>1, FS_AddElement DEF Delivers, SentInv
      <3>3. ASSUME NEW r \in Reminders
            PROVE  reminder'[r].count = Cardinality({p \in sent' : p[1] = r})
        <4>. DEFINE old == {p \in sent : p[1] = r}
        <4>1. IsFiniteSet(old)
          BY <2>0, FS_Subset DEF SentInv
        <4>2. reminder[r].count = Cardinality(old)
          BY <2>0 DEF CountIsTrue
        <4>3. CASE r = o[1]
          <5>1. {p \in sent' : p[1] = r} = old \cup {o} /\ o \notin old
            BY <3>1, <4>3
          <5>2. Cardinality(old \cup {o}) = Cardinality(old) + 1
            BY <4>1, <5>1, FS_AddElement
          <5>. QED
            BY <2>4, <4>2, <4>3, <5>1, <5>2 DEF Delivers
        <4>4. CASE r # o[1]
          <5>1. {p \in sent' : p[1] = r} = old
            BY <3>1, <4>4
          <5>. QED
            BY <2>4, <4>2, <4>4, <5>1 DEF Delivers
        <4>. QED
          BY <4>3, <4>4
      <3>4. CountIsTrue'
        BY <3>3 DEF CountIsTrue
      <3>. QED
        BY <2>1, <3>2, <3>4 DEF CountInv
    <2>. QED
      BY <1>2, <2>0, <2>3, <2>4, NextCounts
  <1>. QED
    BY <1>1, <1>2

LEMMA InitCountInv == Init => CountInv
  <1>. SUFFICES ASSUME Init PROVE CountInv
    OBVIOUS
  <1>1. CreateInv
    BY DEF Init, CreateInv, Present, NoRow
  <1>2. SentInv
    BY FS_EmptySet DEF Init, SentInv
  <1>3. \A r \in Reminders : {o \in sent : o[1] = r} = {} /\ reminder[r].count = 0
    BY DEF Init, NoRow
  <1>4. CountIsTrue
    BY <1>3, FS_EmptySet DEF CountIsTrue
  <1>. QED
    BY <1>1, <1>2, <1>4 DEF CountInv
-----------------------------------------------------------------------------
(* Moves *)

Moves ==
    \A r \in Reminders \ Recurring :
        LET old == reminder[r].status
            new == reminder'[r].status
        IN  old = "absent" \/ new = old \/ new \in Transitions(old)

LEMMA NextMoves ==
  ASSUME Creates <= 1, ReminderInv, CreateInv, [Next]_vars
  PROVE  Moves
  <1>0. TypeOK
    BY DEF ReminderInv
  <1>1. CASE UNCHANGED reminder
    BY <1>1 DEF Moves
  <1>2. ASSUME NEW q \in Reminders \X (1..Creates), SaveCreate(q) PROVE Moves
    <2>1. /\ reminder' = [reminder EXCEPT ![q[1]] = NewRow(request[q].due)]
          /\ reminder[q[1]].status = "absent"
      BY <1>2 DEF SaveCreate, Save, CreateInv, Present
    <2>. QED
      BY <1>0, <2>1 DEF Moves, TypeOK
  <1>3. ASSUME NEW s \in Reminders, Update(s) PROVE Moves
    <2>1. PICK status \in Reachable(reminder[s].status), due \in Time :
            reminder' = [reminder EXCEPT ![s] = Changed(reminder[s], status, due)]
      BY <1>3 DEF Update, Save
    <2>2. Changed(reminder[s], status, due).status = status
      BY <1>0, <1>3, ChangedRow DEF Update, TypeOK
    <2>. QED
      BY <1>0, <2>1, <2>2 DEF Moves, Reachable, TypeOK
  <1>4. ASSUME NEW w \in Workers, ClaimDue(w) PROVE Moves
    <2>1. ASSUME NEW r \in Reminders, reminder'[r] # reminder[r]
          PROVE  reminder'[r].status = "due" /\ reminder[r].status \in {"scheduled", "snoozed"}
      <3>1. reminder'[r] = IF r \in {row.id : row \in {x \in worker[w].rows : Updated(x)}}
                           THEN [reminder[r] EXCEPT !.status = "due"] ELSE reminder[r]
        BY <1>4 DEF ClaimDue
      <3>2. reminder[r].status \in {"scheduled", "snoozed"}
        BY <2>1, <3>1 DEF Updated
      <3>. QED
        BY <1>0, <2>1, <3>1, <3>2 DEF TypeOK, Row
    <2>. QED
      BY <2>1 DEF Moves, Transitions
  <1>5. ASSUME NEW o \in Occurrence, Settle(o), ~UNCHANGED reminder PROVE Moves
    <2>1. PICK now \in TickTime :
            reminder' = [reminder EXCEPT ![o[1]] = Marked(o[1], reminder[o[1]], now)]
      BY <1>5 DEF Settle, Save
    <2>2. o[1] \in Reminders /\ now \in Time /\ reminder[o[1]] \in Row
      BY <1>0, TickTimeType DEF Occurrence, TypeOK
    <2>3. o[1] \notin Recurring =>
             Marked(o[1], reminder[o[1]], now).status = reminder[o[1]].status
      BY <2>2, MarkedRow
    <2>. QED
      BY <1>0, <2>1, <2>2, <2>3 DEF Moves, TypeOK
  <1>. QED
    BY <1>1, <1>2, <1>3, <1>4, <1>5
    DEF Next, Api, Work, Tick, StartCreate, ChangePolicy, ReadDue, NothingDue, Check, Append,
        Crash, Lease, Answer, vars

(* A step takes a reminder out of a final status only when it settles a     *)
(* recurring one's message as delivered.                                   *)
DeliveryRevives(r) ==
    reminder[r].status \in Ended /\ reminder'[r].status # reminder[r].status =>
        /\ r \in Recurring
        /\ \E o \in Occurrence : /\ o[1] = r
                                 /\ mail[o].status = "delivering"
                                 /\ mail'[o].status = "delivered"

(* A cancelled, completed or expired reminder is scheduled again by nothing *)
(* but the delivery of a recurring one: no request, no tick that read the   *)
(* row before, no update under way (mark_reminder_delivered).               *)
RevivedByDelivery == [][\A r \in Reminders : DeliveryRevives(r)]_vars

LEMMA NextRevives ==
  ASSUME Creates <= 1, ReminderInv, CreateInv, [Next]_vars, NEW r \in Reminders
  PROVE  DeliveryRevives(r)
  <1>0. TypeOK
    BY DEF ReminderInv
  <1>1. CASE UNCHANGED reminder
    BY <1>1 DEF DeliveryRevives
  <1>2. ASSUME NEW q \in Reminders \X (1..Creates), SaveCreate(q) PROVE DeliveryRevives(r)
    <2>1. /\ reminder' = [reminder EXCEPT ![q[1]] = NewRow(request[q].due)]
          /\ reminder[q[1]].status = "absent"
      BY <1>2 DEF SaveCreate, Save, CreateInv, Present
    <2>. QED
      BY <1>0, <2>1 DEF DeliveryRevives, Ended, TypeOK
  <1>3. ASSUME NEW s \in Reminders, Update(s) PROVE DeliveryRevives(r)
    <2>1. PICK status \in Reachable(reminder[s].status), due \in Time :
            reminder' = [reminder EXCEPT ![s] = Changed(reminder[s], status, due)]
      BY <1>3 DEF Update, Save
    <2>2. Changed(reminder[s], status, due).status = status
      BY <1>0, <1>3, ChangedRow DEF Update, TypeOK
    <2>3. reminder[s].status \in Ended => status = reminder[s].status
      BY DEF Reachable, Transitions, Ended
    <2>. QED
      BY <1>0, <2>1, <2>2, <2>3 DEF DeliveryRevives, TypeOK
  <1>4. ASSUME NEW w \in Workers, ClaimDue(w) PROVE DeliveryRevives(r)
    <2>1. CASE reminder'[r] # reminder[r]
      <3>1. r \in {row.id : row \in {x \in worker[w].rows : Updated(x)}}
        BY <1>4, <2>1 DEF ClaimDue
      <3>. QED
        BY <3>1 DEF Updated, DeliveryRevives, Ended
    <2>. QED
      BY <2>1 DEF DeliveryRevives
  <1>5. ASSUME NEW o \in Occurrence, Settle(o), ~UNCHANGED reminder PROVE DeliveryRevives(r)
    <2>1. PICK now \in TickTime :
            reminder' = [reminder EXCEPT ![o[1]] = Marked(o[1], reminder[o[1]], now)]
      BY <1>5 DEF Settle, Save
    <2>2. /\ mail[o].status = "delivering"
          /\ mail' = [mail EXCEPT ![o].status = "delivered"]
      BY <1>5 DEF Settle
    <2>3. mail'[o].status = "delivered"
      BY <1>0, <2>2 DEF TypeOK, Mail
    <2>4. o[1] \in Reminders /\ now \in Time /\ reminder[o[1]] \in Row
      BY <1>0, TickTimeType DEF Occurrence, TypeOK
    <2>5. o[1] \notin Recurring =>
             Marked(o[1], reminder[o[1]], now).status = reminder[o[1]].status
      BY <2>4, MarkedRow
    <2>. QED
      BY <1>0, <2>1, <2>2, <2>3, <2>4, <2>5 DEF DeliveryRevives, TypeOK
  <1>. QED
    BY <1>1, <1>2, <1>3, <1>4, <1>5
    DEF Next, Api, Work, Tick, StartCreate, ChangePolicy, ReadDue, NothingDue, Check, Append,
        Crash, Lease, Answer, vars
-----------------------------------------------------------------------------
(* The results *)

(* Rows, messages, events and the workers' local state keep their types.   *)
THEOREM TypeCorrect == Spec => []TypeOK
  <1>1. ReminderInv => TypeOK
    BY DEF ReminderInv
  <1>. QED
    BY ReminderInvariance, <1>1, PTL

(* However many workers claim an occurrence, it has one message and one    *)
(* event (append_outbox inside atomic() of process_due_reminders).         *)
THEOREM EventsMatchMessages == Spec => []OneEventPerMessage
  <1>1. ReminderInv => OneEventPerMessage
    BY DEF ReminderInv
  <1>. QED
    BY ReminderInvariance, <1>1, PTL

(* A message never goes ahead of its time: its occurrence was due when the *)
(* tick read its clock, however old the rows it works on are               *)
(* (claim_due_reminders).                                                  *)
THEOREM MessagesAreDue == Spec => []NeverEarly
  <1>1. ReminderInv => NeverEarly
    BY DEF ReminderInv
  <1>. QED
    BY ReminderInvariance, <1>1, PTL

(* delivery_count is the number of occurrences that were delivered, as     *)
(* long as an id is created by one request (mark_reminder_delivered).      *)
THEOREM CountsAreTrue ==
  ASSUME Creates <= 1
  PROVE  Spec => []CountIsTrue
  <1>1. CountInv => CountIsTrue
    BY DEF CountInv
  <1>. QED
    BY ReminderInvariance, InitCountInv, NextCountInv, <1>1, PTL DEF Spec

(* A one-time reminder moves along _TRANSITIONS, whatever ticks and        *)
(* requests read before it moved, as long as its id is created by one      *)
(* request (Reminder.transition, claim_due_reminders).                     *)
THEOREM MovesKept ==
  ASSUME Creates <= 1
  PROVE  Spec => MovesAreAllowed
  <1>1. ReminderInv /\ CountInv /\ [Next]_vars => [Moves]_vars
    BY NextMoves DEF CountInv
  <1>2. [](ReminderInv /\ CountInv) /\ [][Next]_vars => [][Moves]_vars
    BY <1>1, PTL
  <1>. QED
    BY ReminderInvariance, InitCountInv, NextCountInv, <1>2, PTL DEF Spec, MovesAreAllowed, Moves

(* What is over stays over, but for the delivery of a recurring reminder,   *)
(* as long as an id is created by one request (mark_reminder_delivered,     *)
(* Reminder.transition).                                                    *)
THEOREM OnlyDeliveryRevives ==
  ASSUME Creates <= 1
  PROVE  Spec => RevivedByDelivery
  <1>. DEFINE A == \A r \in Reminders : DeliveryRevives(r)
  <1>1. ReminderInv /\ CountInv /\ [Next]_vars => [A]_vars
    BY NextRevives DEF CountInv
  <1>2. [](ReminderInv /\ CountInv) /\ [][Next]_vars => [][A]_vars
    BY <1>1, PTL
  <1>. QED
    BY ReminderInvariance, InitCountInv, NextCountInv, <1>2, PTL DEF Spec, RevivedByDelivery

(* Where no reminder is recurring, nothing leaves a final status            *)
(* (Reminder.transition: _TRANSITIONS of it is empty).                      *)
THEOREM OneTimeFinalIsFinal ==
  ASSUME Creates <= 1, Recurring = {}
  PROVE  Spec => FinalIsFinal
  <1>. DEFINE A == \A r \in Reminders : DeliveryRevives(r)
  <1>. DEFINE F == \A r \in Reminders :
                     reminder[r].status \in Ended => reminder'[r].status = reminder[r].status
  <1>1. [A]_vars => [F]_vars
    BY DEF DeliveryRevives, vars
  <1>2. [][A]_vars => [][F]_vars
    BY <1>1, PTL
  <1>. QED
    BY OnlyDeliveryRevives, <1>2 DEF RevivedByDelivery, FinalIsFinal
=============================================================================
