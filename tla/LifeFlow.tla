------------------------------ MODULE LifeFlow ------------------------------
(***************************************************************************)
(* Tasks of the life flow and their reminders, which live in another       *)
(* database: LifeFlowService (create_task, update_task, transition_task,   *)
(* flush_effect_outbox, flush_audit_outbox) and LifeFlowStore with its two *)
(* outboxes.                                                               *)
(*                                                                         *)
(* A mutation commits its row together with effects (create or cancel a    *)
(* reminder) and an audit event; the request's thread then flushes both    *)
(* outboxes, and so does the worker.  A flush applies an item in the       *)
(* runtime database and marks it in its own, one transaction each.         *)
(* SchedulingService is seen through three states of a reminder (Reminders *)
(* has the rest).  Timestamps are whole seconds: items made in the same    *)
(* second are ordered by their ids, and "effect_cancel_reminder_..." comes *)
(* before "effect_create_reminder_...".                                    *)
(*                                                                         *)
(* An operator X_Slip is X with one mistake in it; no specification uses   *)
(* it, it shows that a property notices the slip.                          *)
(***************************************************************************)
EXTENDS Naturals, FiniteSets

CONSTANTS
    Tasks,          \* tasks, numbered in the order of their effect ids
    Actors,         \* request threads and workers
    Limit,          \* items a flush reads at most (50)
    Patches,        \* may PATCH /api/tasks change a status? (it may)
    MaxTime,        \* bound: last second
    MaxMutations,   \* bound: committed mutations
    MaxFailures,    \* bound: statements that raise in a flush
    MaxCrashes,     \* bound: actors that die
    MaxEdits        \* bound: reminders the user completes or cancels

ASSUME LifeFlowAssumption ==
    /\ Tasks \subseteq Nat /\ IsFiniteSet(Tasks)
    /\ Patches \in BOOLEAN
    /\ Limit \in Nat \ {0} /\ MaxTime \in Nat /\ MaxMutations \in Nat
    /\ MaxFailures \in Nat /\ MaxCrashes \in Nat /\ MaxEdits \in Nat

VARIABLES
    clock,      \* the current second
    task,       \* the tasks table
    outbox,     \* life_flow_effect_outbox and life_flow_audit_outbox
    reminder,   \* the reminder of every task, in the runtime database
    ledger,     \* audit events in the runtime database
    actor,      \* program counter and local state of every actor
    mutations,  \* committed mutations so far
    ended,      \* history: tasks ended by transition_task with a reminder
    spent       \* failures, crashes and edits so far; history: was there a race?

vars == <<clock, task, outbox, reminder, ledger, actor, mutations, ended, spent>>
-----------------------------------------------------------------------------
(* Tasks *)

Status == {"open", "in_progress", "blocked", "completed", "cancelled", "archived"}

Task == [status : Status \cup {"absent"}, linked : BOOLEAN]

NoTask == [status |-> "absent", linked |-> FALSE]

Final == {"completed", "cancelled"}

(* Task.create *)
NewTask(linked) == [status |-> "open", linked |-> linked]

(* Task.transition *)
Transitions(status) ==
    CASE status = "open" -> Status \ {"open"}
      [] status = "in_progress" -> Status \ {"open", "in_progress"}
      [] status = "blocked" -> Status \ {"blocked"}
      [] status \in Final -> {"archived"}
      [] OTHER -> {}
-----------------------------------------------------------------------------
(* The outboxes.  A queued and a retrying item are treated alike.          *)

Effects == {"create", "cancel"} \X Tasks
Audits == {"audit"} \X (1..MaxMutations)
Items == Effects \cup Audits

Entry == [status : {"none", "pending", "delivered"}, made : 0..MaxTime]

NoEntry == [status |-> "none", made |-> 0]

(* INSERT OR IGNORE, of an audit event ... *)
Inserted(i) ==
    IF outbox[i].status = "none" THEN [status |-> "pending", made |-> clock] ELSE outbox[i]

(* ... and of the effects that are committed with it.                      *)
Enqueue(items) == [i \in Items |-> IF i \in items THEN Inserted(i) ELSE outbox[i]]

(* ORDER BY created_at, effect_id *)
Before_IdsOnly(i, j) ==
    \/ i[1] = "cancel" /\ j[1] = "create"
    \/ i[1] = j[1] /\ i[2] < j[2]

Before(i, j) ==
    \/ outbox[i].made < outbox[j].made
    \/ /\ outbox[i].made = outbox[j].made
       /\ \/ i[1] = "cancel" /\ j[1] = "create"
          \/ i[1] = j[1] /\ i[2] < j[2]

Oldest(items) == {i \in items : Cardinality({j \in items : Before(j, i)}) < Limit}

Unsettled(table) == {i \in table : outbox[i].status = "pending"}

(* The rows a flush reads, with the place of each in their order.          *)
Pending(table) ==
    {[item |-> i, place |-> Cardinality({j \in Unsettled(table) : Before(j, i)})] :
        i \in Oldest(Unsettled(table))}

Actor == [pc : {"idle", "save", "effects", "audits", "each", "create", "mark"},
          task : Tasks \cup {0}, target : Status \cup {"none"}, linked : BOOLEAN,
          transition : BOOLEAN,
          batch : SUBSET [item : Items, place : Nat], goOn : BOOLEAN]

IdleActor == [pc |-> "idle", task |-> 0, target |-> "none", linked |-> FALSE,
              transition |-> FALSE, batch |-> {}, goOn |-> FALSE]

Init ==
    /\ clock = 0
    /\ task = [t \in Tasks |-> NoTask]
    /\ outbox = [i \in Items |-> NoEntry]
    /\ reminder = [t \in Tasks |-> "absent"]
    /\ ledger = {}
    /\ actor = [a \in Actors |-> IdleActor]
    /\ mutations = 0
    /\ ended = {}
    /\ spent = [failures |-> 0, crashes |-> 0, edits |-> 0, races |-> 0]

Tick ==
    /\ clock < MaxTime
    /\ clock' = clock + 1
    /\ UNCHANGED <<task, outbox, reminder, ledger, actor, mutations, ended, spent>>
-----------------------------------------------------------------------------
(* Mutations.  The commit writes the task, its effects and its audit event *)
(* in one transaction; then the thread flushes effects and audits.         *)

(* save_task: an upsert of the whole row.                                  *)
Save(t, new) == task' = [task EXCEPT ![t] = new]

(* _audit: every mutation has an event of its own.                         *)
Audit(n) == <<"audit", n>>

Commit(a, t, new, effects) ==
    /\ mutations < MaxMutations
    /\ mutations' = mutations + 1
    /\ Save(t, new)
    /\ outbox' = Enqueue(effects \cup {Audit(mutations + 1)})
    /\ actor' = [actor EXCEPT ![a] = [IdleActor EXCEPT !.pc = "effects", !.goOn = TRUE]]

(* _plan_task_schedule: the effect that creates the reminder.              *)
Planned(t, linked) == IF linked THEN {<<"create", t>>} ELSE {}

CreateTask(a, t) ==
    /\ actor[a].pc = "idle"
    /\ task[t].status = "absent"
    /\ \E linked \in BOOLEAN :
          Commit(a, t, NewTask(linked), Planned(t, linked))
    /\ UNCHANGED <<clock, reminder, ledger, ended, spent>>

(* update_task and transition_task read the task before their transaction  *)
(* has begun (it begins with the first write).                             *)
ReadTask(a, t) ==
    /\ actor[a].pc = "idle"
    /\ mutations + Cardinality({b \in Actors : actor[b].pc = "save"}) < MaxMutations
    /\ task[t].status # "absent"
    /\ \E target \in {task[t].status} \cup Transitions(task[t].status) :
       \E transition \in BOOLEAN :
          /\ transition => target \in {"in_progress", "completed", "blocked", "cancelled"}
          /\ ~transition => Patches
          /\ actor' = [actor EXCEPT ![a] = [IdleActor EXCEPT !.pc = "save", !.task = t,
                !.target = target, !.linked = task[t].linked, !.transition = transition]]
    /\ UNCHANGED <<clock, task, outbox, reminder, ledger, mutations, ended, spent>>

Cancels(a) ==
    IF actor[a].transition /\ actor[a].linked /\ actor[a].target \in Final
    THEN {actor[a].task} ELSE {}

(* The create effect of one of the tasks waits and is of this second. *)
SameSecond(tasks) ==
    \E t \in tasks : outbox[<<"create", t>>] = [status |-> "pending", made |-> clock]

SaveTask(a) ==
    /\ actor[a].pc = "save"
    /\ Commit(a, actor[a].task,
              [status |-> actor[a].target, linked |-> actor[a].linked],
              {"cancel"} \X Cancels(a))
    /\ ended' = ended \cup Cancels(a)
    /\ spent' = [spent EXCEPT !.races = IF SameSecond(Cancels(a)) THEN 1 ELSE @]
    /\ UNCHANGED <<clock, reminder, ledger>>
-----------------------------------------------------------------------------
(* Flushing an outbox *)

(* The worker's jobs life_flow_effect_delivery and life_flow_audit_delivery *)
StartFlush_EffectsOnly(a) ==
    /\ actor[a].pc = "idle"
    /\ Pending(Effects) # {}
    /\ actor' = [actor EXCEPT ![a].pc = "effects"]
    /\ UNCHANGED <<clock, task, outbox, reminder, ledger, mutations, ended, spent>>

StartFlush(a) ==
    /\ actor[a].pc = "idle"
    /\ \E pc \in {"effects", "audits"} :
          /\ Pending(IF pc = "effects" THEN Effects ELSE Audits) # {}
          /\ actor' = [actor EXCEPT ![a].pc = pc]
    /\ UNCHANGED <<clock, task, outbox, reminder, ledger, mutations, ended, spent>>

(* Where an actor is after the rest of a batch. *)
After(a, batch) ==
    CASE batch # {} -> [actor[a] EXCEPT !.pc = "each", !.batch = batch]
      [] batch = {} /\ actor[a].goOn ->
            [IdleActor EXCEPT !.pc = "audits"]
      [] OTHER -> IdleActor

(* Another actor is in the middle of a batch of effects. *)
Overlaps(a) ==
    /\ actor[a].pc = "effects"
    /\ \E b \in Actors \ {a} : \E r \in actor[b].batch : r.item \in Effects

ReadPending_MarksThem(a) ==
    /\ actor[a].pc \in {"effects", "audits"}
    /\ LET batch == Pending(IF actor[a].pc = "effects" THEN Effects ELSE Audits)
       IN  /\ actor' = [actor EXCEPT ![a] = After(a, batch)]
           /\ outbox' = [i \in Items |->
                 IF i \in {r.item : r \in batch}
                 THEN [outbox[i] EXCEPT !.status = "delivered"] ELSE outbox[i]]
    /\ spent' = [spent EXCEPT !.races = IF Overlaps(a) THEN 1 ELSE @]
    /\ UNCHANGED <<clock, task, reminder, ledger, mutations, ended>>

ReadPending(a) ==
    /\ actor[a].pc \in {"effects", "audits"}
    /\ actor' = [actor EXCEPT ![a] =
          After(a, Pending(IF actor[a].pc = "effects" THEN Effects ELSE Audits))]
    /\ spent' = [spent EXCEPT !.races = IF Overlaps(a) THEN 1 ELSE @]
    /\ UNCHANGED <<clock, task, outbox, reminder, ledger, mutations, ended>>

First(a) == {r \in actor[a].batch : \A s \in actor[a].batch : r.place <= s.place}

At(a, pc, kind) ==
    {r.item[2] : r \in {x \in First(a) : actor[a].pc = pc /\ x.item[1] = kind}}

(* create_reminder looks the id up; a reminder that is there is an answer. *)
LookUpReminder(a) ==
    /\ \E t \in At(a, "each", "create") :
          actor' = [actor EXCEPT ![a].pc = IF reminder[t] = "absent" THEN "create" ELSE "mark"]
    /\ UNCHANGED <<clock, task, outbox, reminder, ledger, mutations, ended, spent>>

SaveReminder(a) ==
    /\ \E t \in At(a, "create", "create") :
          reminder' = [reminder EXCEPT ![t] = "active"]
    /\ actor' = [actor EXCEPT ![a].pc = "mark"]
    /\ UNCHANGED <<clock, task, outbox, ledger, mutations, ended, spent>>

(* cancel_reminder: one that is not there is no error. *)
CancelReminder(a) ==
    /\ \E t \in At(a, "each", "cancel") :
          /\ reminder[t] # "completed"
          /\ reminder' = [reminder EXCEPT ![t] = IF @ = "absent" THEN @ ELSE "cancelled"]
    /\ actor' = [actor EXCEPT ![a].pc = "mark"]
    /\ UNCHANGED <<clock, task, outbox, ledger, mutations, ended, spent>>

(* INSERT OR REPLACE INTO events *)
AppendEvent(a) ==
    /\ \E n \in At(a, "each", "audit") : ledger' = ledger \cup {n}
    /\ actor' = [actor EXCEPT ![a].pc = "mark"]
    /\ UNCHANGED <<clock, task, outbox, reminder, mutations, ended, spent>>

(* WHERE status IN ('queued', 'retrying'), in both tables. *)
Delivered(status) == IF status = "pending" THEN "delivered" ELSE status

Mark(a) ==
    /\ actor[a].pc = "mark"
    /\ \E r \in First(a) :
          /\ outbox' = [outbox EXCEPT ![r.item].status = Delivered(@)]
          /\ actor' = [actor EXCEPT ![a] = After(a, actor[a].batch \ {r})]
    /\ UNCHANGED <<clock, task, reminder, ledger, mutations, ended, spent>>

(* mark_effect_failed: the item waits on, the flush goes to the next.      *)
MarkFailed(a) ==
    /\ \E r \in First(a) :
          actor' = [actor EXCEPT ![a] = After(a, actor[a].batch \ {r})]
    /\ UNCHANGED outbox

(* An exception leaves the item pending and the flush goes on: a busy      *)
(* database at any statement, or ...                                       *)
Fails_AsDelivered(a) ==
    /\ actor[a].pc \in {"each", "create", "mark"}
    /\ spent.failures < MaxFailures
    /\ spent' = [spent EXCEPT !.failures = @ + 1]
    /\ \E r \in First(a) :
          /\ outbox' = [outbox EXCEPT ![r.item].status = "delivered"]
          /\ actor' = [actor EXCEPT ![a] = After(a, actor[a].batch \ {r})]
    /\ UNCHANGED <<clock, task, reminder, ledger, mutations, ended>>

Fails(a) ==
    /\ actor[a].pc \in {"each", "create", "mark"}
    /\ spent.failures < MaxFailures
    /\ spent' = [spent EXCEPT !.failures = @ + 1]
    /\ MarkFailed(a)
    /\ UNCHANGED <<clock, task, reminder, ledger, mutations, ended>>

(* ... a reminder that cannot be cancelled because it is completed.        *)
CancelRaises(a) ==
    /\ \E t \in At(a, "each", "cancel") : reminder[t] = "completed"
    /\ MarkFailed(a)
    /\ UNCHANGED <<clock, task, reminder, ledger, mutations, ended, spent>>

(* The process dies and takes some seconds to restart.                     *)
Crash(a) ==
    /\ actor[a].pc # "idle"
    /\ spent.crashes < MaxCrashes /\ clock < MaxTime
    /\ spent' = [spent EXCEPT !.crashes = @ + 1]
    /\ clock' = clock + 1
    /\ actor' = [actor EXCEPT ![a] = IdleActor]
    /\ UNCHANGED <<task, outbox, reminder, ledger, mutations, ended>>

(* prune_delivered_outboxes *)
Prune(i) ==
    /\ outbox[i].status = "delivered"
    /\ outbox' = [outbox EXCEPT ![i] = NoEntry]
    /\ UNCHANGED <<clock, task, reminder, ledger, actor, mutations, ended, spent>>

(* The user completes or cancels the reminder itself.                      *)
EditReminder(t) ==
    /\ reminder[t] = "active"
    /\ spent.edits < MaxEdits
    /\ \E status \in {"completed", "cancelled"} :
          reminder' = [reminder EXCEPT ![t] = status]
    /\ spent' = [spent EXCEPT !.edits = @ + 1]
    /\ UNCHANGED <<clock, task, outbox, ledger, actor, mutations, ended>>
-----------------------------------------------------------------------------
Flush(a) ==
    \/ StartFlush(a) \/ ReadPending(a) \/ LookUpReminder(a) \/ SaveReminder(a)
    \/ CancelReminder(a) \/ AppendEvent(a) \/ Mark(a) \/ CancelRaises(a)

Next ==
    \/ Tick
    \/ \E a \in Actors, t \in Tasks : CreateTask(a, t) \/ ReadTask(a, t)
    \/ \E a \in Actors : SaveTask(a) \/ Flush(a) \/ Fails(a) \/ Crash(a)
    \/ \E i \in Items : Prune(i)
    \/ \E t \in Tasks : EditReminder(t)

Spec == Init /\ [][Next]_vars

(* Both deliveries are periodic jobs, and a request that has committed      *)
(* goes on to its flush.  No request is ever owed.                         *)
FairSpec == Spec /\ \A a \in Actors : WF_vars(SaveTask(a) \/ Flush(a))
-----------------------------------------------------------------------------
(* Properties *)

(* Every variable has its type. *)
TypeOK ==
    /\ clock \in 0..MaxTime
    /\ task \in [Tasks -> Task]
    /\ outbox \in [Items -> Entry]
    /\ reminder \in [Tasks -> {"absent", "active", "completed", "cancelled"}]
    /\ ledger \in SUBSET (1..MaxMutations)
    /\ actor \in [Actors -> Actor]
    /\ mutations \in 0..MaxMutations
    /\ ended \in SUBSET Tasks
    /\ spent \in [failures : Nat, crashes : Nat, edits : Nat, races : 0..1]

Unfinished(i) == outbox[i].status = "pending"

(* No committed mutation goes unrecorded: its audit event is in the ledger *)
(* or still waits in the outbox, whatever fails, dies or flushes twice.    *)
AuditIsKept ==
    \A n \in 1..mutations : n \in ledger \/ Unfinished(<<"audit", n>>)

(* Nobody is flushing and no effect of the task is waiting.                *)
AtRest(t) ==
    /\ \A a \in Actors : actor[a].pc = "idle"
    /\ ~Unfinished(<<"create", t>>) /\ ~Unfinished(<<"cancel", t>>)

(* "Cancelling a task does not deliver an old reminder": when a task was    *)
(* ended and its effects have been delivered, its reminder will not ring.  *)
(* The code keeps this only ...                                            *)
EndedTaskIsSilent ==
    \A t \in ended : AtRest(t) => reminder[t] # "active"

(* ... as long as no statement of a flush raised (the cancel goes ahead of *)
(* the create that is retried), no two flushes had effects in hand at the  *)
(* same time, and no cancel was committed in the second of its create: the *)
(* two databases then follow each other, whoever dies between them.        *)
EndedTaskFallsSilent ==
    spent.failures = 0 /\ spent.races = 0 => EndedTaskIsSilent

(* A task that asked for a reminder and is still open has one, once its    *)
(* effects are delivered.                                                  *)
OpenTaskHasReminder ==
    \A t \in Tasks :
        task[t].status # "absent" /\ task[t].linked /\ t \notin ended /\ AtRest(t)
            => reminder[t] # "absent"

Drained == \A i \in Items : ~Unfinished(i)

(* A completed reminder cannot be cancelled: its effect is retried for     *)
(* ever.                                                                   *)
Poisoned == \E t \in Tasks : Unfinished(<<"cancel", t>>) /\ reminder[t] = "completed"

(* "Idempotently": every intent is delivered.  The code keeps this only ... *)
EveryIntentIsDelivered == []<>Drained

(* ... while no effect is poisoned: whatever failed, died or was flushed   *)
(* twice is taken up again until nothing waits.                            *)
IntentsAreDelivered == []<>(Drained \/ Poisoned)

(* "Completing or cancelling updates the linked reminder": on every path.  *)
FinalTaskIsSilent ==
    \A t \in Tasks :
        task[t].status \in Final /\ task[t].linked /\ AtRest(t) => reminder[t] # "active"

(* A task's status moves along Task.transition: an illegal move is refused. *)
TaskMovesAreAllowed ==
    [][\A t \in Tasks :
          LET old == task[t].status
              new == task'[t].status
          IN  old = "absent" \/ new = old \/ new \in Transitions(old)]_vars
=============================================================================
