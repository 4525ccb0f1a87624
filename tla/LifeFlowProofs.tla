--------------------------- MODULE LifeFlowProofs ---------------------------
(***************************************************************************)
(* Proofs about LifeFlow, for every finite set of tasks, every set of      *)
(* actors and every limit and bound.                                       *)
(*                                                                         *)
(* FlowInv is about one item at a time: what is marked, or about to be     *)
(* marked, has been applied, so that nothing committed is ever lost.       *)
(* QuietInv is about the order of a create and its cancel.  It speaks of   *)
(* histories without a failed statement and without the races that spent   *)
(* counts: then one actor at most has effects in hand, an item in hand is  *)
(* still pending, and a cancel never goes ahead of the create it revokes.  *)
(***************************************************************************)
EXTENDS LifeFlow, TLAPS, FiniteSetTheorems

Creating(t) == Unfinished(<<"create", t>>)
Cancelling(t) == Unfinished(<<"cancel", t>>)

(* What an item asks for is there.                                         *)
Applied(i) ==
    /\ i[1] = "audit" => i[2] \in ledger
    /\ i[1] = "create" => reminder[i[2]] # "absent"

(* The items of a batch are in different places, and the one an actor is   *)
(* about to mark has been applied.                                         *)
Distinct(batch) == \A r, s \in batch : (r.place = s.place \/ r.item = s.item) => r = s

BatchInv ==
    \A a \in Actors :
        /\ Distinct(actor[a].batch)
        /\ actor[a].pc = "create" => \A r \in First(a) : r.item[1] = "create"
        /\ actor[a].pc = "mark" => \A r \in First(a) : Applied(r.item)

(* What a request read of its task stays true, but for the status.         *)
SaveInv ==
    \A a \in Actors : actor[a].pc = "save" =>
        /\ actor[a].task \in Tasks /\ actor[a].target \in Status
        /\ task[actor[a].task].status # "absent"
        /\ task[actor[a].task].linked = actor[a].linked

DoneInv == \A i \in Items : outbox[i].status = "delivered" => Applied(i)

MadeInv == \A i \in Items : Unfinished(i) => outbox[i].made <= clock

(* A linked task has its reminder, or the effect that creates it.          *)
LinkInv ==
    \A t \in Tasks : (task[t].status # "absent" /\ task[t].linked)
                        => (reminder[t] # "absent" \/ Creating(t))

(* Only an ended task has a cancel effect.                                 *)
CancelInv ==
    \A t \in Tasks :
        /\ outbox[<<"cancel", t>>].status # "none" => t \in ended
        /\ t \in ended => (task[t].status # "absent" /\ task[t].linked)

FlowInv == /\ TypeOK /\ BatchInv /\ SaveInv /\ DoneInv /\ MadeInv
           /\ LinkInv /\ CancelInv /\ AuditIsKept

(* One actor at most has effects in hand.                                  *)
HasEffects(a) == \E r \in actor[a].batch : r.item \in Effects
OneFlushes == \A a, b \in Actors : HasEffects(a) /\ HasEffects(b) => a = b

(* An effect in hand is pending ...                                        *)
HeldPending ==
    \A a \in Actors : \A r \in actor[a].batch : r.item \in Effects => Unfinished(r.item)

(* ... a cancel is of a later second than its create, ...                  *)
CancelsLater ==
    \A t \in Tasks : Creating(t) /\ Cancelling(t)
        => outbox[<<"create", t>>].made < outbox[<<"cancel", t>>].made

(* ... and behind it in every batch.                                       *)
CreatesFirst ==
    \A a \in Actors : \A r \in actor[a].batch : \A t \in Tasks :
        (r.item = <<"cancel", t>> /\ Creating(t)) =>
            \E s \in actor[a].batch : s.item = <<"create", t>> /\ s.place < r.place

(* A reminder that is about to be created is not there.                    *)
LookedUp ==
    \A a \in Actors : actor[a].pc = "create" =>
        \A r \in First(a) : reminder[r.item[2]] = "absent"

Over(t) == reminder[t] \in {"completed", "cancelled"}

(* A cancel that is about to be marked has silenced the reminder, and so   *)
(* has one that is not pending any more.                                   *)
Silenced ==
    \A a \in Actors : actor[a].pc = "mark" =>
        \A r \in First(a) : r.item[1] = "cancel" => Over(r.item[2])
EndedOver == \A t \in ended : Cancelling(t) \/ Over(t)

Orderly == spent.failures = 0 /\ spent.races = 0

Quiet == /\ OneFlushes /\ HeldPending /\ CancelsLater /\ CreatesFirst
         /\ LookedUp /\ Silenced /\ EndedOver

QuietInv == Orderly => Quiet
-----------------------------------------------------------------------------
(* Items and their order *)

Tables == {Effects, Audits}

LEMMA ItemParts ==
  /\ \A i \in Items : i = <<i[1], i[2]>>
  /\ \A i \in Effects : i[1] \in {"create", "cancel"} /\ i[2] \in Tasks /\ i[2] \in Nat
  /\ \A i \in Audits : i[1] = "audit" /\ i[2] \in 1..MaxMutations /\ i[2] \in Nat
  <1>1. \A i \in Effects : /\ i = <<i[1], i[2]>> /\ i[1] \in {"create", "cancel"}
                           /\ i[2] \in Tasks /\ i[2] \in Nat
    BY LifeFlowAssumption DEF Effects
  <1>2. \A i \in Audits : /\ i = <<i[1], i[2]>> /\ i[1] = "audit"
                          /\ i[2] \in 1..MaxMutations /\ i[2] \in Nat
    BY LifeFlowAssumption DEF Audits
  <1>. QED
    BY <1>1, <1>2 DEF Items

LEMMA ItemNames ==
  /\ \A t \in Tasks : <<"create", t>> \in Effects /\ <<"cancel", t>> \in Effects
  /\ \A n \in 1..MaxMutations : <<"audit", n>> \in Audits
  /\ Effects \subseteq Items /\ Audits \subseteq Items
  /\ \A i \in Effects : i \notin Audits
  BY DEF Items, Effects, Audits

LEMMA TablesFinite == ASSUME NEW tbl \in Tables PROVE IsFiniteSet(tbl)
  <1>1. IsFiniteSet({"create"}) /\ IsFiniteSet({"cancel"}) /\ IsFiniteSet({"audit"})
    BY FS_Singleton
  <1>2. {"create", "cancel"} = {"create"} \cup {"cancel"}
    OBVIOUS
  <1>3. IsFiniteSet({"create", "cancel"})
    BY <1>1, <1>2, FS_Union
  <1>4. IsFiniteSet(1..MaxMutations)
    BY FS_Interval, LifeFlowAssumption
  <1>5. IsFiniteSet(Effects)
    BY <1>3, FS_Product, LifeFlowAssumption DEF Effects
  <1>6. IsFiniteSet(Audits)
    BY <1>1, <1>4, FS_Product DEF Audits
  <1>. QED
    BY <1>5, <1>6 DEF Tables

(* Within a table, the items are in a strict total order.                  *)
LEMMA BeforeIsAnOrder ==
  ASSUME TypeOK, NEW tbl \in Tables, NEW i \in tbl, NEW j \in tbl, NEW k \in tbl
  PROVE  /\ ~Before(i, i)
         /\ Before(i, j) /\ Before(j, k) => Before(i, k)
         /\ i = j \/ Before(i, j) \/ Before(j, i)
  <1>1. /\ i \in Items /\ j \in Items /\ k \in Items
        /\ i[2] \in Nat /\ j[2] \in Nat /\ k[2] \in Nat
    BY ItemParts, ItemNames DEF Tables
  <1>2. /\ outbox[i].made \in Nat /\ outbox[j].made \in Nat /\ outbox[k].made \in Nat
    BY <1>1, LifeFlowAssumption DEF TypeOK, Entry
  <1>3. \/ i[1] = "audit" /\ j[1] = "audit" /\ k[1] = "audit"
        \/ {i[1], j[1], k[1]} \subseteq {"create", "cancel"}
    BY ItemParts DEF Tables
  <1>4. (i[1] = j[1] /\ i[2] = j[2]) => i = j
    BY <1>1, ItemParts
  <1>. QED
    BY <1>2, <1>1, <1>3, <1>4 DEF Before

(* The place of an item in its table's order.                              *)
Ahead(tbl, i) == {j \in Unsettled(tbl) : Before(j, i)}
Place(tbl, i) == Cardinality(Ahead(tbl, i))

LEMMA AheadFinite ==
  ASSUME NEW tbl \in Tables, NEW i
  PROVE  IsFiniteSet(Ahead(tbl, i)) /\ Place(tbl, i) \in Nat
  BY TablesFinite, FS_Subset, FS_CardinalityType DEF Ahead, Place, Unsettled

LEMMA PlacesFollowTheOrder ==
  ASSUME TypeOK, NEW tbl \in Tables, NEW i \in Unsettled(tbl), NEW j \in Unsettled(tbl),
         Before(i, j)
  PROVE  Place(tbl, i) < Place(tbl, j)
  <1>1. Unsettled(tbl) \subseteq tbl
    BY DEF Unsettled
  <1>2. Ahead(tbl, i) \subseteq Ahead(tbl, j)
    BY <1>1, BeforeIsAnOrder DEF Ahead
  <1>3. i \in Ahead(tbl, j) /\ i \notin Ahead(tbl, i)
    BY <1>1, BeforeIsAnOrder DEF Ahead
  <1>4. Cardinality(Ahead(tbl, i)) <= Cardinality(Ahead(tbl, j))
    BY <1>2, AheadFinite, FS_Subset
  <1>5. Cardinality(Ahead(tbl, i)) # Cardinality(Ahead(tbl, j))
    BY <1>2, <1>3, AheadFinite, FS_Subset
  <1>. QED
    BY <1>4, <1>5, AheadFinite DEF Place

LEMMA PendingIs ==
  ASSUME NEW tbl
  PROVE  /\ \A r \in Pending(tbl) : /\ r.item \in Unsettled(tbl)
                                    /\ r.place = Place(tbl, r.item)
                                    /\ r.place < Limit
                                    /\ r = [item |-> r.item, place |-> r.place]
         /\ \A i \in Unsettled(tbl) : Place(tbl, i) < Limit =>
               [item |-> i, place |-> Place(tbl, i)] \in Pending(tbl)
  <1>1. Pending(tbl) = {[item |-> i, place |-> Place(tbl, i)] : i \in Oldest(Unsettled(tbl))}
    BY DEF Pending, Place, Ahead
  <1>2. Oldest(Unsettled(tbl)) = {i \in Unsettled(tbl) : Place(tbl, i) < Limit}
    BY DEF Oldest, Place, Ahead
  <1>. QED
    BY <1>1, <1>2

(* A flush reads pending items of its table, in different places.          *)
LEMMA PendingFacts ==
  ASSUME TypeOK, NEW tbl \in Tables
  PROVE  /\ Pending(tbl) \in SUBSET [item : Items, place : Nat]
         /\ \A r \in Pending(tbl) : r.item \in tbl /\ Unfinished(r.item)
         /\ Distinct(Pending(tbl))
         /\ \A r \in Pending(tbl) : \A i \in tbl :
               (Unfinished(i) /\ Before(i, r.item)) =>
                  \E s \in Pending(tbl) : s.item = i /\ s.place < r.place
  <1>1. Unsettled(tbl) \subseteq tbl /\ tbl \subseteq Items
    BY ItemNames DEF Unsettled, Tables
  <1>2. ASSUME NEW r \in Pending(tbl)
        PROVE  r \in [item : Items, place : Nat] /\ r.item \in tbl /\ Unfinished(r.item)
    BY <1>1, <1>2, PendingIs, AheadFinite DEF Unsettled, Unfinished
  <1>3. ASSUME NEW r \in Pending(tbl), NEW s \in Pending(tbl),
               r.place = s.place \/ r.item = s.item
        PROVE  r = s
    <2>1. /\ r.item \in Unsettled(tbl) /\ s.item \in Unsettled(tbl)
          /\ Place(tbl, r.item) = Place(tbl, s.item)
      BY <1>3, PendingIs
    <2>2. ~Before(r.item, s.item) /\ ~Before(s.item, r.item)
      BY <2>1, PlacesFollowTheOrder, AheadFinite
    <2>3. r.item = s.item
      BY <2>1, <2>2, <1>1, BeforeIsAnOrder
    <2>. QED
      BY <2>3, <1>3, PendingIs
  <1>4. ASSUME NEW r \in Pending(tbl), NEW i \in tbl, Unfinished(i), Before(i, r.item)
        PROVE  \E s \in Pending(tbl) : s.item = i /\ s.place < r.place
    <2>1. /\ i \in Unsettled(tbl) /\ r.item \in Unsettled(tbl)
          /\ r.place = Place(tbl, r.item) /\ r.place < Limit
      BY <1>4, PendingIs DEF Unsettled, Unfinished
    <2>2. Place(tbl, i) < Place(tbl, r.item)
      BY <2>1, <1>4, PlacesFollowTheOrder
    <2>3. Place(tbl, i) < Limit
      BY <2>1, <2>2, AheadFinite, LifeFlowAssumption
    <2>4. [item |-> i, place |-> Place(tbl, i)] \in Pending(tbl)
      BY <2>1, <2>3, PendingIs
    <2>. QED
      BY <2>1, <2>2, <2>4
  <1>. QED
    BY <1>2, <1>3, <1>4 DEF Distinct
-----------------------------------------------------------------------------
(* Type correctness *)

LEMMA IdleType == IdleActor \in Actor
  BY DEF IdleActor, Actor

LEMMA AfterType ==
  ASSUME TypeOK, NEW a \in Actors, NEW batch \in SUBSET [item : Items, place : Nat]
  PROVE  /\ After(a, batch) \in Actor
         /\ After(a, batch).batch = batch
         /\ batch # {} => After(a, batch).pc = "each"
         /\ batch = {} => After(a, batch).pc \in {"idle", "audits"}
  BY IdleType DEF After, Actor, TypeOK, IdleActor

LEMMA FirstType ==
  ASSUME TypeOK, NEW a \in Actors, NEW r \in First(a)
  PROVE  /\ r \in actor[a].batch /\ r.item \in Items /\ r.place \in Nat
         /\ actor[a].batch \ {r} \in SUBSET [item : Items, place : Nat]
  <1>1. actor[a].batch \in SUBSET [item : Items, place : Nat]
    BY DEF TypeOK, Actor
  <1>. QED
    BY <1>1 DEF First

LEMMA AtIs ==
  ASSUME TypeOK, NEW a \in Actors, NEW pc, NEW kind, NEW n \in At(a, pc, kind)
  PROVE  /\ actor[a].pc = pc
         /\ \E r \in First(a) : r.item = <<kind, n>>
         /\ <<kind, n>> \in Items
  <1>1. PICK r \in First(a) : actor[a].pc = pc /\ r.item[1] = kind /\ r.item[2] = n
    BY DEF At
  <1>. QED
    BY <1>1, FirstType, ItemParts

LEMMA ItemOf ==
  /\ \A t : <<"create", t>> \in Items => t \in Tasks
  /\ \A t : <<"cancel", t>> \in Items => t \in Tasks
  /\ \A n : <<"audit", n>> \in Items => n \in 1..MaxMutations
  BY DEF Items, Effects, Audits

(* What a commit leaves in the outbox.                                     *)
LEMMA EnqueueIs ==
  ASSUME TypeOK, NEW items
  PROVE  /\ Enqueue(items) \in [Items -> Entry]
         /\ \A i \in Items \ items : Enqueue(items)[i] = outbox[i]
         /\ \A i \in items \cap Items : Enqueue(items)[i] = Inserted(i)
         /\ \A i \in Items : outbox[i].status = "none" =>
               Inserted(i) = [status |-> "pending", made |-> clock]
         /\ \A i \in Items : outbox[i].status # "none" => Inserted(i) = outbox[i]
  <1>1. \A i \in Items : Inserted(i) \in Entry /\ outbox[i] \in Entry
    BY DEF Inserted, Entry, TypeOK
  <1>2. \A i \in Items : Enqueue(items)[i] = IF i \in items THEN Inserted(i) ELSE outbox[i]
    BY DEF Enqueue
  <1>3. Enqueue(items) \in [Items -> Entry]
    BY <1>1 DEF Enqueue
  <1>. QED
    BY <1>2, <1>3 DEF Inserted

LEMMA CommitType ==
  ASSUME TypeOK, NEW a \in Actors, NEW t \in Tasks, NEW new \in Task, NEW effects,
         Commit(a, t, new, effects)
  PROVE  /\ task' \in [Tasks -> Task] /\ outbox' \in [Items -> Entry]
         /\ actor' \in [Actors -> Actor] /\ mutations' \in 0..MaxMutations
  <1>1. [IdleActor EXCEPT !.pc = "effects", !.goOn = TRUE] \in Actor
    BY DEF IdleActor, Actor
  <1>2. task' \in [Tasks -> Task]
    BY DEF Commit, Save, TypeOK
  <1>3. outbox' \in [Items -> Entry]
    BY EnqueueIs DEF Commit
  <1>4. actor' \in [Actors -> Actor]
    BY <1>1 DEF Commit, TypeOK
  <1>5. mutations' \in 0..MaxMutations
    BY LifeFlowAssumption DEF Commit, TypeOK
  <1>. QED
    BY <1>2, <1>3, <1>4, <1>5

LEMMA InitTypeOK == Init => TypeOK
  <1>. SUFFICES ASSUME Init PROVE TypeOK
    OBVIOUS
  <1>1. NoTask \in Task /\ NoEntry \in Entry /\ 0 \in 0..MaxTime /\ 0 \in 0..MaxMutations
    BY LifeFlowAssumption DEF NoTask, Task, NoEntry, Entry
  <1>. QED
    BY <1>1, IdleType DEF Init, TypeOK

LEMMA CreateTaskType ==
  ASSUME TypeOK, NEW a \in Actors, NEW t \in Tasks, CreateTask(a, t) PROVE TypeOK'
  <1>1. PICK linked \in BOOLEAN : Commit(a, t, NewTask(linked), Planned(t, linked))
    BY DEF CreateTask
  <1>2. NewTask(linked) \in Task
    BY DEF NewTask, Task, Status
  <1>. QED
    BY <1>1, <1>2, CommitType DEF CreateTask, TypeOK

LEMMA ReadTaskType ==
  ASSUME TypeOK, NEW a \in Actors, NEW t \in Tasks, ReadTask(a, t) PROVE TypeOK'
  <1>1. PICK target \in {task[t].status} \cup Transitions(task[t].status),
             transition \in BOOLEAN :
          actor' = [actor EXCEPT ![a] = [IdleActor EXCEPT !.pc = "save", !.task = t,
                !.target = target, !.linked = task[t].linked, !.transition = transition]]
    BY DEF ReadTask
  <1>2. task[t] \in Task /\ task[t].status # "absent"
    BY DEF TypeOK, ReadTask
  <1>3. target \in Status /\ task[t].linked \in BOOLEAN
    BY <1>2 DEF Task, Transitions, Status
  <1>4. [IdleActor EXCEPT !.pc = "save", !.task = t, !.target = target,
            !.linked = task[t].linked, !.transition = transition] \in Actor
    BY <1>3 DEF IdleActor, Actor
  <1>. QED
    BY <1>1, <1>4 DEF ReadTask, TypeOK

LEMMA SaveTaskType ==
  ASSUME TypeOK, SaveInv, NEW a \in Actors, SaveTask(a) PROVE TypeOK'
  <1>. DEFINE new == [status |-> actor[a].target, linked |-> actor[a].linked]
  <1>1. /\ Commit(a, actor[a].task, new, {"cancel"} \X Cancels(a))
        /\ actor[a].task \in Tasks /\ actor[a].target \in Status /\ actor[a].linked \in BOOLEAN
    BY DEF SaveTask, SaveInv, TypeOK, Actor
  <1>2. new \in Task
    BY <1>1 DEF Task
  <1>3. Cancels(a) \subseteq Tasks
    BY <1>1 DEF Cancels
  <1>4. spent' \in [failures : Nat, crashes : Nat, edits : Nat, races : 0..1]
    BY DEF SaveTask, TypeOK
  <1>5. ended' \in SUBSET Tasks
    BY <1>3 DEF SaveTask, TypeOK
  <1>. HIDE DEF new
  <1>. QED
    BY <1>1, <1>2, <1>4, <1>5, CommitType DEF SaveTask, TypeOK

LEMMA ReadPendingType ==
  ASSUME TypeOK, NEW a \in Actors, ReadPending(a) PROVE TypeOK'
  <1>. DEFINE tbl == IF actor[a].pc = "effects" THEN Effects ELSE Audits
  <1>1. Pending(tbl) \in SUBSET [item : Items, place : Nat]
    BY PendingFacts DEF Tables
  <1>2. After(a, Pending(tbl)) \in Actor
    BY <1>1, AfterType
  <1>3. spent' \in [failures : Nat, crashes : Nat, edits : Nat, races : 0..1]
    BY DEF ReadPending, TypeOK
  <1>4. actor' \in [Actors -> Actor]
    BY <1>2 DEF ReadPending, TypeOK
  <1>. QED
    BY <1>3, <1>4 DEF ReadPending, TypeOK

LEMMA PcType ==
  ASSUME TypeOK, NEW a \in Actors,
         NEW pc \in {"idle", "save", "effects", "audits", "each", "create", "mark"},
         actor' = [actor EXCEPT ![a].pc = pc]
  PROVE  actor' \in [Actors -> Actor]
  BY DEF TypeOK, Actor

LEMMA FailedType ==
  ASSUME TypeOK, NEW a \in Actors, MarkFailed(a)
  PROVE  actor' \in [Actors -> Actor]
  BY FirstType, AfterType DEF MarkFailed, TypeOK

LEMMA NextTypeOK ==
  ASSUME TypeOK, SaveInv, [Next]_vars
  PROVE  TypeOK'
  <1>1. CASE Tick
    BY <1>1, LifeFlowAssumption DEF Tick, TypeOK
  <1>2. ASSUME NEW a \in Actors, NEW t \in Tasks, CreateTask(a, t) \/ ReadTask(a, t)
        PROVE  TypeOK'
    BY <1>2, CreateTaskType, ReadTaskType
  <1>3. ASSUME NEW a \in Actors, SaveTask(a) PROVE TypeOK'
    BY <1>3, SaveTaskType
  <1>4. ASSUME NEW a \in Actors, Flush(a) PROVE TypeOK'
    <2>1. CASE StartFlush(a)
      BY <2>1, PcType DEF StartFlush, TypeOK
    <2>2. CASE ReadPending(a)
      BY <2>2, ReadPendingType
    <2>3. CASE LookUpReminder(a)
      BY <2>3, PcType DEF LookUpReminder, TypeOK
    <2>4. CASE SaveReminder(a)
      BY <2>4, PcType DEF SaveReminder, TypeOK
    <2>5. CASE CancelReminder(a)
      BY <2>5, PcType DEF CancelReminder, TypeOK
    <2>6. CASE AppendEvent(a)
      <3>1. PICK n \in At(a, "each", "audit") : ledger' = ledger \cup {n}
        BY <2>6 DEF AppendEvent
      <3>2. n \in 1..MaxMutations
        BY AtIs, ItemOf
      <3>. QED
        BY <2>6, <3>1, <3>2, PcType DEF AppendEvent, TypeOK
    <2>7. CASE Mark(a)
      <3>1. PICK r \in First(a) :
              /\ outbox' = [outbox EXCEPT ![r.item].status = Delivered(@)]
              /\ actor' = [actor EXCEPT ![a] = After(a, actor[a].batch \ {r})]
        BY <2>7 DEF Mark
      <3>2. After(a, actor[a].batch \ {r}) \in Actor
        BY FirstType, AfterType
      <3>3. outbox' \in [Items -> Entry]
        BY <3>1 DEF TypeOK, Entry, Delivered
      <3>4. actor' \in [Actors -> Actor]
        BY <3>1, <3>2 DEF TypeOK
      <3>. QED
        BY <2>7, <3>3, <3>4 DEF Mark, TypeOK
    <2>8. CASE CancelRaises(a)
      BY <2>8, FailedType DEF CancelRaises, MarkFailed, TypeOK
    <2>. QED
      BY <1>4, <2>1, <2>2, <2>3, <2>4, <2>5, <2>6, <2>7, <2>8 DEF Flush
  <1>5. ASSUME NEW a \in Actors, Fails(a) PROVE TypeOK'
    <2>1. spent' \in [failures : Nat, crashes : Nat, edits : Nat, races : 0..1]
      BY <1>5 DEF Fails, TypeOK
    <2>. QED
      BY <1>5, <2>1, FailedType DEF Fails, MarkFailed, TypeOK
  <1>6. ASSUME NEW a \in Actors, Crash(a) PROVE TypeOK'
    <2>1. spent' \in [failures : Nat, crashes : Nat, edits : Nat, races : 0..1]
      BY <1>6 DEF Crash, TypeOK
    <2>2. clock' \in 0..MaxTime
      BY <1>6, LifeFlowAssumption DEF Crash, TypeOK
    <2>. QED
      BY <1>6, <2>1, <2>2, IdleType DEF Crash, TypeOK
  <1>7. ASSUME NEW i \in Items, Prune(i) PROVE TypeOK'
    <2>1. NoEntry \in Entry
      BY LifeFlowAssumption DEF NoEntry, Entry
    <2>. QED
      BY <1>7, <2>1 DEF Prune, TypeOK
  <1>8. ASSUME NEW t \in Tasks, EditReminder(t) PROVE TypeOK'
    <2>1. spent' \in [failures : Nat, crashes : Nat, edits : Nat, races : 0..1]
      BY <1>8 DEF EditReminder, TypeOK
    <2>. QED
      BY <1>8, <2>1 DEF EditReminder, TypeOK
  <1>9. CASE UNCHANGED vars
    BY <1>9 DEF vars, TypeOK
  <1>. QED
    BY <1>1, <1>2, <1>3, <1>4, <1>5, <1>6, <1>7, <1>8, <1>9 DEF Next
-----------------------------------------------------------------------------
(* What a step may do: reminders and events stay, an item is queued once,  *)
(* and it is marked only after it was applied.                             *)

Grows ==
    /\ \A t \in Tasks : reminder[t] # "absent" => reminder'[t] # "absent"
    /\ ledger \subseteq ledger'

LEMMA AppliedStays ==
  ASSUME Grows, NEW i \in Items, Applied(i) PROVE Applied(i)'
  BY ItemParts DEF Grows, Applied, Items, Effects, Audits

LEMMA StepsGrow == ASSUME TypeOK, [Next]_vars PROVE Grows
  <1>. USE DEF Grows
  <1>1. CASE UNCHANGED <<reminder, ledger>>
    BY <1>1
  <1>2. ASSUME NEW a \in Actors, SaveReminder(a) PROVE Grows
    BY <1>2 DEF SaveReminder, TypeOK
  <1>3. ASSUME NEW a \in Actors, CancelReminder(a) PROVE Grows
    BY <1>3 DEF CancelReminder, TypeOK
  <1>4. ASSUME NEW a \in Actors, AppendEvent(a) PROVE Grows
    BY <1>4 DEF AppendEvent
  <1>5. ASSUME NEW t \in Tasks, EditReminder(t) PROVE Grows
    BY <1>5 DEF EditReminder, TypeOK
  <1>. QED
    BY <1>1, <1>2, <1>3, <1>4, <1>5
    DEF Next, vars, Tick, CreateTask, ReadTask, SaveTask, Flush, StartFlush, ReadPending,
        LookUpReminder, Mark, CancelRaises, MarkFailed, Fails, Crash, Prune

LEMMA FirstUnique ==
  ASSUME TypeOK, BatchInv, NEW a \in Actors, NEW r \in First(a), NEW s \in First(a)
  PROVE  r = s
  <1>1. r.place <= s.place /\ s.place <= r.place
    BY DEF First
  <1>2. r.place \in Nat /\ s.place \in Nat
    BY FirstType
  <1>. QED
    BY <1>1, <1>2 DEF Distinct, BatchInv, First

Queued(i) ==
    outbox[i].status = "none" /\ outbox'[i] = [status |-> "pending", made |-> clock]
MarkedOff(i) ==
    /\ Unfinished(i) /\ Applied(i)
    /\ outbox'[i].status = "delivered" /\ outbox'[i].made = outbox[i].made
Pruned(i) == outbox[i].status = "delivered" /\ outbox'[i] = NoEntry

ItemStep(i) == outbox'[i] = outbox[i] \/ Queued(i) \/ MarkedOff(i) \/ Pruned(i)

LEMMA CommitSteps ==
  ASSUME TypeOK, NEW a \in Actors, NEW t \in Tasks, NEW new, NEW effects,
         Commit(a, t, new, effects)
  PROVE  /\ \A i \in Items : ItemStep(i)
         /\ \A i \in Items : i \notin effects /\ i[1] # "audit" => outbox'[i] = outbox[i]
         /\ \A i \in effects \cap Items :
               outbox'[i].status # "none" /\ (outbox[i].status # "delivered" => Unfinished(i)')
         /\ mutations' = mutations + 1 /\ mutations' \in 1..MaxMutations
         /\ outbox'[<<"audit", mutations'>>].status # "none"
         /\ task' = [task EXCEPT ![t] = new]
         /\ actor' = [actor EXCEPT ![a] = [IdleActor EXCEPT !.pc = "effects", !.goOn = TRUE]]
  <1>. DEFINE items == effects \cup {Audit(mutations + 1)}
  <1>1. /\ outbox' = Enqueue(items) /\ mutations' = mutations + 1
        /\ mutations' \in 1..MaxMutations
        /\ task' = [task EXCEPT ![t] = new]
        /\ actor' = [actor EXCEPT ![a] = [IdleActor EXCEPT !.pc = "effects", !.goOn = TRUE]]
    BY LifeFlowAssumption DEF Commit, Save, TypeOK
  <1>2. \A i \in Items : outbox[i] \in Entry
    BY DEF TypeOK
  <1>3. Audit(mutations + 1) = <<"audit", mutations'>> /\ <<"audit", mutations'>> \in Items
    BY <1>1, ItemNames DEF Audit
  <1>4. <<"audit", mutations'>>[1] = "audit"
    OBVIOUS
  <1>5. \A i \in Items : i \in items => Unfinished(i)' \/ outbox'[i] = outbox[i]
    BY <1>1, EnqueueIs DEF Unfinished
  <1>6. \A i \in Items : ItemStep(i)
    BY <1>1, EnqueueIs DEF ItemStep, Queued
  <1>7. \A i \in Items \cap items : outbox'[i].status # "none"
    BY <1>1, EnqueueIs
  <1>8. \A i \in Items \cap items : outbox[i].status # "delivered" => Unfinished(i)'
    BY <1>1, <1>2, EnqueueIs DEF Unfinished, Entry
  <1>9. \A i \in Items \ items : outbox'[i] = outbox[i]
    BY <1>1, EnqueueIs
  <1>. QED
    BY <1>1, <1>3, <1>4, <1>6, <1>7, <1>8, <1>9

LEMMA MarkSteps ==
  ASSUME TypeOK, BatchInv, NEW a \in Actors, Mark(a)
  PROVE  \E r \in First(a) :
           /\ r \in actor[a].batch /\ r.item \in Items /\ Applied(r.item)
           /\ \A i \in Items \ {r.item} : outbox'[i] = outbox[i]
           /\ outbox'[r.item].made = outbox[r.item].made
           /\ outbox'[r.item].status = Delivered(outbox[r.item].status)
           /\ actor' = [actor EXCEPT ![a] = After(a, actor[a].batch \ {r})]
  <1>1. PICK r \in First(a) :
          /\ outbox' = [outbox EXCEPT ![r.item].status = Delivered(@)]
          /\ actor' = [actor EXCEPT ![a] = After(a, actor[a].batch \ {r})]
    BY DEF Mark
  <1>2. r \in actor[a].batch /\ r.item \in Items
    BY FirstType
  <1>3. Applied(r.item)
    BY DEF Mark, BatchInv
  <1>4. \A i \in Items \ {r.item} : outbox'[i] = outbox[i]
    BY <1>1, <1>2 DEF TypeOK
  <1>5. /\ outbox'[r.item].made = outbox[r.item].made
        /\ outbox'[r.item].status = Delivered(outbox[r.item].status)
    BY <1>1, <1>2 DEF TypeOK, Entry
  <1>. QED
    BY <1>1, <1>2, <1>3, <1>4, <1>5

LEMMA OutboxSteps ==
  ASSUME TypeOK, BatchInv, SaveInv, [Next]_vars, NEW i \in Items
  PROVE  ItemStep(i)
  <1>1. CASE UNCHANGED outbox
    BY <1>1 DEF ItemStep
  <1>2. ASSUME NEW a \in Actors, NEW t \in Tasks, CreateTask(a, t) PROVE ItemStep(i)
    BY <1>2, CommitSteps DEF CreateTask
  <1>3. ASSUME NEW a \in Actors, SaveTask(a) PROVE ItemStep(i)
    BY <1>3, CommitSteps DEF SaveTask, SaveInv
  <1>4. ASSUME NEW a \in Actors, Mark(a) PROVE ItemStep(i)
    <2>1. PICK r \in First(a) :
             /\ r.item \in Items /\ Applied(r.item)
             /\ \A j \in Items \ {r.item} : outbox'[j] = outbox[j]
             /\ outbox'[r.item].made = outbox[r.item].made
             /\ outbox'[r.item].status = Delivered(outbox[r.item].status)
      BY <1>4, MarkSteps
    <2>2. CASE i # r.item
      BY <2>1, <2>2 DEF ItemStep
    <2>3. CASE i = r.item /\ Unfinished(i)
      BY <2>1, <2>3 DEF ItemStep, MarkedOff, Unfinished, Delivered
    <2>4. CASE i = r.item /\ ~Unfinished(i)
      <3>1. outbox'[i].status = outbox[i].status /\ outbox'[i].made = outbox[i].made
        BY <2>1, <2>4 DEF Unfinished, Delivered
      <3>2. outbox[i] \in Entry /\ outbox'[i] \in Entry
        BY NextTypeOK DEF TypeOK
      <3>. QED
        BY <3>1, <3>2 DEF ItemStep, Entry
    <2>. QED
      BY <2>2, <2>3, <2>4
  <1>5. ASSUME NEW j \in Items, Prune(j) PROVE ItemStep(i)
    BY <1>5 DEF Prune, ItemStep, Pruned, TypeOK
  <1>. QED
    BY <1>1, <1>2, <1>3, <1>4, <1>5
    DEF Next, vars, Tick, ReadTask, Flush, StartFlush, ReadPending, LookUpReminder,
        SaveReminder, CancelReminder, AppendEvent, CancelRaises, MarkFailed, Fails, Crash,
        EditReminder

(* The task and what is committed with it.                                 *)
LEMMA TaskSteps ==
  ASSUME TypeOK, SaveInv, [Next]_vars
  PROVE  \/ UNCHANGED <<task, mutations, ended>>
         \/ \E a \in Actors, t \in Tasks : CreateTask(a, t)
         \/ \E a \in Actors : SaveTask(a)
  BY DEF Next, vars, Tick, ReadTask, Flush, StartFlush, ReadPending, LookUpReminder,
         SaveReminder, CancelReminder, AppendEvent, Mark, CancelRaises, MarkFailed, Fails,
         Crash, Prune, EditReminder
-----------------------------------------------------------------------------
(* FlowInv is inductive *)

FirstIn(batch) == {r \in batch : \A s \in batch : r.place <= s.place}

LEMMA BatchStays ==
  ASSUME TypeOK, BatchInv, Grows, NEW a \in Actors, NEW x,
         actor' = [actor EXCEPT ![a] = x], Distinct(x.batch),
         x.pc = "create" => \A r \in FirstIn(x.batch) : r.item[1] = "create",
         x.pc = "mark" => \A r \in FirstIn(x.batch) : Applied(r.item)'
  PROVE  BatchInv'
  <1>. SUFFICES ASSUME NEW b \in Actors
               PROVE  /\ Distinct(actor'[b].batch)
                      /\ actor'[b].pc = "create" =>
                            \A r \in First(b)' : r.item[1] = "create"
                      /\ actor'[b].pc = "mark" => \A r \in First(b)' : Applied(r.item)'
    BY DEF BatchInv, Distinct
  <1>1. First(b)' = FirstIn(actor'[b].batch) /\ First(b) = FirstIn(actor[b].batch)
    BY DEF First, FirstIn
  <1>2. CASE b = a
    <2>1. actor'[b] = x
      BY <1>2 DEF TypeOK
    <2>. QED
      BY <2>1, <1>1
  <1>3. CASE b # a
    <2>1. actor'[b] = actor[b]
      BY <1>3 DEF TypeOK
    <2>2. Distinct(actor[b].batch)
      BY DEF BatchInv, Distinct
    <2>3. actor[b].pc = "create" => \A r \in First(b) : r.item[1] = "create"
      BY DEF BatchInv
    <2>4. ASSUME actor[b].pc = "mark", NEW r \in First(b) PROVE Applied(r.item)'
      <3>1. Applied(r.item) /\ r.item \in Items
        BY <2>4, FirstType DEF BatchInv
      <3>. QED
        BY <3>1, AppliedStays
    <2>. QED
      BY <2>1, <2>2, <2>3, <2>4, <1>1
  <1>. QED
    BY <1>2, <1>3

LEMMA AfterKeeps ==
  ASSUME TypeOK, BatchInv, Grows, NEW a \in Actors,
         NEW batch \in SUBSET [item : Items, place : Nat], Distinct(batch),
         actor' = [actor EXCEPT ![a] = After(a, batch)]
  PROVE  BatchInv'
  <1>. DEFINE x == After(a, batch)
  <1>1. x.batch = batch /\ x.pc \in {"idle", "audits", "each"}
    BY AfterType
  <1>2. actor' = [actor EXCEPT ![a] = x]
    OBVIOUS
  <1>. HIDE DEF x
  <1>. QED
    BY <1>1, <1>2, BatchStays

LEMMA PcKeeps ==
  ASSUME TypeOK, BatchInv, Grows, NEW a \in Actors, NEW pc,
         actor' = [actor EXCEPT ![a].pc = pc],
         pc = "create" => \A r \in First(a) : r.item[1] = "create",
         pc = "mark" => \A r \in First(a) : Applied(r.item)'
  PROVE  BatchInv'
  <1>. DEFINE x == [actor[a] EXCEPT !.pc = pc]
  <1>1. x.batch = actor[a].batch /\ x.pc = pc /\ actor' = [actor EXCEPT ![a] = x]
    BY DEF TypeOK, Actor
  <1>2. FirstIn(x.batch) = First(a) /\ Distinct(x.batch)
    BY <1>1 DEF BatchInv, First, FirstIn, Distinct
  <1>. HIDE DEF x
  <1>. QED
    BY <1>1, <1>2, BatchStays

LEMMA SubBatch ==
  ASSUME TypeOK, BatchInv, NEW a \in Actors, NEW r
  PROVE  /\ actor[a].batch \ {r} \in SUBSET [item : Items, place : Nat]
         /\ Distinct(actor[a].batch \ {r})
  BY DEF BatchInv, Distinct, TypeOK, Actor

LEMMA StopKeeps ==
  ASSUME TypeOK, BatchInv, Grows, NEW a \in Actors, NEW x, x.batch = {},
         actor' = [actor EXCEPT ![a] = x]
  PROVE  BatchInv'
  <1>1. FirstIn(x.batch) = {} /\ Distinct(x.batch)
    BY DEF FirstIn, Distinct
  <1>. QED
    BY <1>1, BatchStays

LEMMA FlushBatchInv ==
  ASSUME TypeOK, BatchInv, Grows, NEW a \in Actors, Flush(a) \/ Fails(a)
  PROVE  BatchInv'
  <1>1. CASE StartFlush(a)
    <2>1. PICK pc \in {"effects", "audits"} : actor' = [actor EXCEPT ![a].pc = pc]
      BY <1>1 DEF StartFlush
    <2>. QED
      BY <2>1, PcKeeps
  <1>2. CASE ReadPending(a)
    <2>. DEFINE tbl == IF actor[a].pc = "effects" THEN Effects ELSE Audits
    <2>1. tbl \in Tables
      BY DEF Tables
    <2>2. Distinct(Pending(tbl)) /\ Pending(tbl) \in SUBSET [item : Items, place : Nat]
      BY <2>1, PendingFacts DEF Distinct
    <2>3. actor' = [actor EXCEPT ![a] = After(a, Pending(tbl))]
      BY <1>2 DEF ReadPending
    <2>. QED
      BY <2>2, <2>3, AfterKeeps
  <1>3. CASE LookUpReminder(a)
    <2>1. PICK t \in At(a, "each", "create") :
             actor' = [actor EXCEPT ![a].pc = IF reminder[t] = "absent" THEN "create" ELSE "mark"]
      BY <1>3 DEF LookUpReminder
    <2>2. PICK r \in First(a) : r.item = <<"create", t>>
      BY AtIs
    <2>3. t \in Tasks
      BY AtIs, ItemOf
    <2>4. \A s \in First(a) : s.item = <<"create", t>>
      BY <2>2, FirstUnique
    <2>5. CASE reminder[t] = "absent"
      <3>1. actor' = [actor EXCEPT ![a].pc = "create"]
        BY <2>1, <2>5
      <3>2. \A s \in First(a) : s.item[1] = "create"
        BY <2>4
      <3>. QED
        BY <3>1, <3>2, PcKeeps
    <2>6. CASE reminder[t] # "absent"
      <3>1. Applied(<<"create", t>>)'
        BY <2>3, <2>6 DEF Grows, Applied
      <3>. QED
        BY <2>1, <2>4, <2>6, <3>1, PcKeeps
    <2>. QED
      BY <2>5, <2>6
  <1>4. CASE SaveReminder(a)
    <2>1. PICK t \in At(a, "create", "create") : reminder' = [reminder EXCEPT ![t] = "active"]
      BY <1>4 DEF SaveReminder
    <2>2. PICK r \in First(a) : r.item = <<"create", t>>
      BY AtIs
    <2>3. t \in Tasks
      BY AtIs, ItemOf
    <2>4. \A s \in First(a) : s.item = <<"create", t>>
      BY <2>2, FirstUnique
    <2>5. Applied(<<"create", t>>)'
      BY <2>1, <2>3 DEF Applied, TypeOK
    <2>. QED
      BY <1>4, <2>4, <2>5, PcKeeps DEF SaveReminder
  <1>5. CASE CancelReminder(a)
    <2>1. PICK t \in At(a, "each", "cancel") : TRUE
      BY <1>5 DEF CancelReminder
    <2>2. PICK r \in First(a) : r.item = <<"cancel", t>>
      BY AtIs
    <2>3. \A s \in First(a) : s.item = <<"cancel", t>>
      BY <2>2, FirstUnique
    <2>4. Applied(<<"cancel", t>>)'
      BY DEF Applied
    <2>. QED
      BY <1>5, <2>3, <2>4, PcKeeps DEF CancelReminder
  <1>6. CASE AppendEvent(a)
    <2>1. PICK n \in At(a, "each", "audit") : ledger' = ledger \cup {n}
      BY <1>6 DEF AppendEvent
    <2>2. PICK r \in First(a) : r.item = <<"audit", n>>
      BY AtIs
    <2>3. \A s \in First(a) : s.item = <<"audit", n>>
      BY <2>2, FirstUnique
    <2>4. Applied(<<"audit", n>>)'
      BY <2>1 DEF Applied
    <2>. QED
      BY <1>6, <2>3, <2>4, PcKeeps DEF AppendEvent
  <1>7. CASE Mark(a)
    <2>1. PICK r \in First(a) : actor' = [actor EXCEPT ![a] = After(a, actor[a].batch \ {r})]
      BY <1>7 DEF Mark
    <2>. QED
      BY <2>1, SubBatch, AfterKeeps
  <1>8. CASE CancelRaises(a) \/ Fails(a)
    <2>1. PICK r \in First(a) : actor' = [actor EXCEPT ![a] = After(a, actor[a].batch \ {r})]
      BY <1>8 DEF CancelRaises, Fails, MarkFailed
    <2>. QED
      BY <2>1, SubBatch, AfterKeeps
  <1>. QED
    BY <1>1, <1>2, <1>3, <1>4, <1>5, <1>6, <1>7, <1>8 DEF Flush

LEMMA NextBatchInv ==
  ASSUME TypeOK, BatchInv, SaveInv, [Next]_vars
  PROVE  BatchInv'
  <1>1. Grows
    BY StepsGrow
  <1>2. ASSUME UNCHANGED actor PROVE BatchInv'
    <2>1. \A a \in Actors : First(a)' = First(a)
      BY <1>2 DEF First
    <2>2. \A a \in Actors : \A r \in First(a) : Applied(r.item) => Applied(r.item)'
      BY <1>1, FirstType, AppliedStays
    <2>. QED
      BY <1>2, <2>1, <2>2 DEF BatchInv
  <1>3. ASSUME NEW a \in Actors, NEW t \in Tasks, CreateTask(a, t) PROVE BatchInv'
    <2>. DEFINE x == [IdleActor EXCEPT !.pc = "effects", !.goOn = TRUE]
    <2>1. actor' = [actor EXCEPT ![a] = x]
      BY <1>3 DEF CreateTask, Commit
    <2>2. x.batch = {}
      BY DEF IdleActor
    <2>. HIDE DEF x
    <2>. QED
      BY <1>1, <2>1, <2>2, StopKeeps
  <1>4. ASSUME NEW a \in Actors, NEW t \in Tasks, ReadTask(a, t) PROVE BatchInv'
    <2>1. PICK target, transition :
             actor' = [actor EXCEPT ![a] = [IdleActor EXCEPT !.pc = "save", !.task = t,
                !.target = target, !.linked = task[t].linked, !.transition = transition]]
      BY <1>4 DEF ReadTask
    <2>. DEFINE x == [IdleActor EXCEPT !.pc = "save", !.task = t,
                !.target = target, !.linked = task[t].linked, !.transition = transition]
    <2>2. x.batch = {}
      BY DEF IdleActor
    <2>3. actor' = [actor EXCEPT ![a] = x]
      BY <2>1
    <2>. HIDE DEF x
    <2>. QED
      BY <1>1, <2>2, <2>3, StopKeeps
  <1>5. ASSUME NEW a \in Actors, SaveTask(a) PROVE BatchInv'
    <2>. DEFINE x == [IdleActor EXCEPT !.pc = "effects", !.goOn = TRUE]
    <2>1. actor' = [actor EXCEPT ![a] = x]
      BY <1>5 DEF SaveTask, Commit
    <2>2. x.batch = {}
      BY DEF IdleActor
    <2>. HIDE DEF x
    <2>. QED
      BY <1>1, <2>1, <2>2, StopKeeps
  <1>6. ASSUME NEW a \in Actors, Flush(a) \/ Fails(a) PROVE BatchInv'
    BY <1>1, <1>6, FlushBatchInv
  <1>7. ASSUME NEW a \in Actors, Crash(a) PROVE BatchInv'
    BY <1>1, <1>7, StopKeeps DEF Crash, IdleActor
  <1>. QED
    BY <1>2, <1>3, <1>4, <1>5, <1>6, <1>7 DEF Next, vars, Tick, Prune, EditReminder

LEMMA CreateTaskIs ==
  ASSUME TypeOK, NEW a \in Actors, NEW t \in Tasks, CreateTask(a, t)
  PROVE  /\ task[t].status = "absent" /\ actor[a].pc = "idle"
         /\ task'[t].status # "absent"
         /\ task'[t].linked =>
               /\ outbox'[<<"create", t>>].status # "none"
               /\ outbox[<<"create", t>>].status # "delivered" => Creating(t)'
         /\ \A u \in Tasks \ {t} : task'[u] = task[u]
         /\ \A u \in Tasks : outbox'[<<"cancel", u>>] = outbox[<<"cancel", u>>]
         /\ \A u \in Tasks \ {t} : outbox'[<<"create", u>>] = outbox[<<"create", u>>]
         /\ mutations' = mutations + 1 /\ mutations' \in 1..MaxMutations
         /\ outbox'[<<"audit", mutations'>>].status # "none"
         /\ actor'[a].pc = "effects" /\ actor'[a].batch = {}
         /\ \A b \in Actors \ {a} : actor'[b] = actor[b]
         /\ UNCHANGED <<clock, reminder, ledger, ended, spent>>
  <1>1. PICK linked \in BOOLEAN : Commit(a, t, NewTask(linked), Planned(t, linked))
    BY DEF CreateTask
  <1>2. /\ task' = [task EXCEPT ![t] = NewTask(linked)]
        /\ actor' = [actor EXCEPT ![a] = [IdleActor EXCEPT !.pc = "effects", !.goOn = TRUE]]
        /\ mutations' = mutations + 1 /\ mutations' \in 1..MaxMutations
        /\ outbox'[<<"audit", mutations'>>].status # "none"
    BY <1>1, CommitSteps
  <1>3. /\ task'[t].status # "absent" /\ task'[t].linked = linked
        /\ \A u \in Tasks \ {t} : task'[u] = task[u]
        /\ \A b \in Actors \ {a} : actor'[b] = actor[b]
        /\ actor'[a].pc = "effects" /\ actor'[a].batch = {}
    BY <1>2 DEF TypeOK, NewTask, IdleActor
  <1>4. \A i \in Items : i \notin Planned(t, linked) /\ i[1] # "audit" => outbox'[i] = outbox[i]
    BY <1>1, CommitSteps
  <1>5. /\ \A u \in Tasks : outbox'[<<"cancel", u>>] = outbox[<<"cancel", u>>]
        /\ \A u \in Tasks \ {t} : outbox'[<<"create", u>>] = outbox[<<"create", u>>]
    BY <1>4, ItemNames DEF Planned
  <1>6. \A i \in Planned(t, linked) \cap Items :
           outbox'[i].status # "none" /\ (outbox[i].status # "delivered" => Unfinished(i)')
    BY <1>1, CommitSteps
  <1>7. linked => /\ outbox'[<<"create", t>>].status # "none"
                  /\ outbox[<<"create", t>>].status # "delivered" => Creating(t)'
    BY <1>6, ItemNames DEF Planned, Creating
  <1>. QED
    BY <1>2, <1>3, <1>5, <1>7 DEF CreateTask

LEMMA SaveTaskIs ==
  ASSUME TypeOK, SaveInv, NEW a \in Actors, SaveTask(a)
  PROVE  /\ actor[a].task \in Tasks
         /\ Cancels(a) \subseteq {actor[a].task}
         /\ \A u \in Tasks : task'[u].linked = task[u].linked
         /\ \A u \in Tasks : task'[u].status = "absent" <=> task[u].status = "absent"
         /\ \A u \in Cancels(a) : task[u].status # "absent" /\ task[u].linked
         /\ \A u \in Cancels(a) : /\ outbox'[<<"cancel", u>>].status # "none"
                                  /\ outbox[<<"cancel", u>>].status # "delivered"
                                        => Cancelling(u)'
         /\ \A u \in Tasks \ Cancels(a) : outbox'[<<"cancel", u>>] = outbox[<<"cancel", u>>]
         /\ \A u \in Tasks : outbox'[<<"create", u>>] = outbox[<<"create", u>>]
         /\ mutations' = mutations + 1 /\ mutations' \in 1..MaxMutations
         /\ outbox'[<<"audit", mutations'>>].status # "none"
         /\ actor'[a].pc = "effects" /\ actor'[a].batch = {}
         /\ \A b \in Actors \ {a} : actor'[b] = actor[b]
         /\ ended' = ended \cup Cancels(a)
         /\ UNCHANGED <<clock, reminder, ledger>>
  <1>. DEFINE t == actor[a].task
              new == [status |-> actor[a].target, linked |-> actor[a].linked]
  <1>1. /\ t \in Tasks /\ actor[a].target \in Status /\ task[t].status # "absent"
        /\ task[t].linked = actor[a].linked
    BY DEF SaveTask, SaveInv
  <1>2. Commit(a, t, new, {"cancel"} \X Cancels(a))
    BY DEF SaveTask
  <1>3. /\ task' = [task EXCEPT ![t] = new]
        /\ actor' = [actor EXCEPT ![a] = [IdleActor EXCEPT !.pc = "effects", !.goOn = TRUE]]
        /\ mutations' = mutations + 1 /\ mutations' \in 1..MaxMutations
        /\ outbox'[<<"audit", mutations'>>].status # "none"
    BY <1>1, <1>2, CommitSteps
  <1>4. /\ \A b \in Actors \ {a} : actor'[b] = actor[b]
        /\ actor'[a].pc = "effects" /\ actor'[a].batch = {}
    BY <1>3 DEF TypeOK, IdleActor
  <1>5. /\ \A u \in Tasks : task'[u].linked = task[u].linked
        /\ \A u \in Tasks : task'[u].status = "absent" <=> task[u].status = "absent"
    BY <1>1, <1>3 DEF TypeOK, Status
  <1>6. Cancels(a) \subseteq {t} /\ \A u \in Cancels(a) : actor[a].linked
    BY DEF Cancels
  <1>7. \A i \in Items : i \notin ({"cancel"} \X Cancels(a)) /\ i[1] # "audit"
                            => outbox'[i] = outbox[i]
    BY <1>1, <1>2, CommitSteps
  <1>8. /\ \A u \in Tasks \ Cancels(a) : outbox'[<<"cancel", u>>] = outbox[<<"cancel", u>>]
        /\ \A u \in Tasks : outbox'[<<"create", u>>] = outbox[<<"create", u>>]
    BY <1>7, ItemNames
  <1>9. \A i \in ({"cancel"} \X Cancels(a)) \cap Items :
           outbox'[i].status # "none" /\ (outbox[i].status # "delivered" => Unfinished(i)')
    BY <1>1, <1>2, CommitSteps
  <1>10. \A u \in Cancels(a) : <<"cancel", u>> \in ({"cancel"} \X Cancels(a)) \cap Items
    BY <1>1, <1>6, ItemNames
  <1>11. \A u \in Cancels(a) : /\ outbox'[<<"cancel", u>>].status # "none"
                               /\ outbox[<<"cancel", u>>].status # "delivered" => Cancelling(u)'
    BY <1>9, <1>10 DEF Cancelling
  <1>. HIDE DEF new
  <1>. QED
    BY <1>1, <1>3, <1>4, <1>5, <1>6, <1>8, <1>11 DEF SaveTask

LEMMA NextSaveInv ==
  ASSUME TypeOK, SaveInv, [Next]_vars
  PROVE  SaveInv'
  <1>1. ASSUME NEW a \in Actors, NEW t \in Tasks, CreateTask(a, t) PROVE SaveInv'
    <2>1. \A b \in Actors : actor'[b].pc = "save" =>
             actor'[b] = actor[b] /\ actor[b].task # t
      BY <1>1, CreateTaskIs DEF SaveInv
    <2>. QED
      BY <1>1, <2>1, CreateTaskIs DEF SaveInv
  <1>2. ASSUME NEW a \in Actors, SaveTask(a) PROVE SaveInv'
    BY <1>2, SaveTaskIs DEF SaveInv
  <1>3. ASSUME UNCHANGED task, \A b \in Actors : actor'[b].pc = "save" => actor'[b] = actor[b]
        PROVE  SaveInv'
    BY <1>3 DEF SaveInv
  <1>4. ASSUME NEW a \in Actors, NEW t \in Tasks, ReadTask(a, t) PROVE SaveInv'
    <2>1. PICK target \in {task[t].status} \cup Transitions(task[t].status),
               transition \in BOOLEAN :
            actor' = [actor EXCEPT ![a] = [IdleActor EXCEPT !.pc = "save", !.task = t,
                !.target = target, !.linked = task[t].linked, !.transition = transition]]
      BY <1>4 DEF ReadTask
    <2>2. /\ actor'[a].task = t /\ actor'[a].target = target
          /\ actor'[a].linked = task[t].linked
          /\ \A b \in Actors \ {a} : actor'[b] = actor[b]
      BY <2>1 DEF TypeOK, IdleActor
    <2>3. task[t] \in Task /\ task[t].status # "absent" /\ UNCHANGED task
      BY <1>4 DEF ReadTask, TypeOK
    <2>4. target \in Status
      BY <2>3 DEF Task, Transitions, Status
    <2>. QED
      BY <2>2, <2>3, <2>4 DEF SaveInv
  <1>5. ASSUME NEW a \in Actors, Flush(a) \/ Fails(a) \/ Crash(a) PROVE SaveInv'
    <2>1. UNCHANGED task
      BY <1>5 DEF Flush, StartFlush, ReadPending, LookUpReminder, SaveReminder,
         CancelReminder, AppendEvent, Mark, CancelRaises, Fails, Crash
    <2>2. \A batch \in SUBSET [item : Items, place : Nat] : After(a, batch).pc # "save"
      BY AfterType
    <2>3. \A b \in Actors : actor'[b].pc = "save" => actor'[b] = actor[b]
      <3>1. CASE ReadPending(a)
        <4>1. Pending(IF actor[a].pc = "effects" THEN Effects ELSE Audits)
                 \in SUBSET [item : Items, place : Nat]
          BY PendingFacts DEF Tables
        <4>. QED
          BY <3>1, <4>1, <2>2 DEF ReadPending, TypeOK
      <3>2. CASE \E r : actor' = [actor EXCEPT ![a] = After(a, actor[a].batch \ {r})]
        BY <3>2, <2>2 DEF TypeOK, Actor
      <3>3. CASE \E pc : pc # "save" /\ actor' = [actor EXCEPT ![a].pc = pc]
        BY <3>3 DEF TypeOK, Actor
      <3>4. CASE Crash(a)
        BY <3>4 DEF Crash, IdleActor, TypeOK
      <3>. QED
        BY <1>5, <3>1, <3>2, <3>3, <3>4 DEF Flush, StartFlush, LookUpReminder, SaveReminder,
           CancelReminder, AppendEvent, Mark, CancelRaises, Fails, MarkFailed
    <2>. QED
      BY <1>3, <2>1, <2>3
  <1>. QED
    BY <1>1, <1>2, <1>3, <1>4, <1>5 DEF Next, vars, Tick, Prune, EditReminder

LEMMA NextItemInvs ==
  ASSUME FlowInv, [Next]_vars
  PROVE  DoneInv' /\ MadeInv'
  <1>. USE DEF FlowInv
  <1>1. Grows
    BY StepsGrow
  <1>2. clock <= clock' /\ clock \in Nat /\ clock' \in Nat
    <2>1. clock \in Nat
      BY LifeFlowAssumption DEF TypeOK
    <2>2. clock' = clock \/ clock' = clock + 1
      BY DEF Next, vars, Tick, CreateTask, ReadTask, SaveTask, Flush, StartFlush, ReadPending,
         LookUpReminder, SaveReminder, CancelReminder, AppendEvent, Mark, CancelRaises, Fails,
         Crash, Prune, EditReminder
    <2>. QED
      BY <2>1, <2>2
  <1>3. ASSUME NEW i \in Items
        PROVE  /\ outbox'[i].status = "delivered" => Applied(i)'
               /\ Unfinished(i)' => outbox'[i].made <= clock'
    <2>1. ItemStep(i)
      BY OutboxSteps
    <2>2. outbox[i] \in Entry
      BY DEF TypeOK
    <2>3. outbox'[i].status = "delivered" => Applied(i)
      BY <2>1 DEF ItemStep, Queued, MarkedOff, Pruned, NoEntry, DoneInv
    <2>4. Unfinished(i)' => outbox'[i].made <= clock
      BY <2>1, <1>2 DEF ItemStep, Queued, MarkedOff, Pruned, NoEntry, MadeInv, Unfinished
    <2>5. Unfinished(i)' => outbox'[i].made <= clock'
      <3>1. outbox'[i].made \in Nat
        BY NextTypeOK, LifeFlowAssumption DEF TypeOK, Entry
      <3>. QED
        BY <2>4, <3>1, <1>2
    <2>. QED
      BY <2>3, <2>5, <1>1, AppliedStays
  <1>. QED
    BY <1>3 DEF DoneInv, MadeInv

LEMMA CreatesAreKept ==
  ASSUME FlowInv, [Next]_vars, NEW t \in Tasks, reminder[t] # "absent" \/ Creating(t)
  PROVE  (reminder[t] # "absent" \/ Creating(t))'
  <1>1. Grows /\ ItemStep(<<"create", t>>) /\ <<"create", t>> \in Items
    BY StepsGrow, OutboxSteps, ItemNames DEF FlowInv
  <1>2. CASE reminder[t] # "absent"
    BY <1>1, <1>2 DEF Grows
  <1>3. CASE Creating(t) /\ reminder[t] = "absent"
    <2>1. ~Applied(<<"create", t>>)
      BY <1>3 DEF Applied
    <2>. QED
      BY <1>1, <1>3, <2>1 DEF ItemStep, Queued, MarkedOff, Pruned, Creating, Unfinished
  <1>. QED
    BY <1>2, <1>3

LEMMA NextLinkInv ==
  ASSUME FlowInv, [Next]_vars
  PROVE  LinkInv'
  <1>. USE DEF FlowInv
  <1>. SUFFICES ASSUME NEW u \in Tasks, task'[u].status # "absent", task'[u].linked
               PROVE  (reminder[u] # "absent" \/ Creating(u))'
    BY DEF LinkInv
  <1>1. CASE task[u].status # "absent" /\ task[u].linked
    BY <1>1, CreatesAreKept DEF LinkInv
  <1>2. CASE ~(task[u].status # "absent" /\ task[u].linked)
    <2>1. ~ UNCHANGED <<task, mutations, ended>>
      BY <1>2
    <2>2. ~ \E a \in Actors : SaveTask(a)
      BY <1>2, SaveTaskIs
    <2>3. PICK a \in Actors, t \in Tasks : CreateTask(a, t)
      BY <2>1, <2>2, TaskSteps
    <2>4. u = t
      BY <1>2, <2>3, CreateTaskIs
    <2>5. CASE outbox[<<"create", t>>].status # "delivered"
      BY <2>3, <2>4, <2>5, CreateTaskIs
    <2>6. CASE outbox[<<"create", t>>].status = "delivered"
      <3>1. reminder[t] # "absent"
        BY <2>6, ItemNames DEF DoneInv, Applied
      <3>. QED
        BY <3>1, <2>4, CreatesAreKept
    <2>. QED
      BY <2>5, <2>6
  <1>. QED
    BY <1>1, <1>2

LEMMA NextCancelInv ==
  ASSUME FlowInv, [Next]_vars
  PROVE  CancelInv'
  <1>. USE DEF FlowInv
  <1>. SUFFICES ASSUME NEW u \in Tasks
               PROVE  /\ outbox'[<<"cancel", u>>].status # "none" => u \in ended'
                      /\ u \in ended' => (task'[u].status # "absent" /\ task'[u].linked)
    BY DEF CancelInv
  <1>1. CASE UNCHANGED <<task, mutations, ended>>
    <2>1. ItemStep(<<"cancel", u>>)
      BY OutboxSteps, ItemNames
    <2>2. outbox[<<"cancel", u>>].status # "none" => u \in ended
      BY DEF CancelInv
    <2>3. ~ Queued(<<"cancel", u>>)
      <3>1. CASE UNCHANGED outbox
        BY <3>1 DEF Queued
      <3>2. ASSUME NEW a \in Actors, Mark(a) PROVE ~ Queued(<<"cancel", u>>)
        <4>1. PICK r \in First(a) :
                 /\ \A i \in Items \ {r.item} : outbox'[i] = outbox[i]
                 /\ outbox'[r.item].status = Delivered(outbox[r.item].status)
          BY <3>2, MarkSteps
        <4>2. ASSUME outbox[<<"cancel", u>>].status = "none"
              PROVE  outbox'[<<"cancel", u>>].status = "none"
          BY <4>1, <4>2, ItemNames DEF Delivered
        <4>. QED
          BY <4>2 DEF Queued
      <3>3. ASSUME NEW j \in Items, Prune(j) PROVE ~ Queued(<<"cancel", u>>)
        BY <3>3, ItemNames DEF Prune, Queued, NoEntry, TypeOK
      <3>4. mutations' # mutations + 1
        BY <1>1 DEF TypeOK
      <3>. QED
        <4>1. ASSUME NEW a \in Actors, NEW t \in Tasks PROVE ~ CreateTask(a, t)
          BY <1>1, <3>4, CreateTaskIs
        <4>2. ASSUME NEW a \in Actors PROVE ~ SaveTask(a)
          BY <1>1, <3>4, SaveTaskIs
        <4>. QED
          BY <3>1, <3>2, <3>3, <4>1, <4>2
          DEF Next, vars, Tick, ReadTask, Flush, StartFlush, ReadPending, LookUpReminder,
              SaveReminder, CancelReminder, AppendEvent, CancelRaises, MarkFailed, Fails,
              Crash, EditReminder
    <2>. QED
      BY <1>1, <2>1, <2>2, <2>3 DEF ItemStep, MarkedOff, Pruned, NoEntry, Unfinished, CancelInv
  <1>2. ASSUME NEW a \in Actors, NEW t \in Tasks, CreateTask(a, t)
        PROVE  /\ outbox'[<<"cancel", u>>].status # "none" => u \in ended'
               /\ u \in ended' => (task'[u].status # "absent" /\ task'[u].linked)
    <2>1. t \notin ended
      BY <1>2, CreateTaskIs DEF CancelInv
    <2>. QED
      BY <1>2, <2>1, CreateTaskIs DEF CancelInv
  <1>3. ASSUME NEW a \in Actors, SaveTask(a)
        PROVE  /\ outbox'[<<"cancel", u>>].status # "none" => u \in ended'
               /\ u \in ended' => (task'[u].status # "absent" /\ task'[u].linked)
    BY <1>3, SaveTaskIs DEF CancelInv
  <1>. QED
    BY <1>1, <1>2, <1>3, TaskSteps

LEMMA NextAuditInv ==
  ASSUME FlowInv, [Next]_vars
  PROVE  AuditIsKept'
  <1>. USE DEF FlowInv
  <1>1. DoneInv' /\ TypeOK' /\ Grows
    BY NextItemInvs, NextTypeOK, StepsGrow
  <1>2. mutations \in Nat /\ mutations <= MaxMutations
    BY LifeFlowAssumption DEF TypeOK
  <1>3. ASSUME NEW n \in 1..mutations PROVE (n \in ledger \/ Unfinished(<<"audit", n>>))'
    <2>1. n \in 1..MaxMutations /\ <<"audit", n>> \in Items
      BY <1>2, ItemNames, LifeFlowAssumption
    <2>2. ItemStep(<<"audit", n>>)
      BY <2>1, OutboxSteps
    <2>3. CASE n \in ledger
      BY <2>3, <1>1 DEF Grows
    <2>4. CASE n \notin ledger
      <3>1. Unfinished(<<"audit", n>>)
        BY <2>4 DEF AuditIsKept
      <3>2. ~ Applied(<<"audit", n>>)
        BY <2>4 DEF Applied
      <3>. QED
        BY <2>2, <3>1, <3>2 DEF ItemStep, Queued, MarkedOff, Pruned, Unfinished
    <2>. QED
      BY <2>3, <2>4
  <1>4. ASSUME mutations' = mutations + 1, mutations' \in 1..MaxMutations,
               outbox'[<<"audit", mutations'>>].status # "none"
        PROVE  (mutations \in ledger \/ Unfinished(<<"audit", mutations>>))'
    <2>1. <<"audit", mutations'>> \in Items
      BY <1>4, ItemNames
    <2>2. outbox'[<<"audit", mutations'>>].status \in {"pending", "delivered"}
      BY <1>1, <1>4, <2>1 DEF TypeOK, Entry
    <2>3. outbox'[<<"audit", mutations'>>].status = "delivered" => mutations' \in ledger'
      BY <1>1, <2>1 DEF DoneInv, Applied
    <2>. QED
      BY <2>2, <2>3 DEF Unfinished
  <1>5. \/ mutations' = mutations
        \/ /\ mutations' = mutations + 1 /\ mutations' \in 1..MaxMutations
           /\ outbox'[<<"audit", mutations'>>].status # "none"
    BY TaskSteps, CreateTaskIs, SaveTaskIs
  <1>6. CASE mutations' = mutations
    BY <1>3, <1>6 DEF AuditIsKept
  <1>7. CASE mutations' = mutations + 1
    <2>1. (mutations \in ledger \/ Unfinished(<<"audit", mutations>>))'
      BY <1>2, <1>4, <1>5, <1>7
    <2>2. \A n \in 1..mutations' : n \in 1..mutations \/ n = mutations'
      BY <1>2, <1>7
    <2>. QED
      BY <1>3, <2>1, <2>2 DEF AuditIsKept
  <1>. QED
    BY <1>5, <1>6, <1>7

LEMMA InitFlowInv == Init => FlowInv
  <1>. SUFFICES ASSUME Init PROVE FlowInv
    OBVIOUS
  <1>1. TypeOK
    BY InitTypeOK
  <1>2. BatchInv /\ SaveInv
    BY DEF Init, IdleActor, BatchInv, Distinct, SaveInv, First
  <1>3. DoneInv /\ MadeInv
    BY DEF Init, NoEntry, DoneInv, MadeInv, Unfinished
  <1>4. LinkInv /\ CancelInv
    BY ItemNames DEF Init, NoTask, NoEntry, LinkInv, CancelInv
  <1>5. AuditIsKept
    BY DEF Init, AuditIsKept
  <1>. QED
    BY <1>1, <1>2, <1>3, <1>4, <1>5 DEF FlowInv

LEMMA NextFlowInv == ASSUME FlowInv, [Next]_vars PROVE FlowInv'
  <1>1. TypeOK' /\ BatchInv' /\ SaveInv'
    BY NextTypeOK, NextBatchInv, NextSaveInv DEF FlowInv
  <1>. QED
    BY <1>1, NextItemInvs, NextLinkInv, NextCancelInv, NextAuditInv DEF FlowInv

THEOREM FlowInvariance == Spec => []FlowInv
  <1>. QED
    BY InitFlowInv, NextFlowInv, PTL DEF Spec

(* Every variable of the life flow's tasks, outboxes and flushes has its   *)
(* type.                                                                   *)
THEOREM TypeCorrect == Spec => []TypeOK
  <1>1. FlowInv => TypeOK
    BY DEF FlowInv
  <1>. QED
    BY <1>1, FlowInvariance, PTL

(* No committed mutation goes unrecorded: its audit event is in the ledger *)
(* or waits in the outbox, however many flushes overlap, fail or die.      *)
THEOREM AuditKept == Spec => []AuditIsKept
  <1>1. FlowInv => AuditIsKept
    BY DEF FlowInv
  <1>. QED
    BY <1>1, FlowInvariance, PTL

(* A linked task that is not ended has its reminder once its effects are   *)
(* delivered.                                                              *)
THEOREM OpenTasksHaveReminders == Spec => []OpenTaskHasReminder
  <1>1. FlowInv => OpenTaskHasReminder
    BY DEF FlowInv, LinkInv, OpenTaskHasReminder, AtRest, Creating
  <1>. QED
    BY <1>1, FlowInvariance, PTL
-----------------------------------------------------------------------------
(* QuietInv is inductive: ended tasks fall silent *)

LEMMA OrderlyStays ==
  ASSUME TypeOK, [Next]_vars, Orderly'
  PROVE  /\ Orderly
         /\ \A a \in Actors : ~ Fails(a)
         /\ \A a \in Actors : SaveTask(a) => ~ SameSecond(Cancels(a))
         /\ \A a \in Actors : ReadPending(a) => ~ Overlaps(a)
  <1>. USE DEF Orderly
  <1>1. spent \in [failures : Nat, crashes : Nat, edits : Nat, races : 0..1]
    BY DEF TypeOK
  <1>2. \A a \in Actors : ~ Fails(a)
    <2>1. \A a \in Actors : Fails(a) => spent'.failures = spent.failures + 1
      BY <1>1 DEF Fails
    <2>. QED
      BY <1>1, <2>1
  <1>3. ASSUME NEW a \in Actors, SaveTask(a) PROVE ~ SameSecond(Cancels(a)) /\ Orderly
    <2>1. /\ spent'.races = IF SameSecond(Cancels(a)) THEN 1 ELSE spent.races
          /\ spent'.failures = spent.failures
      BY <1>1, <1>3 DEF SaveTask
    <2>. QED
      BY <2>1
  <1>4. ASSUME NEW a \in Actors, ReadPending(a) PROVE ~ Overlaps(a) /\ Orderly
    <2>1. /\ spent'.races = IF Overlaps(a) THEN 1 ELSE spent.races
          /\ spent'.failures = spent.failures
      BY <1>1, <1>4 DEF ReadPending
    <2>. QED
      BY <2>1
  <1>5. ASSUME NEW a \in Actors, Crash(a) PROVE Orderly
    BY <1>1, <1>5 DEF Crash
  <1>6. ASSUME NEW t \in Tasks, EditReminder(t) PROVE Orderly
    BY <1>1, <1>6 DEF EditReminder
  <1>7. ASSUME UNCHANGED spent PROVE Orderly
    BY <1>7
  <1>8. Orderly
    BY <1>2, <1>3, <1>4, <1>5, <1>6, <1>7
    DEF Next, vars, Tick, CreateTask, ReadTask, Flush, StartFlush, LookUpReminder,
        SaveReminder, CancelReminder, AppendEvent, Mark, CancelRaises, Prune
  <1>. QED
    BY <1>2, <1>3, <1>4, <1>8

(* Steps that read no batch: pending items stay, and no create appears     *)
(* before a cancel.                                                        *)
LEMMA BatchesStayQuiet ==
  ASSUME TypeOK, Quiet,
         \A b \in Actors : actor'[b].batch \in {actor[b].batch, {}},
         \A i \in Effects : Unfinished(i) => Unfinished(i)',
         \A t \in Tasks : Creating(t)' /\ Cancelling(t) => Creating(t)
  PROVE  OneFlushes' /\ HeldPending' /\ CreatesFirst'
  <1>1. OneFlushes'
    BY DEF Quiet, OneFlushes, HasEffects
  <1>2. HeldPending'
    BY DEF Quiet, HeldPending
  <1>3. CreatesFirst'
    <2>. SUFFICES ASSUME NEW b \in Actors, NEW r \in actor'[b].batch, NEW t \in Tasks,
                        r.item = <<"cancel", t>>, Creating(t)'
                 PROVE  \E s \in actor'[b].batch : s.item = <<"create", t>> /\ s.place < r.place
      BY DEF CreatesFirst
    <2>1. actor'[b].batch = actor[b].batch /\ r \in actor[b].batch
      OBVIOUS
    <2>2. Cancelling(t)
      BY <2>1, ItemNames DEF Quiet, HeldPending, Cancelling
    <2>. QED
      BY <2>1, <2>2 DEF Quiet, CreatesFirst
  <1>. QED
    BY <1>1, <1>2, <1>3

LEMMA CancelsStayLater ==
  ASSUME Quiet, \A i \in Effects : Unfinished(i)' => Unfinished(i) /\ outbox'[i] = outbox[i]
  PROVE  CancelsLater'
  <1>. SUFFICES ASSUME NEW t \in Tasks, Creating(t)', Cancelling(t)'
               PROVE  outbox'[<<"create", t>>].made < outbox'[<<"cancel", t>>].made
    BY DEF CancelsLater
  <1>1. /\ Creating(t) /\ outbox'[<<"create", t>>] = outbox[<<"create", t>>]
        /\ Cancelling(t) /\ outbox'[<<"cancel", t>>] = outbox[<<"cancel", t>>]
    BY ItemNames DEF Creating, Cancelling
  <1>. QED
    BY <1>1 DEF Quiet, CancelsLater

(* Steps that touch no reminder and leave nobody about to create or mark.  *)
LEMMA LookedUpStays ==
  ASSUME TypeOK, Quiet, UNCHANGED reminder,
         \A b \in Actors : actor'[b] = actor[b] \/ actor'[b].pc \notin {"create", "mark"}
  PROVE  LookedUp' /\ Silenced'
  <1>1. \A b \in Actors : actor'[b] = actor[b] => First(b)' = First(b)
    BY DEF First
  <1>. QED
    BY <1>1 DEF Quiet, LookedUp, Silenced, Over

LEMMA EndedStaysOver ==
  ASSUME Quiet, UNCHANGED ended,
         \A t \in ended : Over(t) => Over(t)',
         \A t \in ended : Cancelling(t) => Cancelling(t)' \/ Over(t)'
  PROVE  EndedOver'
  BY DEF Quiet, EndedOver

(* The actor that has an effect in its hands is the only one.              *)
LEMMA OnlyHolder ==
  ASSUME TypeOK, Quiet, NEW a \in Actors, NEW b \in Actors, NEW r \in First(a), NEW s \in First(b),
         r.item \in Effects, s.item \in Effects
  PROVE  a = b
  BY FirstType DEF Quiet, OneFlushes, HasEffects

LEMMA QuietSaveTask ==
  ASSUME FlowInv, Quiet, NEW a \in Actors, SaveTask(a), ~ SameSecond(Cancels(a))
  PROVE  Quiet'
  <1>. USE DEF FlowInv
  <1>1. \A i \in Items : ItemStep(i)
    BY CommitSteps DEF SaveTask, SaveInv
  <1>2. \A t \in Tasks : outbox'[<<"create", t>>] = outbox[<<"create", t>>]
    BY SaveTaskIs
  <1>3. \A t \in Tasks : Cancelling(t) => outbox'[<<"cancel", t>>] = outbox[<<"cancel", t>>]
    <2>1. ASSUME NEW t \in Tasks, Cancelling(t), t \in Cancels(a)
          PROVE  outbox'[<<"cancel", t>>] = outbox[<<"cancel", t>>]
      <3>1. Cancelling(t)'
        BY <2>1, SaveTaskIs DEF Cancelling, Unfinished
      <3>. QED
        BY <1>1, <2>1, <3>1, ItemNames
        DEF ItemStep, Queued, MarkedOff, Pruned, Cancelling, Unfinished, NoEntry
    <2>. QED
      BY <2>1, SaveTaskIs
  <1>4. \A i \in Effects : Unfinished(i) => Unfinished(i)'
    BY <1>2, <1>3 DEF Effects, Unfinished, Cancelling
  <1>5. OneFlushes' /\ HeldPending' /\ CreatesFirst'
    BY <1>2, <1>4, SaveTaskIs, BatchesStayQuiet DEF Creating, Unfinished
  <1>6. LookedUp' /\ Silenced'
    BY SaveTaskIs, LookedUpStays
  <1>7. CancelsLater'
    <2>. SUFFICES ASSUME NEW t \in Tasks, Creating(t)', Cancelling(t)'
                 PROVE  outbox'[<<"create", t>>].made < outbox'[<<"cancel", t>>].made
      BY DEF CancelsLater
    <2>1. Creating(t) /\ outbox'[<<"create", t>>] = outbox[<<"create", t>>]
      BY <1>2 DEF Creating, Unfinished
    <2>2. CASE Cancelling(t)
      BY <2>1, <2>2, <1>3 DEF Quiet, CancelsLater
    <2>3. CASE ~ Cancelling(t)
      <3>1. outbox'[<<"cancel", t>>] # outbox[<<"cancel", t>>]
        BY <2>3 DEF Cancelling, Unfinished
      <3>2. t \in Cancels(a)
        BY <3>1, SaveTaskIs
      <3>3. Queued(<<"cancel", t>>)
        <4>1. ItemStep(<<"cancel", t>>)
          BY <1>1, ItemNames
        <4>2. outbox'[<<"cancel", t>>].status = "pending"
          BY DEF Cancelling, Unfinished
        <4>3. ~ MarkedOff(<<"cancel", t>>) /\ ~ Pruned(<<"cancel", t>>)
          BY <4>2 DEF MarkedOff, Pruned, NoEntry
        <4>. QED
          BY <3>1, <4>1, <4>3 DEF ItemStep
      <3>4. outbox'[<<"cancel", t>>].made = clock
        BY <3>3 DEF Queued
      <3>5. /\ outbox[<<"create", t>>] \in Entry
            /\ outbox[<<"create", t>>] # [status |-> "pending", made |-> clock]
        BY <3>2, ItemNames DEF SameSecond, TypeOK
      <3>6. outbox[<<"create", t>>].made # clock
        <4>1. outbox[<<"create", t>>].status = "pending"
          BY <2>1 DEF Creating, Unfinished
        <4>. QED
          BY <3>5, <4>1 DEF Entry
      <3>7. outbox[<<"create", t>>].made <= clock
        BY <2>1, ItemNames DEF MadeInv, Creating
      <3>8. outbox[<<"create", t>>].made \in Nat /\ clock \in Nat
        BY <3>5, LifeFlowAssumption DEF Entry, TypeOK
      <3>. QED
        BY <2>1, <3>4, <3>6, <3>7, <3>8
    <2>. QED
      BY <2>2, <2>3
  <1>8. EndedOver'
    <2>. SUFFICES ASSUME NEW t \in ended' PROVE Cancelling(t)' \/ Over(t)'
      BY DEF EndedOver
    <2>1. \A u : Over(u)' <=> Over(u)
      BY SaveTaskIs DEF Over
    <2>2. CASE t \in ended
      <3>1. t \in Tasks
        BY <2>2 DEF TypeOK
      <3>. QED
        BY <2>1, <2>2, <3>1, <1>3 DEF Quiet, EndedOver, Cancelling, Unfinished
    <2>3. CASE t \in Cancels(a)
      <3>1. t \in Tasks
        BY <2>3, SaveTaskIs
      <3>2. CASE outbox[<<"cancel", t>>].status # "delivered"
        BY <2>3, <3>2, SaveTaskIs
      <3>3. CASE outbox[<<"cancel", t>>].status = "delivered"
        <4>1. t \in ended
          BY <3>1, <3>3 DEF CancelInv
        <4>. QED
          BY <2>2, <4>1
      <3>. QED
        BY <3>2, <3>3
    <2>. QED
      BY <2>2, <2>3, SaveTaskIs
  <1>. QED
    BY <1>5, <1>6, <1>7, <1>8 DEF Quiet

LEMMA QuietCreateTask ==
  ASSUME FlowInv, Quiet, NEW a \in Actors, NEW u \in Tasks, CreateTask(a, u)
  PROVE  Quiet'
  <1>. USE DEF FlowInv
  <1>1. u \notin ended /\ ~ Cancelling(u)
    BY CreateTaskIs DEF CancelInv, Cancelling, Unfinished
  <1>2. \A t \in Tasks : outbox'[<<"cancel", t>>] = outbox[<<"cancel", t>>]
    BY CreateTaskIs
  <1>3. \A t \in Tasks \ {u} : outbox'[<<"create", t>>] = outbox[<<"create", t>>]
    BY CreateTaskIs
  <1>4. Creating(u) => Creating(u)'
    <2>1. ItemStep(<<"create", u>>)
      BY CommitSteps, ItemNames DEF CreateTask
    <2>2. ASSUME Creating(u), ~ Creating(u)' PROVE FALSE
      <3>1. MarkedOff(<<"create", u>>)
        BY <2>1, <2>2 DEF ItemStep, Queued, Pruned, Creating, Unfinished
      <3>2. PICK linked \in BOOLEAN : Commit(a, u, NewTask(linked), Planned(u, linked))
        BY DEF CreateTask
      <3>3. CASE linked
        BY <2>2, <3>2, <3>3, CommitSteps, ItemNames DEF Planned, Creating, Unfinished
      <3>4. CASE ~ linked
        BY <2>2, <3>2, <3>4, CommitSteps, ItemNames DEF Planned, Creating, Unfinished
      <3>. QED
        BY <3>3, <3>4
    <2>. QED
      BY <2>2
  <1>5. \A i \in Effects : Unfinished(i) => Unfinished(i)'
    BY <1>2, <1>3, <1>4 DEF Effects, Unfinished, Creating
  <1>6. \A t \in Tasks : Creating(t)' /\ Cancelling(t) => Creating(t)
    BY <1>1, <1>3 DEF Creating, Unfinished
  <1>7. OneFlushes' /\ HeldPending' /\ CreatesFirst'
    BY <1>5, <1>6, CreateTaskIs, BatchesStayQuiet
  <1>8. LookedUp' /\ Silenced'
    BY CreateTaskIs, LookedUpStays
  <1>9. CancelsLater'
    <2>1. \A t \in Tasks : Creating(t)' /\ Cancelling(t)' =>
             /\ Creating(t) /\ Cancelling(t)
             /\ outbox'[<<"create", t>>] = outbox[<<"create", t>>]
             /\ outbox'[<<"cancel", t>>] = outbox[<<"cancel", t>>]
      BY <1>1, <1>2, <1>3 DEF Creating, Cancelling, Unfinished
    <2>. QED
      BY <2>1 DEF Quiet, CancelsLater
  <1>10. EndedOver'
    <2>1. \A t \in ended : t \in Tasks
      BY DEF TypeOK
    <2>. QED
      BY <1>2, <2>1, CreateTaskIs, EndedStaysOver DEF Over, Cancelling, Unfinished
  <1>. QED
    BY <1>7, <1>8, <1>9, <1>10 DEF Quiet

LEMMA QuietReadPending ==
  ASSUME FlowInv, Quiet, NEW a \in Actors, ReadPending(a), ~ Overlaps(a)
  PROVE  Quiet'
  <1>. USE DEF FlowInv
  <1>. DEFINE tbl == IF actor[a].pc = "effects" THEN Effects ELSE Audits
  <1>1. tbl \in Tables
    BY DEF Tables
  <1>2. Pending(tbl) \in SUBSET [item : Items, place : Nat]
    BY <1>1, PendingFacts
  <1>3. actor' = [actor EXCEPT ![a] = After(a, Pending(tbl))]
    BY DEF ReadPending
  <1>4. /\ actor'[a].batch = Pending(tbl) /\ actor'[a].pc \notin {"create", "mark"}
        /\ \A b \in Actors \ {a} : actor'[b] = actor[b]
    BY <1>2, <1>3, AfterType DEF TypeOK
  <1>5. UNCHANGED <<outbox, reminder, ended>>
    BY DEF ReadPending
  <1>6. tbl = Effects => \A b \in Actors \ {a} : ~ HasEffects(b)
    BY ItemNames DEF Overlaps, HasEffects, ReadPending
  <1>7. \A r \in Pending(tbl) : r.item \in tbl /\ Unfinished(r.item)
    BY <1>1, PendingFacts
  <1>. HIDE DEF tbl
  <1>8. tbl = Effects \/ (tbl = Audits /\ tbl # Effects)
    BY <1>1 DEF Tables
  <1>9. OneFlushes'
    <2>1. CASE tbl = Effects
      <3>1. \A b \in Actors \ {a} : ~ HasEffects(b)'
        BY <1>4, <1>6, <2>1 DEF HasEffects
      <3>. QED
        BY <3>1 DEF OneFlushes
    <2>2. CASE tbl = Audits
      <3>1. ~ HasEffects(a)'
        BY <1>4, <1>7, <2>2, ItemNames DEF HasEffects
      <3>2. \A b \in Actors \ {a} : HasEffects(b)' => HasEffects(b)
        BY <1>4 DEF HasEffects
      <3>. QED
        BY <3>1, <3>2 DEF Quiet, OneFlushes
    <2>. QED
      BY <1>8, <2>1, <2>2
  <1>10. HeldPending'
    BY <1>4, <1>5, <1>7 DEF Quiet, HeldPending, Unfinished
  <1>11. CreatesFirst'
    <2>. SUFFICES ASSUME NEW b \in Actors, NEW r \in actor'[b].batch, NEW t \in Tasks,
                        r.item = <<"cancel", t>>, Creating(t)
                 PROVE  \E s \in actor'[b].batch : s.item = <<"create", t>> /\ s.place < r.place
      BY <1>5 DEF CreatesFirst, Creating, Unfinished
    <2>1. CASE b # a
      BY <1>4, <2>1 DEF Quiet, CreatesFirst
    <2>2. CASE b = a
      <3>1. r \in Pending(tbl) /\ Cancelling(t) /\ <<"cancel", t>> \in tbl
        BY <1>4, <1>7, <2>2 DEF Cancelling
      <3>2. tbl = Effects
        BY <3>1, <1>8, ItemNames
      <3>3. Before(<<"create", t>>, r.item)
        BY <3>1 DEF Quiet, CancelsLater, Before
      <3>. QED
        BY <1>1, <1>4, <2>2, <3>1, <3>2, <3>3, ItemNames, PendingFacts DEF Creating
    <2>. QED
      BY <2>1, <2>2
  <1>12. CancelsLater'
    BY <1>5, CancelsStayLater DEF Unfinished
  <1>13. LookedUp' /\ Silenced'
    BY <1>4, <1>5, LookedUpStays
  <1>14. EndedOver'
    BY <1>5, EndedStaysOver DEF Over, Cancelling, Unfinished
  <1>. QED
    BY <1>9, <1>10, <1>11, <1>12, <1>13, <1>14 DEF Quiet

(* Steps that change one actor's program counter.                          *)
LEMMA PcSteps ==
  ASSUME TypeOK, NEW a \in Actors, NEW pc, actor' = [actor EXCEPT ![a].pc = pc]
  PROVE  /\ \A b \in Actors : actor'[b].batch = actor[b].batch /\ First(b)' = First(b)
         /\ \A b \in Actors \ {a} : actor'[b] = actor[b]
         /\ actor'[a].pc = pc
  <1>1. actor'[a] = [actor[a] EXCEPT !.pc = pc]
    BY DEF TypeOK
  <1>2. actor'[a].pc = pc /\ actor'[a].batch = actor[a].batch
    BY <1>1 DEF TypeOK, Actor
  <1>3. \A b \in Actors \ {a} : actor'[b] = actor[b]
    BY DEF TypeOK
  <1>. QED
    BY <1>2, <1>3 DEF First

LEMMA QuietStill ==
  ASSUME FlowInv, Quiet, UNCHANGED <<outbox, reminder, ended>>,
         \A b \in Actors : actor'[b].batch \in {actor[b].batch, {}},
         \A b \in Actors : actor'[b] = actor[b] \/ actor'[b].pc \notin {"create", "mark"}
  PROVE  Quiet'
  <1>1. OneFlushes' /\ HeldPending' /\ CreatesFirst'
    BY BatchesStayQuiet DEF FlowInv, Unfinished, Creating
  <1>2. CancelsLater'
    BY CancelsStayLater DEF Unfinished
  <1>3. LookedUp' /\ Silenced'
    BY LookedUpStays DEF FlowInv
  <1>4. EndedOver'
    BY EndedStaysOver DEF Over, Cancelling, Unfinished
  <1>. QED
    BY <1>1, <1>2, <1>3, <1>4 DEF Quiet

LEMMA QuietLookUp ==
  ASSUME FlowInv, Quiet, NEW a \in Actors, LookUpReminder(a)
  PROVE  Quiet'
  <1>. USE DEF FlowInv
  <1>1. PICK t \in At(a, "each", "create") :
           actor' = [actor EXCEPT ![a].pc = IF reminder[t] = "absent" THEN "create" ELSE "mark"]
    BY DEF LookUpReminder
  <1>2. PICK r \in First(a) : r.item = <<"create", t>>
    BY AtIs
  <1>3. \A s \in First(a) : s.item[1] = "create" /\ s.item[2] = t
    BY <1>2, FirstUnique
  <1>4. UNCHANGED <<outbox, reminder, ended>>
    BY DEF LookUpReminder
  <1>5. /\ \A b \in Actors : actor'[b].batch = actor[b].batch /\ First(b)' = First(b)
        /\ \A b \in Actors \ {a} : actor'[b] = actor[b]
        /\ actor'[a].pc = IF reminder[t] = "absent" THEN "create" ELSE "mark"
    BY <1>1, PcSteps
  <1>6. OneFlushes' /\ HeldPending' /\ CreatesFirst'
    BY <1>4, <1>5, BatchesStayQuiet DEF Unfinished, Creating
  <1>7. CancelsLater'
    BY <1>4, CancelsStayLater DEF Unfinished
  <1>8. LookedUp'
    BY <1>3, <1>4, <1>5 DEF Quiet, LookedUp
  <1>9. Silenced'
    BY <1>3, <1>4, <1>5 DEF Quiet, Silenced, Over
  <1>10. EndedOver'
    BY <1>4, EndedStaysOver DEF Over, Cancelling, Unfinished
  <1>. QED
    BY <1>6, <1>7, <1>8, <1>9, <1>10 DEF Quiet

(* SaveReminder, CancelReminder and AppendEvent: the first item of a batch *)
(* is applied, and it is marked next.                                      *)
LEMMA QuietApply ==
  ASSUME FlowInv, Quiet, NEW a \in Actors,
         SaveReminder(a) \/ CancelReminder(a) \/ AppendEvent(a)
  PROVE  Quiet'
  <1>. USE DEF FlowInv
  <1>1. /\ actor' = [actor EXCEPT ![a].pc = "mark"] /\ UNCHANGED <<outbox, ended>>
    BY DEF SaveReminder, CancelReminder, AppendEvent
  <1>2. /\ \A b \in Actors : actor'[b].batch = actor[b].batch /\ First(b)' = First(b)
        /\ \A b \in Actors \ {a} : actor'[b] = actor[b]
        /\ actor'[a].pc = "mark"
    BY <1>1, PcSteps
  <1>3. OneFlushes' /\ HeldPending' /\ CreatesFirst'
    BY <1>1, <1>2, BatchesStayQuiet DEF Unfinished, Creating
  <1>4. CancelsLater'
    BY <1>1, CancelsStayLater DEF Unfinished
  <1>5. \A t : Cancelling(t)' <=> Cancelling(t)
    BY <1>1 DEF Cancelling, Unfinished
  <1>6. ASSUME NEW b \in Actors \ {a}, actor[b].pc = "create", NEW r \in First(b)
        PROVE  r.item \in Effects
    <2>1. r.item \in Items /\ r.item[1] = "create"
      BY <1>6, FirstType DEF BatchInv
    <2>. QED
      BY <2>1, ItemParts DEF Items
  <1>7. ASSUME NEW b \in Actors \ {a}, NEW r \in First(b), r.item[1] = "cancel"
        PROVE  r.item \in Effects
    BY <1>7, FirstType, ItemParts DEF Items
  <1>8. CASE SaveReminder(a)
    <2>1. PICK t \in At(a, "create", "create") : reminder' = [reminder EXCEPT ![t] = "active"]
      BY <1>8 DEF SaveReminder
    <2>2. PICK r \in First(a) : r.item = <<"create", t>> /\ actor[a].pc = "create"
      BY AtIs
    <2>3. t \in Tasks /\ r.item \in Effects
      BY <2>2, AtIs, ItemOf, ItemNames
    <2>4. \A s \in First(a) : s.item[1] = "create"
      BY <2>2, FirstUnique
    <2>5. reminder[t] = "absent"
      <3>1. reminder[r.item[2]] = "absent"
        BY <2>2 DEF Quiet, LookedUp
      <3>. QED
        BY <2>2, <3>1
    <2>6. \A b \in Actors \ {a} : \A s \in First(b) : s.item \notin Effects
      BY <2>3, OnlyHolder
    <2>7. LookedUp'
      BY <1>2, <1>6, <2>6 DEF LookedUp
    <2>8. Silenced'
      BY <1>2, <1>7, <2>4, <2>6 DEF Silenced
    <2>9. EndedOver'
      <3>1. \A u \in Tasks : Over(u) => Over(u)'
        BY <2>1, <2>3, <2>5 DEF Over, TypeOK
      <3>2. ended \subseteq Tasks
        BY DEF TypeOK
      <3>. QED
        BY <1>1, <1>5, <3>1, <3>2, EndedStaysOver
    <2>. QED
      BY <1>3, <1>4, <2>7, <2>8, <2>9 DEF Quiet
  <1>9. CASE CancelReminder(a)
    <2>1. PICK t \in At(a, "each", "cancel") :
             /\ reminder[t] # "completed"
             /\ reminder' = [reminder EXCEPT ![t] = IF @ = "absent" THEN @ ELSE "cancelled"]
      BY <1>9 DEF CancelReminder
    <2>2. PICK r \in First(a) : r.item = <<"cancel", t>>
      BY AtIs
    <2>3. t \in Tasks /\ r.item \in Effects
      BY <2>2, AtIs, ItemOf, ItemNames
    <2>4. \A s \in First(a) : s.item = <<"cancel", t>>
      BY <2>2, FirstUnique
    <2>5. Cancelling(t) /\ r \in actor[a].batch
      BY <2>2, <2>3, FirstType DEF Quiet, HeldPending, Cancelling
    <2>6. ~ Creating(t)
      <3>1. ASSUME Creating(t) PROVE FALSE
        <4>1. PICK s \in actor[a].batch : s.item = <<"create", t>> /\ s.place < r.place
          BY <2>2, <2>3, <2>5, <3>1 DEF Quiet, CreatesFirst
        <4>2. r.place <= s.place
          BY <2>2 DEF First
        <4>3. r.place \in Nat /\ s.place \in Nat
          BY <2>5 DEF TypeOK, Actor
        <4>. QED
          BY <4>1, <4>2, <4>3
      <3>. QED
        BY <3>1
    <2>7. reminder[t] # "absent"
      <3>1. t \in ended
        BY <2>3, <2>5 DEF CancelInv, Cancelling, Unfinished
      <3>. QED
        BY <2>3, <2>6, <3>1 DEF CancelInv, LinkInv
    <2>8. reminder' = [reminder EXCEPT ![t] = "cancelled"]
      BY <2>1, <2>7
    <2>9. Over(t)' /\ \A u \in Tasks : Over(u) => Over(u)'
      BY <2>3, <2>8 DEF Over, TypeOK
    <2>10. \A b \in Actors \ {a} : \A s \in First(b) : s.item \notin Effects
      BY <2>2, <2>3, OnlyHolder
    <2>11. LookedUp'
      BY <1>2, <1>6, <2>10 DEF LookedUp
    <2>12. Silenced'
      BY <1>2, <1>7, <2>4, <2>9, <2>10 DEF Silenced
    <2>13. EndedOver'
      <3>1. ended \subseteq Tasks
        BY DEF TypeOK
      <3>. QED
        BY <1>1, <1>5, <2>9, <3>1, EndedStaysOver
    <2>. QED
      BY <1>3, <1>4, <2>11, <2>12, <2>13 DEF Quiet
  <1>10. CASE AppendEvent(a)
    <2>1. PICK n \in At(a, "each", "audit") : UNCHANGED reminder
      BY <1>10 DEF AppendEvent
    <2>2. PICK r \in First(a) : r.item = <<"audit", n>>
      BY AtIs
    <2>3. \A s \in First(a) : s.item[1] = "audit"
      BY <2>2, FirstUnique
    <2>4. LookedUp'
      BY <1>2, <2>1 DEF Quiet, LookedUp
    <2>5. Silenced'
      BY <1>2, <2>1, <2>3 DEF Quiet, Silenced, Over
    <2>6. EndedOver'
      BY <1>1, <1>5, <2>1, EndedStaysOver DEF Over
    <2>. QED
      BY <1>3, <1>4, <2>4, <2>5, <2>6 DEF Quiet
  <1>. QED
    BY <1>8, <1>9, <1>10

(* Mark and CancelRaises: the first item leaves the batch.                 *)
LEMMA RestIs ==
  ASSUME TypeOK, NEW a \in Actors, NEW r,
         actor' = [actor EXCEPT ![a] = After(a, actor[a].batch \ {r})]
  PROVE  /\ actor'[a].batch = actor[a].batch \ {r}
         /\ actor'[a].pc \notin {"create", "mark"}
         /\ \A b \in Actors \ {a} : actor'[b] = actor[b]
         /\ \A b \in Actors : actor'[b].batch \subseteq actor[b].batch
  <1>1. actor[a].batch \ {r} \in SUBSET [item : Items, place : Nat]
    BY DEF TypeOK, Actor
  <1>2. /\ actor'[a] = After(a, actor[a].batch \ {r})
        /\ \A b \in Actors \ {a} : actor'[b] = actor[b]
    BY DEF TypeOK
  <1>3. actor'[a].batch = actor[a].batch \ {r} /\ actor'[a].pc \notin {"create", "mark"}
    BY <1>1, <1>2, AfterType
  <1>. QED
    BY <1>2, <1>3

LEMMA QuietLeaves ==
  ASSUME FlowInv, Quiet, NEW a \in Actors, NEW r \in First(a), UNCHANGED <<reminder, ended>>,
         actor' = [actor EXCEPT ![a] = After(a, actor[a].batch \ {r})],
         \A i \in Items : Unfinished(i)' => Unfinished(i) /\ outbox'[i] = outbox[i],
         \A i \in Items : i # r.item => (Unfinished(i) => Unfinished(i)'),
         r.item[1] = "create" => ~ Unfinished(r.item)',
         (r.item[1] = "cancel" /\ r.item[2] \in ended) =>
             Over(r.item[2]) \/ (Unfinished(r.item) => Unfinished(r.item)')
  PROVE  Quiet'
  <1>. USE DEF FlowInv
  <1>1. /\ actor'[a].batch = actor[a].batch \ {r}
        /\ actor'[a].pc \notin {"create", "mark"}
        /\ \A b \in Actors \ {a} : actor'[b] = actor[b]
        /\ \A b \in Actors : actor'[b].batch \subseteq actor[b].batch
    BY RestIs
  <1>2. r \in actor[a].batch /\ r.item \in Items
    BY FirstType
  <1>3. OneFlushes'
    BY <1>1 DEF Quiet, OneFlushes, HasEffects
  <1>4. HeldPending'
    <2>. SUFFICES ASSUME NEW b \in Actors, NEW s \in actor'[b].batch, s.item \in Effects
                 PROVE  Unfinished(s.item)'
      BY DEF HeldPending
    <2>1. s \in actor[b].batch /\ s.item \in Items /\ Unfinished(s.item)
      BY <1>1, ItemNames DEF Quiet, HeldPending
    <2>2. s.item # r.item
      <3>1. CASE b = a
        <4>1. s # r
          BY <1>1, <3>1
        <4>. QED
          BY <1>2, <2>1, <3>1, <4>1 DEF BatchInv, Distinct
      <3>2. CASE b # a
        BY <1>2, <2>1, <3>2 DEF Quiet, OneFlushes, HasEffects
      <3>. QED
        BY <3>1, <3>2
    <2>. QED
      BY <2>1, <2>2
  <1>5. CreatesFirst'
    <2>. SUFFICES ASSUME NEW b \in Actors, NEW s \in actor'[b].batch, NEW t \in Tasks,
                        s.item = <<"cancel", t>>, Creating(t)'
                 PROVE  \E q \in actor'[b].batch : q.item = <<"create", t>> /\ q.place < s.place
      BY DEF CreatesFirst
    <2>1. s \in actor[b].batch
      BY <1>1
    <2>2. Creating(t)
      BY ItemNames DEF Creating
    <2>3. PICK q \in actor[b].batch : q.item = <<"create", t>> /\ q.place < s.place
      BY <2>1, <2>2 DEF Quiet, CreatesFirst
    <2>4. q # r
      BY <2>3 DEF Creating
    <2>. QED
      BY <1>1, <2>3, <2>4
  <1>6. CancelsLater'
    BY ItemNames, CancelsStayLater
  <1>7. LookedUp' /\ Silenced'
    BY <1>1, LookedUpStays
  <1>8. EndedOver'
    <2>1. ASSUME NEW t \in ended, Cancelling(t) PROVE Cancelling(t)' \/ Over(t)'
      <3>1. <<"cancel", t>> \in Items
        BY ItemNames DEF TypeOK
      <3>2. CASE r.item = <<"cancel", t>>
        BY <2>1, <3>2 DEF Cancelling, Over
      <3>3. CASE r.item # <<"cancel", t>>
        BY <2>1, <3>1, <3>3 DEF Cancelling
      <3>. QED
        BY <3>2, <3>3
    <2>. QED
      BY <2>1, EndedStaysOver DEF Over
  <1>. QED
    BY <1>3, <1>4, <1>5, <1>6, <1>7, <1>8 DEF Quiet

LEMMA QuietMark ==
  ASSUME FlowInv, Quiet, NEW a \in Actors, Mark(a)
  PROVE  Quiet'
  <1>. USE DEF FlowInv
  <1>1. PICK r \in First(a) :
           /\ r \in actor[a].batch /\ r.item \in Items
           /\ \A i \in Items \ {r.item} : outbox'[i] = outbox[i]
           /\ outbox'[r.item].status = Delivered(outbox[r.item].status)
           /\ actor' = [actor EXCEPT ![a] = After(a, actor[a].batch \ {r})]
    BY MarkSteps
  <1>2. ~ Unfinished(r.item)'
    BY <1>1 DEF Unfinished, Delivered
  <1>3. \A i \in Items : Unfinished(i)' => Unfinished(i) /\ outbox'[i] = outbox[i]
    BY <1>1, <1>2 DEF Unfinished
  <1>4. \A i \in Items : i # r.item => (Unfinished(i) => Unfinished(i)')
    BY <1>1 DEF Unfinished
  <1>5. r.item[1] = "cancel" => Over(r.item[2])
    BY DEF Mark, Quiet, Silenced
  <1>6. UNCHANGED <<reminder, ended>>
    BY DEF Mark
  <1>. QED
    BY <1>1, <1>2, <1>3, <1>4, <1>5, <1>6, QuietLeaves

LEMMA QuietCancelRaises ==
  ASSUME FlowInv, Quiet, NEW a \in Actors, CancelRaises(a)
  PROVE  Quiet'
  <1>. USE DEF FlowInv
  <1>1. PICK r \in First(a) : actor' = [actor EXCEPT ![a] = After(a, actor[a].batch \ {r})]
    BY DEF CancelRaises, MarkFailed
  <1>2. UNCHANGED <<outbox, reminder, ended>>
    BY DEF CancelRaises, MarkFailed
  <1>3. r.item[1] = "cancel"
    <2>1. PICK t \in At(a, "each", "cancel") : TRUE
      BY DEF CancelRaises
    <2>2. PICK s \in First(a) : s.item = <<"cancel", t>>
      BY AtIs
    <2>. QED
      BY <2>2, FirstUnique
  <1>4. \A i : Unfinished(i)' <=> Unfinished(i)
    BY <1>2 DEF Unfinished
  <1>. QED
    BY <1>1, <1>2, <1>3, <1>4, QuietLeaves

LEMMA QuietElse ==
  ASSUME FlowInv, Quiet,
         \/ Tick \/ UNCHANGED vars
         \/ \E a \in Actors, t \in Tasks : ReadTask(a, t)
         \/ \E a \in Actors : StartFlush(a) \/ Crash(a)
  PROVE  Quiet'
  <1>. USE DEF FlowInv
  <1>1. UNCHANGED <<outbox, reminder, ended>>
    BY DEF Tick, vars, ReadTask, StartFlush, Crash
  <1>2. /\ \A b \in Actors : actor'[b].batch \in {actor[b].batch, {}}
        /\ \A b \in Actors : actor'[b] = actor[b] \/ actor'[b].pc \notin {"create", "mark"}
    <2>1. CASE Tick \/ UNCHANGED vars
      BY <2>1 DEF Tick, vars
    <2>2. ASSUME NEW a \in Actors, NEW t \in Tasks, ReadTask(a, t)
          PROVE  /\ actor'[a].batch = {} /\ actor'[a].pc = "save"
                 /\ \A b \in Actors \ {a} : actor'[b] = actor[b]
      BY <2>2 DEF ReadTask, IdleActor, TypeOK
    <2>3. ASSUME NEW a \in Actors, StartFlush(a)
          PROVE  /\ actor'[a].batch = actor[a].batch /\ actor'[a].pc \in {"effects", "audits"}
                 /\ \A b \in Actors \ {a} : actor'[b] = actor[b]
      <3>1. PICK pc \in {"effects", "audits"} : actor' = [actor EXCEPT ![a].pc = pc]
        BY <2>3 DEF StartFlush
      <3>. QED
        BY <3>1, PcSteps
    <2>4. ASSUME NEW a \in Actors, Crash(a)
          PROVE  /\ actor'[a].batch = {} /\ actor'[a].pc = "idle"
                 /\ \A b \in Actors \ {a} : actor'[b] = actor[b]
      BY <2>4 DEF Crash, IdleActor, TypeOK
    <2>. QED
      BY <2>1, <2>2, <2>3, <2>4
  <1>. QED
    BY <1>1, <1>2, QuietStill

LEMMA QuietPrune ==
  ASSUME FlowInv, Quiet, NEW j \in Items, Prune(j)
  PROVE  Quiet'
  <1>. USE DEF FlowInv
  <1>1. /\ outbox[j].status = "delivered" /\ outbox'[j] = NoEntry
        /\ \A i \in Items \ {j} : outbox'[i] = outbox[i]
        /\ UNCHANGED <<reminder, ended, actor>>
    BY DEF Prune, TypeOK
  <1>2. \A i \in Items : Unfinished(i)' <=> Unfinished(i)
    BY <1>1 DEF Unfinished, NoEntry
  <1>3. \A i \in Items : Unfinished(i)' => outbox'[i] = outbox[i]
    BY <1>1 DEF Unfinished, NoEntry
  <1>4. \A t \in Tasks : (Creating(t)' <=> Creating(t)) /\ (Cancelling(t)' <=> Cancelling(t))
    BY <1>2, ItemNames DEF Creating, Cancelling
  <1>5. OneFlushes' /\ HeldPending' /\ CreatesFirst'
    BY <1>1, <1>2, <1>4, ItemNames, BatchesStayQuiet
  <1>6. CancelsLater'
    BY <1>2, <1>3, ItemNames, CancelsStayLater
  <1>7. LookedUp' /\ Silenced'
    BY <1>1, LookedUpStays
  <1>8. EndedOver'
    BY <1>1, <1>4, EndedStaysOver DEF Over, TypeOK
  <1>. QED
    BY <1>5, <1>6, <1>7, <1>8 DEF Quiet

LEMMA QuietEdit ==
  ASSUME FlowInv, Quiet, NEW t \in Tasks, EditReminder(t)
  PROVE  Quiet'
  <1>. USE DEF FlowInv
  <1>1. PICK status \in {"completed", "cancelled"} : reminder' = [reminder EXCEPT ![t] = status]
    BY DEF EditReminder
  <1>2. UNCHANGED <<outbox, ended, actor>> /\ reminder[t] = "active"
    BY DEF EditReminder
  <1>3. /\ \A u : u # t => (u \in Tasks => reminder'[u] = reminder[u])
        /\ \A u \in Tasks : Over(u) => Over(u)'
    BY <1>1, <1>2 DEF Over, TypeOK
  <1>4. OneFlushes' /\ HeldPending' /\ CreatesFirst' /\ CancelsLater'
    BY <1>2, BatchesStayQuiet, CancelsStayLater DEF Unfinished, Creating
  <1>5. \A b \in Actors : First(b)' = First(b)
    BY <1>2 DEF First
  <1>6. LookedUp'
    <2>. SUFFICES ASSUME NEW b \in Actors, actor[b].pc = "create", NEW r \in First(b)
                 PROVE  reminder'[r.item[2]] = "absent"
      BY <1>2, <1>5 DEF LookedUp
    <2>1. reminder[r.item[2]] = "absent"
      BY DEF Quiet, LookedUp
    <2>2. r.item[2] \in Tasks
      BY FirstType, ItemParts DEF BatchInv, Items
    <2>. QED
      BY <1>2, <1>3, <2>1, <2>2
  <1>7. Silenced'
    <2>. SUFFICES ASSUME NEW b \in Actors, actor[b].pc = "mark", NEW r \in First(b),
                        r.item[1] = "cancel"
                 PROVE  Over(r.item[2])'
      BY <1>2, <1>5 DEF Silenced
    <2>1. Over(r.item[2])
      BY DEF Quiet, Silenced
    <2>2. r.item[2] \in Tasks
      BY FirstType, ItemParts DEF Items
    <2>. QED
      BY <1>3, <2>1, <2>2
  <1>8. EndedOver'
    BY <1>2, <1>3, EndedStaysOver DEF Cancelling, Unfinished, TypeOK
  <1>. QED
    BY <1>4, <1>6, <1>7, <1>8 DEF Quiet

LEMMA NextQuietInv ==
  ASSUME FlowInv, QuietInv, [Next]_vars
  PROVE  QuietInv'
  <1>. SUFFICES ASSUME Orderly' PROVE Quiet'
    BY DEF QuietInv
  <1>1. /\ Quiet
        /\ \A a \in Actors : ~ Fails(a)
        /\ \A a \in Actors : SaveTask(a) => ~ SameSecond(Cancels(a))
        /\ \A a \in Actors : ReadPending(a) => ~ Overlaps(a)
    BY OrderlyStays DEF QuietInv, FlowInv
  <1>2. \A a \in Actors, t \in Tasks : CreateTask(a, t) => Quiet'
    BY <1>1, QuietCreateTask
  <1>3. \A a \in Actors : SaveTask(a) => Quiet'
    BY <1>1, QuietSaveTask
  <1>4. \A a \in Actors : ReadPending(a) => Quiet'
    BY <1>1, QuietReadPending
  <1>5. \A a \in Actors : LookUpReminder(a) => Quiet'
    BY <1>1, QuietLookUp
  <1>6. \A a \in Actors : SaveReminder(a) \/ CancelReminder(a) \/ AppendEvent(a) => Quiet'
    BY <1>1, QuietApply
  <1>7. \A a \in Actors : Mark(a) => Quiet'
    BY <1>1, QuietMark
  <1>8. \A a \in Actors : CancelRaises(a) => Quiet'
    BY <1>1, QuietCancelRaises
  <1>9. \A i \in Items : Prune(i) => Quiet'
    BY <1>1, QuietPrune
  <1>10. \A t \in Tasks : EditReminder(t) => Quiet'
    BY <1>1, QuietEdit
  <1>. QED
    BY <1>1, <1>2, <1>3, <1>4, <1>5, <1>6, <1>7, <1>8, <1>9, <1>10, QuietElse DEF Next, Flush

LEMMA InitQuietInv == Init => QuietInv
  <1>. SUFFICES ASSUME Init PROVE Quiet
    BY DEF QuietInv
  <1>1. \A a \in Actors : actor[a].batch = {} /\ actor[a].pc = "idle" /\ First(a) = {}
    BY DEF Init, IdleActor, First
  <1>2. \A i \in Items : ~ Unfinished(i)
    BY DEF Init, NoEntry, Unfinished
  <1>3. ended = {}
    BY DEF Init
  <1>. QED
    BY <1>1, <1>2, <1>3, ItemNames
    DEF Quiet, OneFlushes, HasEffects, HeldPending, CancelsLater, CreatesFirst, LookedUp,
        Silenced, EndedOver, Creating

(* While no statement of a flush raises, no two flushes have effects in    *)
(* hand at once and no cancel shares the second of its create, an ended    *)
(* task does not ring once its effects are delivered, whoever dies between *)
(* the two databases and however often.                                    *)
THEOREM EndedTasksFallSilent == Spec => []EndedTaskFallsSilent
  <1>1. Init => FlowInv /\ QuietInv
    BY InitFlowInv, InitQuietInv
  <1>2. FlowInv /\ QuietInv /\ [Next]_vars => (FlowInv /\ QuietInv)'
    BY NextFlowInv, NextQuietInv
  <1>3. QuietInv => EndedTaskFallsSilent
    BY DEF QuietInv, Orderly, Quiet, EndedOver, Over, Cancelling, AtRest,
           EndedTaskFallsSilent, EndedTaskIsSilent
  <1>. QED
    BY <1>1, <1>2, <1>3, PTL DEF Spec
=============================================================================
