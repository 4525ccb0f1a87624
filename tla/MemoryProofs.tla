---------------------------- MODULE MemoryProofs ----------------------------
(* Proofs about Memory, for any number of memories, threads, consolidations, *)
(* edits and crashes: every variable keeps its type, one memory of a kind is  *)
(* active, what is archived was summarised, and the evidence follows its      *)
(* memory.                                                                    *)
(*                                                                            *)
(* Two of the three are inductive only with what is on its way: a thread that *)
(* will write back "archived" read it from the row, and the consolidation     *)
(* marks only what it put into a summary (ArchiveInv); a thread that is about *)
(* to copy a status into the evidence holds the status of the row, or a later *)
(* change has its own thread under way (EvidenceInv).                         *)
EXTENDS Memory, TLAPS

-----------------------------------------------------------------------------
(* The invariant. *)

\* A request works on a memory that was taken from a chat; it never writes back
\* a status no memory has, and "archived" only on a memory that was archived when
\* it read it.
EditOk(a) ==
    actor[a].pc = "edit" =>
        /\ actor[a].id \in Told
        /\ actor[a].edit.status \in Statuses /\ actor[a].edit.kind \in Kinds
        /\ actor[a].edit.status = "archived" => actor[a].id \in summarised

KindsInv == \A i \in Told : Exists(i) => items[i].kind \in Kinds

\* The consolidation marks as archived only what it put into a summary.
ArchiveInv ==
    /\ ArchivedIsSummarised /\ KindsInv
    /\ \A a \in Actors : EditOk(a)
    /\ job.stage = "mark" => job.todo \subseteq summarised

\* While the evidence lags, somebody is under way to write it: who has just
\* changed the row, who has read the status the row still has, or who deletes
\* the evidence.
Changed(a, i) == actor[a].id = i /\ actor[a].pc = "changed" /\ Exists(i)
Copying(a, i) == actor[a].id = i /\ actor[a].pc = "syncing" /\ Exists(i)
                 /\ actor[a].seen = items[i].status
Deleting(a, i) == actor[a].id = i /\ actor[a].pc = "deleted"
Matches(i) == evidence[i] = IF Exists(i) THEN items[i].status ELSE "none"
Follows(i) ==
    \/ i \in unsure \/ Matches(i)
    \/ \E a \in Actors : Changed(a, i) \/ Copying(a, i) \/ Deleting(a, i)

\* The first summary is written right after the load, by a worker that is idle.
EvidenceInv ==
    /\ \A i \in Ids : Follows(i)
    /\ \A a \in Actors : actor[a].pc = "syncing" => actor[a].seen \in Statuses
    /\ job.stage = "l2" => actor["worker"].pc = "idle"

MemoryInv == TypeOK /\ OneActivePerKind /\ ArchiveInv /\ EvidenceInv

-----------------------------------------------------------------------------
(* Types. *)

LEMMA IdsAre ==
    /\ Told \subseteq Ids /\ Derived \subseteq Ids /\ Told \cap Derived = {}
    /\ {L2, L3, L4} \subseteq Ids
    /\ "worker" \in Actors /\ Threads \subseteq Actors
    /\ L2 \notin Told /\ L3 \notin Told /\ L4 \notin Told
  <1>1. N \in Nat
    BY MemoryAssumption
  <1> QED
    BY <1>1 DEF Told, Derived, Ids, Actors, L2, L3, L4

LEMMA NoRowIsRow == NoRow \in Rows /\ ~(NoRow.status \in Statuses) /\ Rest.edit = NoRow
  <1>1. NoRow \in Rows
    BY DEF NoRow, Rows
  <1>2. NoRow.status = "none" /\ Rest.edit = NoRow
    BY DEF NoRow, Rest
  <1> QED
    BY <1>1, <1>2 DEF Statuses

Doing == [pc : {"idle", "edit", "changed", "deleted", "syncing"}, id : Ids,
          seen : Statuses \cup {"none"}, edit : Rows]
Jobs == [stage : {"none", "merge", "l2", "l3", "l4", "mark"},
         loaded : UNION {[S -> Kinds] : S \in SUBSET Told}, todo : SUBSET Told]

LEMMA NoJobIsJob == NoJob \in Jobs /\ NoLoad \in UNION {[S -> Kinds] : S \in SUBSET Told}
  <1>1. NoLoad \in [{} -> Kinds] /\ {} \in SUBSET Told
    BY DEF NoLoad
  <1> QED
    BY <1>1 DEF NoJob, Jobs

LEMMA JobChanges ==
  ASSUME NEW j \in Jobs
  PROVE  /\ \A st \in {"l3", "l4"} : [j EXCEPT !.stage = st] \in Jobs
         /\ \A i \in Told : [j EXCEPT !.todo = @ \ {i}] \in Jobs
         /\ \A S \in SUBSET Told : [j EXCEPT !.stage = "mark", !.todo = S] \in Jobs
  BY DEF Jobs

LEMMA TypeInit == Init => TypeOK
  <1>1. SUFFICES ASSUME Init PROVE TypeOK
    OBVIOUS
  <1>3. 1 \in Ids
    <2>1. N \in Nat /\ (N >= 1 \/ N = 0)
      BY MemoryAssumption
    <2> QED
      BY <2>1 DEF Ids, Told, Derived, L2
  <1>6. {0} \subseteq 0..MaxRuns /\ {0} \subseteq 0..MaxEdits /\ {0} \subseteq 0..MaxCrashes
    BY MemoryAssumption
  <1> QED
    BY <1>1, <1>3, <1>6, NoRowIsRow, NoJobIsJob DEF Init, TypeOK, Jobs, Rest, Statuses

\* Every row an action writes is a row.
LEMMA RowsChange ==
  ASSUME NEW row \in Rows
  PROVE  /\ \A s \in Statuses : [row EXCEPT !.status = s] \in Rows
         /\ \A S \in SUBSET Told : [row EXCEPT !.src = S] \in Rows
         /\ \A S \in SUBSET Told :
               [NoRow EXCEPT !.status = "active", !.kind = "summary", !.src = S] \in Rows
         /\ [NoRow EXCEPT !.status = "deleted"] \in Rows
  BY DEF Rows, NoRow, Statuses

LEMMA DoingChanges ==
    /\ Rest \in Doing
    /\ \A i \in Ids, pc \in {"changed", "deleted"} : [Rest EXCEPT !.pc = pc, !.id = i] \in Doing
    /\ \A i \in Ids, s \in Statuses :
          [Rest EXCEPT !.pc = "syncing", !.id = i, !.seen = s] \in Doing
    /\ \A p \in Doing, s \in Statuses : [p EXCEPT !.pc = "syncing", !.seen = s] \in Doing
    /\ \A p \in Doing : [p EXCEPT !.pc = "idle"] \in Doing
  <1>1. 1 \in Ids
    <2>1. N \in Nat /\ (N >= 1 \/ N = 0)
      BY MemoryAssumption
    <2> QED
      BY <2>1 DEF Ids, Told, Derived, L2
  <1>2. Rest = [pc |-> "idle", id |-> 1, seen |-> "none", edit |-> NoRow]
    BY DEF Rest
  <1> QED
    BY <1>1, <1>2, NoRowIsRow DEF Doing, Statuses

\* The consolidation writes a summary of memories it has read.
LEMMA SummaryTyped ==
  ASSUME TypeOK, NEW d \in Derived, NEW S \in SUBSET Told, PutSummary(d, S)
  PROVE  items' \in [Ids -> Rows] /\ actor' \in [Actors -> Doing]
  <1>1. items \in [Ids -> Rows] /\ actor \in [Actors -> Doing] /\ d \in Ids
    BY IdsAre DEF TypeOK, Doing
  <1>2. "active" \in Statuses
    BY DEF Statuses
  <1>3. [NoRow EXCEPT !.status = "active", !.kind = "summary", !.src = S] \in Rows
    BY RowsChange, NoRowIsRow
  <1>4. [Rest EXCEPT !.pc = "syncing", !.id = d, !.seen = "active"] \in Doing
    BY <1>1, <1>2, DoingChanges
  <1> QED
    BY <1>1, <1>3, <1>4 DEF PutSummary

\* What is loaded are memories taken from chats.
LEMMA LoadedAre ==
  ASSUME TypeOK
  PROVE  /\ DOMAIN job.loaded \subseteq Told
         /\ L2Group(job.loaded) \subseteq Told /\ L3Group(job.loaded) \subseteq Told
  <1>1. job \in Jobs
    BY DEF TypeOK, Jobs
  <1>2. PICK S \in SUBSET Told : job.loaded \in [S -> Kinds]
    BY <1>1 DEF Jobs
  <1> QED
    BY <1>2 DEF L2Group, L3Group

LEMMA TypeStep ==
  ASSUME TypeOK, KindsInv, [Next]_vars
  PROVE  TypeOK'
  <1>0. /\ items \in [Ids -> Rows] /\ evidence \in [Ids -> Statuses \cup {"none"}]
        /\ actor \in [Actors -> Doing] /\ job \in Jobs
        /\ done \in [runs : 0..MaxRuns, edits : 0..MaxEdits, crashes : 0..MaxCrashes]
        /\ summarised \subseteq Told /\ edited \subseteq Ids /\ unsure \subseteq Ids
        /\ MaxRuns \in Nat /\ MaxEdits \in Nat /\ MaxCrashes \in Nat
    BY MemoryAssumption DEF TypeOK, Doing, Jobs
  <1>t. SUFFICES /\ items' \in [Ids -> Rows] /\ evidence' \in [Ids -> Statuses \cup {"none"}]
                 /\ actor' \in [Actors -> Doing] /\ job' \in Jobs
                 /\ done' \in [runs : 0..MaxRuns, edits : 0..MaxEdits, crashes : 0..MaxCrashes]
                 /\ summarised' \subseteq Told /\ edited' \subseteq Ids /\ unsure' \subseteq Ids
    BY DEF TypeOK, Doing, Jobs
  <1>s. {"active", "superseded", "forgotten", "archived"} \subseteq Statuses
    BY DEF Statuses
  <1>1. CASE \E i \in Told, k \in Kinds, t \in Texts : \E akin \in SUBSET Told : Remember(i, k, t, akin)
    <2>1. PICK i \in Told, k \in Kinds, t \in Texts, akin \in SUBSET Told : Remember(i, k, t, akin)
      BY <1>1
    <2>2. [status |-> "active", kind |-> k, text |-> t, src |-> {}] \in Rows
      BY <1>s DEF Rows
    <2>3. \A j \in Ids : [items[j] EXCEPT !.status = "superseded"] \in Rows
      BY <1>0, <1>s, RowsChange
    <2>4. PICK gone, new \in SUBSET (Told \cup {i}) :
            /\ items' = [j \in Ids |->
                      IF j \in gone THEN [items[j] EXCEPT !.status = "superseded"]
                      ELSE IF j \in new THEN [status |-> "active", kind |-> k,
                                              text |-> t, src |-> {}]
                      ELSE items[j]]
            /\ evidence' = [j \in Ids |-> IF j \in gone THEN "superseded"
                                     ELSE IF j \in new THEN "active" ELSE evidence[j]]
            /\ unsure' = unsure \ (gone \cup new)
            /\ edited' = edited \ gone
      <3> DEFINE family == {j \in Active(Told) : SameMemoryFamily(items[j].kind, k)}
                 equal  == {j \in family : items[j].text = t}
                 before == IF equal = {} THEN family ELSE {j \in family : j < Min(equal)}
                 gone   == {j \in before : Related(j, k, akin)}
                 new    == IF equal = {} THEN {i} ELSE {}
      <3>1. gone \in SUBSET (Told \cup {i}) /\ new \in SUBSET (Told \cup {i})
        BY DEF Active
      <3>2. WriteMemory(i, k, t, akin)
        BY <2>1 DEF Remember
      <3> QED
        BY <3>1, <3>2 DEF WriteMemory
    <2>5. UNCHANGED <<actor, job, done, summarised>>
      BY <2>1 DEF Remember
    <2> QED
      BY <1>0, <1>s, <2>2, <2>3, <2>4, <2>5
  <1>2. CASE \E a \in Threads : \E i \in Ids : Forget(a, i)
    <2>1. PICK a \in Threads, i \in Ids : Forget(a, i)
      BY <1>2
    <2>2. [items[i] EXCEPT !.status = "forgotten"] \in Rows
          /\ [Rest EXCEPT !.pc = "changed", !.id = i] \in Doing
      BY <1>0, <1>s, RowsChange, DoingChanges
    <2>3. /\ items' = [items EXCEPT ![i] = [items[i] EXCEPT !.status = "forgotten"]]
          /\ actor' = [actor EXCEPT ![a] = [Rest EXCEPT !.pc = "changed", !.id = i]]
          /\ edited' = edited \ {i}
          /\ UNCHANGED <<evidence, job, summarised, unsure>>
          /\ done.edits < MaxEdits /\ done' = [done EXCEPT !.edits = @ + 1]
      BY <2>1 DEF Forget, Request, SetStatus
    <2>4. done' \in [runs : 0..MaxRuns, edits : 0..MaxEdits, crashes : 0..MaxCrashes]
      BY <1>0, <2>3
    <2> QED
      BY <1>0, <2>2, <2>3, <2>4, IdsAre
  <1>3. CASE \E a \in Threads : \E i \in Ids : HardDelete(a, i)
    <2>1. PICK a \in Threads, i \in Ids : HardDelete(a, i)
      BY <1>3
    <2>2. [NoRow EXCEPT !.status = "deleted"] \in Rows
          /\ [Rest EXCEPT !.pc = "deleted", !.id = i] \in Doing
      BY <1>0, RowsChange, DoingChanges
    <2>3. /\ items' = [items EXCEPT ![i] = [NoRow EXCEPT !.status = "deleted"]]
          /\ actor' = [actor EXCEPT ![a] = [Rest EXCEPT !.pc = "deleted", !.id = i]]
          /\ edited' = edited \ {i}
          /\ UNCHANGED <<evidence, job, summarised, unsure>>
          /\ done.edits < MaxEdits /\ done' = [done EXCEPT !.edits = @ + 1]
      BY <2>1 DEF HardDelete, Request
    <2>4. done' \in [runs : 0..MaxRuns, edits : 0..MaxEdits, crashes : 0..MaxCrashes]
      BY <1>0, <2>3
    <2> QED
      BY <1>0, <2>2, <2>3, <2>4, IdsAre
  <1>4. CASE \E a \in Threads : \E i \in Told, k \in Kinds \cup {"same"}, t \in Texts \cup {"same"} :
                 \E s \in {"same", "active", "forgotten"} : ReadForUpdate(a, i, k, t, s)
    <2>1. PICK a \in Threads, i \in Told, k \in Kinds \cup {"same"}, t \in Texts \cup {"same"},
               s \in {"same", "active", "forgotten"} : ReadForUpdate(a, i, k, t, s)
      BY <1>4
    <2> DEFINE e == [items[i] EXCEPT
                        !.kind = IF k = "same" THEN @ ELSE k,
                        !.text = IF t = "same" THEN @ ELSE t,
                        !.status = IF s = "same" THEN @ ELSE s]
    <2>2. i \in Ids /\ items[i] \in Rows
      BY <1>0, IdsAre
    <2>3. e \in Rows
      BY <2>2, <1>s DEF Rows
    <2>4. [pc |-> "edit", id |-> i, seen |-> "none", edit |-> e] \in Doing
      BY <2>2, <2>3 DEF Doing
    <2>5. /\ actor' = [actor EXCEPT ![a] = [pc |-> "edit", id |-> i, seen |-> "none", edit |-> e]]
          /\ UNCHANGED <<items, evidence, job, summarised, edited, unsure>>
          /\ done.edits < MaxEdits /\ done' = [done EXCEPT !.edits = @ + 1]
      BY <2>1 DEF ReadForUpdate, Request
    <2>6. done' \in [runs : 0..MaxRuns, edits : 0..MaxEdits, crashes : 0..MaxCrashes]
      BY <1>0, <2>5
    <2> HIDE DEF e
    <2> QED
      BY <1>0, <2>4, <2>5, <2>6, IdsAre
  <1>5. CASE \E a \in Threads : WriteUpdate(a)
    <2>1. PICK a \in Threads : WriteUpdate(a)
      BY <1>5
    <2>2. actor[a] \in Doing /\ actor[a].id \in Ids /\ actor[a].edit \in Rows
      BY <1>0, IdsAre DEF Doing
    <2>3. items[actor[a].id].src \in SUBSET Told
      BY <1>0, <2>2 DEF Rows
    <2>4. [actor[a].edit EXCEPT !.src = items[actor[a].id].src] \in Rows
      BY <2>2, <2>3, RowsChange
    <2>5. [Rest EXCEPT !.pc = "changed", !.id = actor[a].id] \in Doing
      BY <2>2, DoingChanges
    <2>6. /\ items' \in {items, [items EXCEPT ![actor[a].id] =
                                   [actor[a].edit EXCEPT !.src = items[actor[a].id].src]]}
          /\ edited' \in {edited, edited \cup {actor[a].id}}
          /\ actor' = [actor EXCEPT ![a] = [Rest EXCEPT !.pc = "changed", !.id = actor[a].id]]
          /\ UNCHANGED <<evidence, job, done, summarised, unsure>>
      BY <2>1 DEF WriteUpdate
    <2> QED
      BY <1>0, <2>2, <2>4, <2>5, <2>6, IdsAre
  <1>6. CASE \E a \in Threads : DeleteEvidence(a)
    <2>1. PICK a \in Threads : DeleteEvidence(a)
      BY <1>6
    <2>2. actor[a] \in Doing /\ actor[a].id \in Ids
      BY <1>0, IdsAre DEF Doing
    <2>3. /\ evidence' = [evidence EXCEPT ![actor[a].id] = "none"]
          /\ unsure' \in {unsure \cup {actor[a].id}, unsure \ {actor[a].id}}
          /\ actor' = [actor EXCEPT ![a] = [actor[a] EXCEPT !.pc = "idle"]]
          /\ UNCHANGED <<items, job, done, summarised, edited>>
      BY <2>1 DEF DeleteEvidence, Does
    <2>4. [actor[a] EXCEPT !.pc = "idle"] \in Doing
      BY <2>2, DoingChanges
    <2> QED
      BY <1>0, <2>2, <2>3, <2>4, IdsAre
  <1>7. CASE \E a \in Actors : SyncRead(a)
    <2>1. PICK a \in Actors : SyncRead(a)
      BY <1>7
    <2>2. actor[a] \in Doing /\ actor[a].id \in Ids
      BY <1>0 DEF Doing
    <2>3. /\ actor' = [actor EXCEPT ![a] = IF Exists(actor[a].id)
                THEN [actor[a] EXCEPT !.pc = "syncing", !.seen = items[actor[a].id].status] ELSE Rest]
          /\ UNCHANGED <<items, evidence, job, done, summarised, edited, unsure>>
      BY <2>1 DEF SyncRead
    <2>4. Exists(actor[a].id) =>
             [actor[a] EXCEPT !.pc = "syncing", !.seen = items[actor[a].id].status] \in Doing
      BY <2>2, DoingChanges DEF Exists
    <2> QED
      BY <1>0, <2>3, <2>4, DoingChanges
  <1>8. CASE \E a \in Actors : SyncWrite(a)
    <2>1. PICK a \in Actors : SyncWrite(a)
      BY <1>8
    <2>2. actor[a].id \in Ids /\ actor[a].seen \in Statuses \cup {"none"}
      BY <1>0 DEF Doing
    <2>3. /\ evidence' = [evidence EXCEPT ![actor[a].id] = actor[a].seen]
          /\ unsure' \in {unsure \cup {actor[a].id}, unsure \ {actor[a].id}}
          /\ actor' = [actor EXCEPT ![a] = Rest]
          /\ UNCHANGED <<items, job, done, summarised, edited>>
      BY <2>1 DEF SyncWrite, Upserted
    <2> QED
      BY <1>0, <2>2, <2>3, DoingChanges
  <1>9. CASE \E a \in Actors : Crash(a)
    <2>1. PICK a \in Actors : Crash(a)
      BY <1>9
    <2>2. actor[a].id \in Ids
      BY <1>0 DEF Doing
    <2>3. /\ actor' = [actor EXCEPT ![a] = Rest] /\ job' \in {NoJob, job}
          /\ unsure' \in {unsure, unsure \cup {actor[a].id}}
          /\ UNCHANGED <<items, evidence, summarised, edited>>
          /\ done.crashes < MaxCrashes /\ done' = [done EXCEPT !.crashes = @ + 1]
      BY <2>1 DEF Crash
    <2>4. done' \in [runs : 0..MaxRuns, edits : 0..MaxEdits, crashes : 0..MaxCrashes]
      BY <1>0, <2>3
    <2> QED
      BY <1>0, <2>2, <2>3, <2>4, DoingChanges, NoJobIsJob
  <1>10. CASE Consolidate
    <2>1. job' = [stage |-> "merge", loaded |-> NoLoad, todo |-> job'.todo]
          /\ job'.todo \in SUBSET Told
          /\ UNCHANGED <<items, evidence, actor, summarised, edited, unsure>>
          /\ done.runs < MaxRuns /\ done' = [done EXCEPT !.runs = @ + 1]
      BY <1>10 DEF Consolidate, Active
    <2>2. job' \in Jobs
      BY <2>1, NoJobIsJob DEF Jobs
    <2>3. done' \in [runs : 0..MaxRuns, edits : 0..MaxEdits, crashes : 0..MaxCrashes]
      BY <1>0, <2>1
    <2> QED
      BY <1>0, <2>1, <2>2, <2>3
  <1>11. CASE LoadActive
    <2>1. Active(Told) \in SUBSET Told
      BY DEF Active
    <2>2. job' = [stage |-> "l2", loaded |-> [i \in Active(Told) |-> items[i].kind], todo |-> {}]
          /\ UNCHANGED <<items, evidence, actor, done, summarised, edited, unsure>>
      BY <1>11 DEF LoadActive
    <2>3. [i \in Active(Told) |-> items[i].kind] \in [Active(Told) -> Kinds]
      BY DEF KindsInv, Active, Exists, Statuses
    <2> QED
      BY <1>0, <2>1, <2>2, <2>3 DEF Jobs
  <1>12. CASE WriteL2
    <2> DEFINE S == L2Group(job.loaded)
    <2>1. S \in SUBSET Told /\ L2 \in Derived
      BY LoadedAre DEF Derived
    <2>2. /\ PutSummary(L2, S) \/ UNCHANGED <<items, actor>>
          /\ job' = [job EXCEPT !.stage = "l3"]
          /\ UNCHANGED <<evidence, done, summarised, edited, unsure>>
      BY <1>12 DEF WriteL2
    <2> HIDE DEF S
    <2>3. items' \in [Ids -> Rows] /\ actor' \in [Actors -> Doing]
      BY <1>0, <2>1, <2>2, SummaryTyped
    <2> QED
      BY <1>0, <2>2, <2>3, JobChanges
  <1>13. CASE \E S \in SUBSET L3Group(job.loaded) : WriteL3(S)
    <2>1. PICK S \in SUBSET L3Group(job.loaded) : WriteL3(S)
      BY <1>13
    <2>2. S \in SUBSET Told /\ L3 \in Derived
      BY LoadedAre DEF Derived
    <2>3. /\ PutSummary(L3, S) \/ UNCHANGED <<items, actor>>
          /\ job' = [job EXCEPT !.stage = "l4"]
          /\ UNCHANGED <<evidence, done, summarised, edited, unsure>>
      BY <2>1 DEF WriteL3
    <2>4. items' \in [Ids -> Rows] /\ actor' \in [Actors -> Doing]
      BY <1>0, <2>2, <2>3, SummaryTyped
    <2> QED
      BY <1>0, <2>3, <2>4, JobChanges
  <1>14. CASE \E i \in Told : MergeOne(i)
    <2>1. PICK i \in Told : MergeOne(i)
      BY <1>14
    <2>2. /\ items' \in {items, [items EXCEPT ![i] = [items[i] EXCEPT !.status = "superseded"]]}
          /\ edited' = edited \ {i}
          /\ actor' = [actor EXCEPT !["worker"] = [Rest EXCEPT !.pc = "changed", !.id = i]]
          /\ job' = [job EXCEPT !.todo = @ \ {i}]
          /\ UNCHANGED <<evidence, done, summarised, unsure>>
      BY <2>1 DEF MergeOne
    <2>3. i \in Ids /\ [Rest EXCEPT !.pc = "changed", !.id = i] \in Doing
      BY IdsAre, DoingChanges
    <2>4. [items[i] EXCEPT !.status = "superseded"] \in Rows
      BY <1>0, <1>s, <2>3, RowsChange
    <2> QED
      BY <1>0, <2>2, <2>3, <2>4, JobChanges
  <1>15. CASE \E i \in Told : MarkArchived(i)
    <2>1. PICK i \in Told : MarkArchived(i)
      BY <1>15
    <2>2. /\ items' \in {items, [items EXCEPT ![i] = [items[i] EXCEPT !.status = "archived"]]}
          /\ actor' \in {actor, [actor EXCEPT !["worker"] = [Rest EXCEPT !.pc = "changed", !.id = i]]}
          /\ job' = [job EXCEPT !.todo = @ \ {i}]
          /\ UNCHANGED <<evidence, done, summarised, edited, unsure>>
      BY <2>1 DEF MarkArchived, SetStatus
    <2>3. i \in Ids /\ [Rest EXCEPT !.pc = "changed", !.id = i] \in Doing
      BY IdsAre, DoingChanges
    <2>4. [items[i] EXCEPT !.status = "archived"] \in Rows
      BY <1>0, <1>s, <2>3, RowsChange
    <2> QED
      BY <1>0, <2>2, <2>3, <2>4, JobChanges
  <1>16. CASE \E old \in SUBSET {i \in DOMAIN job.loaded : ShouldArchive(i)} :
                 \E S \in SUBSET old : WriteArchive(old, S)
    <2>0. PICK old \in SUBSET {i \in DOMAIN job.loaded : ShouldArchive(i)} :
             \E S \in SUBSET old : WriteArchive(old, S)
      BY <1>16
    <2>1. PICK S \in SUBSET old : WriteArchive(old, S)
      BY <2>0
    <2>2. S \in SUBSET Told /\ L4 \in Derived
      BY LoadedAre DEF Derived
    <2>3. /\ PutSummary(L4, S) \/ UNCHANGED <<items, actor>>
          /\ summarised' = summarised \cup S
          /\ job' = [job EXCEPT !.stage = "mark", !.todo = S]
          /\ UNCHANGED <<evidence, done, edited, unsure>>
      BY <2>1 DEF WriteArchive, ToArchive
    <2>4. items' \in [Ids -> Rows] /\ actor' \in [Actors -> Doing]
      BY <1>0, <2>2, <2>3, SummaryTyped
    <2> QED
      BY <1>0, <2>2, <2>3, <2>4, JobChanges
  <1>17. CASE Finish
    BY <1>0, <1>17, NoJobIsJob DEF Finish
  <1>18. CASE UNCHANGED vars
    BY <1>0, <1>18 DEF vars
  <1> QED
    BY <1>1, <1>2, <1>3, <1>4, <1>5, <1>6, <1>7, <1>8, <1>9, <1>10, <1>11, <1>12, <1>13,
       <1>14, <1>15, <1>16, <1>17, <1>18 DEF Next, Edit
-----------------------------------------------------------------------------
(* What an action has to show. *)

\* A memory that is active was active before with the same kind, or a request
\* has made it so.
LEMMA OneActiveKept ==
  ASSUME OneActivePerKind,
         \A i \in Told : items'[i].status = "active" =>
            \/ i \in edited'
            \/ /\ items[i].status = "active" /\ items'[i].kind = items[i].kind
               /\ i \in edited => i \in edited'
  PROVE  OneActivePerKind'
  BY DEF OneActivePerKind, Active

LEMMA ArchiveKept ==
  ASSUME ArchiveInv, summarised \subseteq summarised',
         \A i \in Told :
            /\ items'[i].status = "archived" => items[i].status = "archived" \/ i \in summarised'
            /\ Exists(i)' => items'[i].kind \in Kinds,
         \A a \in Actors : actor'[a] = actor[a] \/ EditOk(a)',
         job'.stage = "mark" => job'.todo \subseteq summarised'
  PROVE  ArchiveInv'
  <1>1. ArchivedIsSummarised' /\ KindsInv'
    BY DEF ArchiveInv, ArchivedIsSummarised, KindsInv
  <1>2. ASSUME NEW a \in Actors PROVE EditOk(a)'
    BY DEF ArchiveInv, EditOk
  <1> QED
    BY <1>1, <1>2 DEF ArchiveInv

\* Whatever does not touch a memory, its evidence or who is under way for it.
LEMMA FollowsKept ==
  ASSUME NEW i \in Ids, Follows(i), items'[i] = items[i], evidence'[i] = evidence[i],
         i \in unsure => i \in unsure',
         \A a \in Actors : actor[a].id = i => \/ actor'[a] = actor[a]
                                              \/ actor[a].pc \in {"idle", "edit"}
                                              \/ actor[a].pc # "deleted" /\ ~Exists(i)
  PROVE  Follows(i)'
  <1>1. CASE i \in unsure \/ Matches(i)
    BY <1>1 DEF Follows, Matches, Exists
  <1>2. ASSUME NEW a \in Actors, Changed(a, i) \/ Copying(a, i) \/ Deleting(a, i)
        PROVE  Follows(i)'
    <2>1. actor'[a] = actor[a]
      BY <1>2 DEF Changed, Copying, Deleting
    <2>2. Changed(a, i)' \/ Copying(a, i)' \/ Deleting(a, i)'
      BY <1>2, <2>1 DEF Changed, Copying, Deleting, Exists
    <2> QED
      BY <2>2 DEF Follows
  <1> QED
    BY <1>1, <1>2 DEF Follows

\* A thread that has just changed the row goes on to its evidence.
LEMMA ChangeFollows ==
  ASSUME TypeOK, \A j \in Ids : Follows(j),
         NEW a \in Actors, NEW i \in Ids, NEW p, p.id = i, p.pc = "changed",
         actor[a].pc \in {"idle", "edit"}, actor' = [actor EXCEPT ![a] = p],
         evidence' = evidence, unsure' = unsure,
         \A j \in Ids \ {i} : items'[j] = items[j],
         Exists(i)' \/ items'[i] = items[i]
  PROVE  \A j \in Ids : Follows(j)'
  <1>0. DOMAIN actor = Actors
    BY DEF TypeOK
  <1>1. actor'[a] = p /\ \A b \in Actors \ {a} : actor'[b] = actor[b]
    BY <1>0
  <1>2. ASSUME NEW j \in Ids, items'[j] = items[j] PROVE Follows(j)'
    BY <1>1, <1>2, FollowsKept
  <1>3. ASSUME Exists(i)' PROVE Follows(i)'
    <2>1. Changed(a, i)'
      BY <1>1, <1>3 DEF Changed
    <2> QED
      BY <2>1 DEF Follows
  <1> QED
    BY <1>2, <1>3

\* The worker writes a summary and goes on to its evidence.
LEMMA SummaryFollows ==
  ASSUME TypeOK, \A j \in Ids : Follows(j), NEW d \in Derived, NEW S \in SUBSET Told,
         PutSummary(d, S), actor["worker"].pc = "idle", evidence' = evidence, unsure' = unsure
  PROVE  /\ \A j \in Ids : Follows(j)'
         /\ actor'["worker"].pc = "syncing" /\ actor'["worker"].seen = "active"
         /\ \A b \in Actors \ {"worker"} : actor'[b] = actor[b]
         /\ \A j \in Told : items'[j] = items[j]
  <1>0. DOMAIN actor = Actors /\ DOMAIN items = Ids /\ d \in Ids
    BY IdsAre DEF TypeOK
  <1> DEFINE p == [Rest EXCEPT !.pc = "syncing", !.id = d, !.seen = "active"]
             q == [NoRow EXCEPT !.status = "active", !.kind = "summary", !.src = S]
  <1>1. actor' = [actor EXCEPT !["worker"] = p] /\ items' = [items EXCEPT ![d] = q]
    BY DEF PutSummary
  <1>2. p.pc = "syncing" /\ p.id = d /\ p.seen = "active"
    BY DEF Rest
  <1>4. q.status = "active"
    BY DEF NoRow
  <1> HIDE DEF p, q
  <1>3. actor'["worker"] = p /\ \A b \in Actors \ {"worker"} : actor'[b] = actor[b]
    BY <1>0, <1>1, IdsAre
  <1>5. items'[d].status = "active" /\ \A j \in Ids \ {d} : items'[j] = items[j]
    BY <1>0, <1>1, <1>4
  <1>6. Copying("worker", d)'
    BY <1>2, <1>3, <1>5 DEF Copying, Exists, Statuses
  <1>7. Follows(d)'
    BY <1>6, IdsAre DEF Follows
  <1>8. ASSUME NEW j \in Ids \ {d} PROVE Follows(j)'
    BY <1>3, <1>5, FollowsKept
  <1>9. \A j \in Told : j \in Ids \ {d}
    BY IdsAre
  <1> QED
    BY <1>2, <1>3, <1>5, <1>7, <1>8, <1>9
-----------------------------------------------------------------------------
(* One lemma for each action. *)

Kept == OneActivePerKind' /\ ArchiveInv' /\ EvidenceInv'

LEMMA RememberKeeps ==
  ASSUME MemoryInv, NEW i \in Told, NEW k \in Kinds, NEW t \in Texts,
         NEW akin \in SUBSET Told, Remember(i, k, t, akin)
  PROVE  Kept
  <1> DEFINE family == {j \in Active(Told) : SameMemoryFamily(items[j].kind, k)}
             equal  == {j \in family : items[j].text = t}
             before == IF equal = {} THEN family ELSE {j \in family : j < Min(equal)}
             gone   == {j \in before : Related(j, k, akin)}
             new    == IF equal = {} THEN {i} ELSE {}
             row    == [status |-> "active", kind |-> k, text |-> t, src |-> {}]
  <1>1. /\ items' = [j \in Ids |->
                      IF j \in gone THEN [items[j] EXCEPT !.status = "superseded"]
                      ELSE IF j \in new THEN row ELSE items[j]]
        /\ evidence' = [j \in Ids |-> IF j \in gone THEN "superseded"
                                     ELSE IF j \in new THEN "active" ELSE evidence[j]]
        /\ unsure' = unsure \ (gone \cup new)
        /\ edited' = edited \ gone
        /\ UNCHANGED <<actor, job, done, summarised>>
    BY DEF Remember, WriteMemory
  <1>2. gone \subseteq Active(Told) /\ new \subseteq {i} /\ i \notin gone
    <2>1. items[i].status = "none"
      <3>1. items[i] = NoRow
        BY DEF Remember
      <3>2. NoRow.status = "none"
        BY DEF NoRow
      <3> QED
        BY <3>1, <3>2
    <2>2. new \subseteq {i} /\ family \subseteq Active(Told) /\ gone \subseteq before
      OBVIOUS
    <2>3. before \subseteq family
      <3> HIDE DEF family, equal
      <3> QED
        OBVIOUS
    <2>4. gone \subseteq Active(Told)
      <3> HIDE DEF family, before, gone
      <3> QED
        BY <2>2, <2>3
    <2> QED
      BY <2>1, <2>2, <2>4 DEF Active
  <1>3. \A j \in Active(Told) : new # {} /\ items[j].kind = k => j \in gone
    BY DEF Related, SameMemoryFamily
  <1>4. row.status = "active" /\ row.kind = k
    OBVIOUS
  <1>5. items \in [Ids -> Rows] /\ Told \subseteq Ids
    BY IdsAre DEF MemoryInv, TypeOK
  <1> HIDE DEF gone, new, row
  <1>6. \A j \in Ids : items'[j] = IF j \in gone THEN [items[j] EXCEPT !.status = "superseded"]
                                  ELSE IF j \in new THEN row ELSE items[j]
    BY <1>1
  <1>7. \A j \in gone : /\ j \in Told /\ items[j].status = "active" /\ items'[j].status = "superseded"
                        /\ items'[j].kind = items[j].kind
    <2>1. ASSUME NEW j \in gone
          PROVE  /\ j \in Told /\ items[j].status = "active" /\ items'[j].status = "superseded"
                 /\ items'[j].kind = items[j].kind
      <3>1. j \in Told /\ items[j].status = "active" /\ items[j] \in Rows
        BY <1>2, <1>5 DEF Active
      <3>2. items'[j] = [items[j] EXCEPT !.status = "superseded"]
        BY <1>5, <1>6, <3>1
      <3> QED
        BY <3>1, <3>2 DEF Rows
    <2> QED
      BY <2>1
  <1>8. \A j \in Ids \ gone : \/ j = i /\ j \in new /\ items'[j].status = "active" /\ items'[j].kind = k
                              \/ items'[j] = items[j]
    BY <1>2, <1>4, <1>6
  <1>9. OneActivePerKind'
    <2>1. SUFFICES ASSUME NEW j \in Told, NEW l \in Told, j \notin edited', l \notin edited',
                          items'[j].status = "active", items'[l].status = "active",
                          items'[j].kind = items'[l].kind
                   PROVE  j = l
      BY DEF OneActivePerKind, Active
    <2>2. j \notin gone /\ l \notin gone
      BY <1>7, <2>1
    <2>3. j \notin edited /\ l \notin edited
      BY <1>1, <2>1, <2>2
    <2>4. CASE items'[j] = items[j] /\ items'[l] = items[l]
      BY <2>1, <2>3, <2>4 DEF MemoryInv, OneActivePerKind, Active
    <2>5. CASE new # {}
      <3>1. ASSUME NEW m \in Told \ gone, items'[m].status = "active", items'[m].kind = k
            PROVE  m = i
        BY <1>3, <1>5, <1>8, <2>5, <3>1 DEF Active
      <3>2. CASE items'[j].kind = k
        BY <2>1, <2>2, <3>1, <3>2
      <3>3. CASE items'[j].kind # k
        BY <1>5, <1>8, <2>1, <2>2, <2>4, <3>3
      <3> QED
        BY <3>2, <3>3
    <2> QED
      BY <1>5, <1>8, <2>2, <2>4, <2>5
  <1>10. ArchiveInv'
    <2>1. \A j \in Told :
            /\ items'[j].status = "archived" => items[j].status = "archived" \/ j \in summarised'
            /\ Exists(j)' => items'[j].kind \in Kinds
      <3>1. ASSUME NEW j \in Told, j \in gone
            PROVE  /\ items'[j].status # "archived" /\ items'[j].kind \in Kinds
        BY <1>7, <3>1 DEF MemoryInv, ArchiveInv, KindsInv, Exists, Statuses
      <3>2. ASSUME NEW j \in Told, j \notin gone
            PROVE  /\ items'[j].status = "archived" => items[j].status = "archived"
                   /\ Exists(j)' => items'[j].kind \in Kinds
        BY <1>5, <1>8, <3>2 DEF MemoryInv, ArchiveInv, KindsInv, Exists
      <3> QED
        BY <3>1, <3>2
    <2>2. job.stage = "mark" => job.todo \subseteq summarised
      BY DEF MemoryInv, ArchiveInv
    <2> QED
      BY <1>1, <2>1, <2>2, ArchiveKept DEF MemoryInv
  <1>11. EvidenceInv'
    <2>1. ASSUME NEW j \in Ids, j \in gone PROVE Follows(j)'
      <3>1. evidence'[j] = "superseded" /\ items'[j].status = "superseded"
        BY <1>1, <1>7, <2>1
      <3> QED
        BY <3>1 DEF Follows, Matches, Exists, Statuses
    <2>2. ASSUME NEW j \in Ids, j \notin gone, j \in new PROVE Follows(j)'
      <3>1. evidence'[j] = "active" /\ items'[j].status = "active"
        BY <1>1, <1>4, <1>6, <2>2
      <3> QED
        BY <3>1 DEF Follows, Matches, Exists, Statuses
    <2>3. ASSUME NEW j \in Ids, j \notin gone, j \notin new PROVE Follows(j)'
      <3>1. items'[j] = items[j] /\ evidence'[j] = evidence[j] /\ (j \in unsure => j \in unsure')
        BY <1>1, <1>6, <2>3
      <3>2. Follows(j)
        BY DEF MemoryInv, EvidenceInv
      <3> QED
        BY <1>1, <3>1, <3>2, FollowsKept
    <2> QED
      BY <1>1, <2>1, <2>2, <2>3 DEF MemoryInv, EvidenceInv
  <1> QED
    BY <1>9, <1>10, <1>11 DEF Kept

LEMMA InvTypes ==
  ASSUME MemoryInv
  PROVE  /\ items \in [Ids -> Rows] /\ actor \in [Actors -> Doing] /\ job \in Jobs
         /\ evidence \in [Ids -> Statuses \cup {"none"}]
         /\ Told \subseteq Ids /\ Threads \subseteq Actors /\ "worker" \in Actors
         /\ \A a \in Threads : a # "worker"
         /\ \A j \in Ids : Follows(j)
         /\ \A a \in Actors : actor[a].id \in Ids
  <1>1. /\ items \in [Ids -> Rows] /\ actor \in [Actors -> Doing] /\ job \in Jobs
        /\ evidence \in [Ids -> Statuses \cup {"none"}]
    BY DEF MemoryInv, TypeOK, Doing, Jobs
  <1> QED
    BY <1>1, IdsAre, MemoryAssumption DEF MemoryInv, EvidenceInv, Doing

\* One row gets another status that is not the active one; the thread goes on.
LEMMA StatusKeeps ==
  ASSUME MemoryInv, NEW a \in Actors, NEW i \in Ids,
         NEW s \in {"forgotten", "superseded", "archived"},
         s = "archived" /\ i \in Told => i \in summarised,
         Exists(i), actor[a].pc = "idle",
         items' = [items EXCEPT ![i] = [items[i] EXCEPT !.status = s]],
         actor' = [actor EXCEPT ![a] = [Rest EXCEPT !.pc = "changed", !.id = i]],
         edited' \in {edited, edited \ {i}},
         job'.stage = job.stage, job'.todo \subseteq job.todo,
         UNCHANGED <<evidence, summarised, unsure>>,
         job.stage = "l2" => a # "worker"
  PROVE  Kept
  <1> DEFINE p == [Rest EXCEPT !.pc = "changed", !.id = i]
             q == [items[i] EXCEPT !.status = s]
  <1>0. items \in [Ids -> Rows] /\ actor \in [Actors -> Doing] /\ Told \subseteq Ids
        /\ \A j \in Ids : Follows(j)
    BY InvTypes
  <1>1. p.pc = "changed" /\ p.id = i
    BY DEF Rest
  <1>r. items[i] \in Rows
    BY <1>0
  <1>2. q.status = s /\ q.kind = items[i].kind
    BY <1>r DEF Rows
  <1> HIDE DEF p, q
  <1>3. actor' = [actor EXCEPT ![a] = p] /\ items' = [items EXCEPT ![i] = q]
    BY DEF p, q
  <1>4. items'[i] = q /\ \A j \in Ids \ {i} : items'[j] = items[j]
    BY <1>0, <1>3
  <1>5. actor'[a] = p /\ \A b \in Actors \ {a} : actor'[b] = actor[b]
    BY <1>0, <1>3
  <1>6. OneActivePerKind'
    <2>1. ASSUME NEW j \in Told, items'[j].status = "active"
          PROVE  items'[j] = items[j] /\ (j \in edited => j \in edited')
      BY <1>0, <1>2, <1>4, <2>1
    <2> QED
      BY <2>1, OneActiveKept DEF MemoryInv
  <1>7. ArchiveInv'
    <2>1. ASSUME NEW j \in Told
          PROVE  /\ items'[j].status = "archived" => items[j].status = "archived" \/ j \in summarised'
                 /\ Exists(j)' => items'[j].kind \in Kinds
      BY <1>0, <1>2, <1>4 DEF MemoryInv, ArchiveInv, KindsInv, Exists
    <2>2. \A b \in Actors : actor'[b] = actor[b] \/ EditOk(b)'
      BY <1>1, <1>5 DEF EditOk
    <2>3. job'.stage = "mark" => job'.todo \subseteq summarised'
      BY DEF MemoryInv, ArchiveInv
    <2> QED
      BY <2>1, <2>2, <2>3, ArchiveKept DEF MemoryInv
  <1>8. EvidenceInv'
    <2>1. Exists(i)'
      BY <1>2, <1>4 DEF Exists, Statuses
    <2>2. \A j \in Ids : Follows(j)'
      <3>1. TypeOK /\ evidence' = evidence /\ unsure' = unsure /\ actor[a].pc \in {"idle", "edit"}
        BY DEF MemoryInv
      <3>2. actor' = [actor EXCEPT ![a] = p]
        BY <1>3
      <3> QED
        BY <1>0, <1>1, <1>4, <2>1, <3>1, <3>2, ChangeFollows
    <2>3. \A b \in Actors : actor'[b].pc = "syncing" => actor'[b].seen \in Statuses
      BY <1>1, <1>5 DEF MemoryInv, EvidenceInv
    <2>4. job'.stage = "l2" => actor'["worker"].pc = "idle"
      BY <1>5, InvTypes DEF MemoryInv, EvidenceInv
    <2> QED
      BY <2>2, <2>3, <2>4 DEF EvidenceInv
  <1> QED
    BY <1>6, <1>7, <1>8 DEF Kept

\* No row of a chat's memory changes.
LEMMA RowsStill ==
  ASSUME MemoryInv, \A j \in Told : items'[j] = items[j], edited' = edited,
         summarised \subseteq summarised',
         \A a \in Actors : actor'[a] = actor[a] \/ actor'[a].pc # "edit",
         job'.stage = "mark" => job'.todo \subseteq summarised'
  PROVE  OneActivePerKind' /\ ArchiveInv'
  <1>1. OneActivePerKind'
    BY OneActiveKept DEF MemoryInv
  <1>2. \A a \in Actors : actor'[a] = actor[a] \/ EditOk(a)'
    BY DEF EditOk
  <1>3. \A j \in Told :
            /\ items'[j].status = "archived" => items[j].status = "archived" \/ j \in summarised'
            /\ Exists(j)' => items'[j].kind \in Kinds
    BY DEF MemoryInv, ArchiveInv, KindsInv, Exists
  <1> QED
    BY <1>1, <1>2, <1>3, ArchiveKept DEF MemoryInv

LEMMA HardDeleteKeeps ==
  ASSUME MemoryInv, NEW a \in Threads, NEW i \in Ids, HardDelete(a, i)
  PROVE  Kept
  <1> DEFINE p == [Rest EXCEPT !.pc = "deleted", !.id = i]
             q == [NoRow EXCEPT !.status = "deleted"]
  <1>0. /\ items \in [Ids -> Rows] /\ actor \in [Actors -> Doing] /\ Told \subseteq Ids
        /\ a \in Actors /\ a # "worker" /\ \A j \in Ids : Follows(j)
    BY InvTypes
  <1>1. p.pc = "deleted" /\ p.id = i
    BY DEF Rest
  <1>2. q.status = "deleted"
    BY DEF NoRow
  <1>3. actor' = [actor EXCEPT ![a] = p] /\ items' = [items EXCEPT ![i] = q]
        /\ edited' = edited \ {i} /\ UNCHANGED <<evidence, job, summarised, unsure>>
        /\ actor[a].pc = "idle"
    BY DEF HardDelete, Request
  <1> HIDE DEF p, q
  <1>4. items'[i] = q /\ \A j \in Ids \ {i} : items'[j] = items[j]
    BY <1>0, <1>3
  <1>5. actor'[a] = p /\ \A b \in Actors \ {a} : actor'[b] = actor[b]
    BY <1>0, <1>3
  <1>6. OneActivePerKind'
    <2>1. ASSUME NEW j \in Told, items'[j].status = "active"
          PROVE  items'[j] = items[j] /\ (j \in edited => j \in edited')
      BY <1>0, <1>2, <1>3, <1>4, <2>1
    <2> QED
      BY <2>1, OneActiveKept DEF MemoryInv
  <1>7. ArchiveInv'
    <2>1. ASSUME NEW j \in Told
          PROVE  /\ items'[j].status = "archived" => items[j].status = "archived" \/ j \in summarised'
                 /\ Exists(j)' => items'[j].kind \in Kinds
      BY <1>0, <1>2, <1>4 DEF MemoryInv, ArchiveInv, KindsInv, Exists, Statuses
    <2>2. \A b \in Actors : actor'[b] = actor[b] \/ EditOk(b)'
      BY <1>1, <1>5 DEF EditOk
    <2>3. job'.stage = "mark" => job'.todo \subseteq summarised'
      BY <1>3 DEF MemoryInv, ArchiveInv
    <2> QED
      BY <1>3, <2>1, <2>2, <2>3, ArchiveKept DEF MemoryInv
  <1>8. EvidenceInv'
    <2>1. ASSUME NEW j \in Ids PROVE Follows(j)'
      <3>1. CASE j = i
        BY <1>0, <1>1, <1>5, <3>1 DEF Follows, Deleting
      <3>2. CASE j # i
        BY <1>0, <1>3, <1>4, <1>5, <3>2, FollowsKept
      <3> QED
        BY <3>1, <3>2
    <2>2. \A b \in Actors : actor'[b].pc = "syncing" => actor'[b].seen \in Statuses
      BY <1>1, <1>5 DEF MemoryInv, EvidenceInv
    <2>3. job'.stage = "l2" => actor'["worker"].pc = "idle"
      BY <1>0, <1>3, <1>5, InvTypes DEF MemoryInv, EvidenceInv
    <2> QED
      BY <2>1, <2>2, <2>3 DEF EvidenceInv
  <1> QED
    BY <1>6, <1>7, <1>8 DEF Kept

LEMMA ReadForUpdateKeeps ==
  ASSUME MemoryInv, NEW a \in Threads, NEW i \in Told, NEW k \in Kinds \cup {"same"},
         NEW t \in Texts \cup {"same"}, NEW s \in {"same", "active", "forgotten"},
         ReadForUpdate(a, i, k, t, s)
  PROVE  Kept
  <1> DEFINE e == [items[i] EXCEPT
                        !.kind = IF k = "same" THEN @ ELSE k,
                        !.text = IF t = "same" THEN @ ELSE t,
                        !.status = IF s = "same" THEN @ ELSE s]
             p == [pc |-> "edit", id |-> i, seen |-> "none", edit |-> e]
  <1>0. /\ items \in [Ids -> Rows] /\ actor \in [Actors -> Doing] /\ Told \subseteq Ids
        /\ a \in Actors /\ a # "worker" /\ \A j \in Ids : Follows(j)
    BY InvTypes
  <1>1. p.pc = "edit" /\ p.id = i /\ p.edit = e
    OBVIOUS
  <1>2. items[i] \in Rows /\ Exists(i)
    BY <1>0 DEF ReadForUpdate, Request
  <1>3. /\ e.status = IF s = "same" THEN items[i].status ELSE s
        /\ e.kind = IF k = "same" THEN items[i].kind ELSE k
    BY <1>2 DEF Rows
  <1>4. actor' = [actor EXCEPT ![a] = p] /\ actor[a].pc = "idle"
        /\ UNCHANGED <<items, evidence, job, summarised, edited, unsure>>
    BY DEF ReadForUpdate, Request
  <1> HIDE DEF p, e
  <1>5. actor'[a] = p /\ \A b \in Actors \ {a} : actor'[b] = actor[b]
    BY <1>0, <1>4
  <1>6. OneActivePerKind'
    BY <1>4, OneActiveKept DEF MemoryInv
  <1>7. ArchiveInv'
    <2>1. e.status \in Statuses /\ e.kind \in Kinds
      BY <1>2, <1>3 DEF MemoryInv, ArchiveInv, KindsInv, Exists, Statuses
    <2>2. e.status = "archived" => i \in summarised
      BY <1>3 DEF MemoryInv, ArchiveInv, ArchivedIsSummarised
    <2>3. \A b \in Actors : actor'[b] = actor[b] \/ EditOk(b)'
      BY <1>1, <1>4, <1>5, <2>1, <2>2 DEF EditOk
    <2>4. \A j \in Told :
            /\ items'[j].status = "archived" => items[j].status = "archived" \/ j \in summarised'
            /\ Exists(j)' => items'[j].kind \in Kinds
      BY <1>4 DEF MemoryInv, ArchiveInv, KindsInv, Exists
    <2>5. job'.stage = "mark" => job'.todo \subseteq summarised'
      BY <1>4 DEF MemoryInv, ArchiveInv
    <2> QED
      BY <1>4, <2>3, <2>4, <2>5, ArchiveKept DEF MemoryInv
  <1>8. EvidenceInv'
    <2>1. ASSUME NEW j \in Ids PROVE Follows(j)'
      BY <1>0, <1>4, <1>5, FollowsKept
    <2>2. \A b \in Actors : actor'[b].pc = "syncing" => actor'[b].seen \in Statuses
      BY <1>1, <1>5 DEF MemoryInv, EvidenceInv
    <2>3. job'.stage = "l2" => actor'["worker"].pc = "idle"
      BY <1>0, <1>4, <1>5, InvTypes DEF MemoryInv, EvidenceInv
    <2> QED
      BY <2>1, <2>2, <2>3 DEF EvidenceInv
  <1> QED
    BY <1>6, <1>7, <1>8 DEF Kept

LEMMA WriteUpdateKeeps ==
  ASSUME MemoryInv, NEW a \in Threads, WriteUpdate(a)
  PROVE  Kept
  <1>p. PICK i \in Ids : i = actor[a].id
    BY InvTypes
  <1> DEFINE e == actor[a].edit
             p == [Rest EXCEPT !.pc = "changed", !.id = i]
             q == [e EXCEPT !.src = items[i].src]
  <1>0. /\ items \in [Ids -> Rows] /\ actor \in [Actors -> Doing] /\ Told \subseteq Ids
        /\ a \in Actors /\ a # "worker" /\ \A j \in Ids : Follows(j)
    BY InvTypes
  <1>1. p.pc = "changed" /\ p.id = i
    BY DEF Rest
  <1>2. actor[a].pc = "edit" /\ e \in Rows
    BY <1>0 DEF WriteUpdate, Doing
  <1>3. i \in Told /\ e.status \in Statuses /\ e.kind \in Kinds
        /\ (e.status = "archived" => i \in summarised)
    BY <1>0, <1>2, <1>p DEF MemoryInv, ArchiveInv, EditOk
  <1>4. q.status = e.status /\ q.kind = e.kind
    BY <1>2 DEF Rows
  <1>5. /\ items' = IF Exists(i) THEN [items EXCEPT ![i] = q] ELSE items
        /\ edited' = IF Exists(i) /\ (e.kind # items[i].kind \/ e.status # items[i].status)
                     THEN edited \cup {i} ELSE edited
        /\ actor' = [actor EXCEPT ![a] = p]
        /\ UNCHANGED <<evidence, job, done, summarised, unsure>>
    BY <1>p DEF WriteUpdate
  <1> HIDE DEF p, q, e
  <1>6. items'[i] = (IF Exists(i) THEN q ELSE items[i]) /\ \A j \in Ids \ {i} : items'[j] = items[j]
    BY <1>0, <1>5
  <1>7. actor'[a] = p /\ \A b \in Actors \ {a} : actor'[b] = actor[b]
    BY <1>0, <1>5
  <1>8. OneActivePerKind'
    <2>1. ASSUME NEW j \in Told, items'[j].status = "active"
          PROVE  \/ j \in edited'
                 \/ /\ items[j].status = "active" /\ items'[j].kind = items[j].kind
                    /\ j \in edited => j \in edited'
      <3>1. CASE j # i
        BY <1>0, <1>5, <1>6, <2>1, <3>1
      <3>2. CASE j = i
        BY <1>4, <1>5, <1>6, <2>1, <3>2
      <3> QED
        BY <3>1, <3>2
    <2> QED
      BY <2>1, OneActiveKept DEF MemoryInv
  <1>9. ArchiveInv'
    <2>1. ASSUME NEW j \in Told
          PROVE  /\ items'[j].status = "archived" => items[j].status = "archived" \/ j \in summarised'
                 /\ Exists(j)' => items'[j].kind \in Kinds
      <3>1. CASE items'[j] = items[j]
        BY <3>1 DEF MemoryInv, ArchiveInv, KindsInv, Exists
      <3>2. CASE j = i /\ items'[j] = q
        BY <1>3, <1>4, <1>5, <3>2
      <3> QED
        BY <1>0, <1>6, <3>1, <3>2
    <2>2. \A b \in Actors : actor'[b] = actor[b] \/ EditOk(b)'
      BY <1>1, <1>7 DEF EditOk
    <2>3. job'.stage = "mark" => job'.todo \subseteq summarised'
      BY <1>5 DEF MemoryInv, ArchiveInv
    <2> QED
      BY <1>5, <2>1, <2>2, <2>3, ArchiveKept DEF MemoryInv
  <1>10. EvidenceInv'
    <2>1. Exists(i)' \/ items'[i] = items[i]
      BY <1>3, <1>4, <1>6 DEF Exists
    <2>2. \A j \in Ids : Follows(j)'
      <3>1. TypeOK /\ evidence' = evidence /\ unsure' = unsure /\ actor[a].pc \in {"idle", "edit"}
        BY <1>2, <1>5 DEF MemoryInv
      <3>2. actor' = [actor EXCEPT ![a] = p]
        BY <1>5
      <3> QED
        BY <1>0, <1>1, <1>6, <2>1, <3>1, <3>2, ChangeFollows
    <2>3. \A b \in Actors : actor'[b].pc = "syncing" => actor'[b].seen \in Statuses
      BY <1>1, <1>7 DEF MemoryInv, EvidenceInv
    <2>4. job'.stage = "l2" => actor'["worker"].pc = "idle"
      BY <1>0, <1>5, <1>7, InvTypes DEF MemoryInv, EvidenceInv
    <2> QED
      BY <2>2, <2>3, <2>4 DEF EvidenceInv
  <1> QED
    BY <1>8, <1>9, <1>10 DEF Kept

LEMMA DeleteEvidenceKeeps ==
  ASSUME MemoryInv, NEW a \in Threads, DeleteEvidence(a)
  PROVE  Kept
  <1>p. PICK i \in Ids : i = actor[a].id
    BY InvTypes
  <1>0. /\ actor \in [Actors -> Doing] /\ evidence \in [Ids -> Statuses \cup {"none"}]
        /\ a \in Actors /\ a # "worker" /\ \A j \in Ids : Follows(j)
    BY InvTypes
  <1>1. /\ evidence' = [evidence EXCEPT ![i] = "none"]
        /\ unsure' = IF Exists(i) THEN unsure \cup {i} ELSE unsure \ {i}
        /\ actor' = [actor EXCEPT ![a] = [actor[a] EXCEPT !.pc = "idle"]]
        /\ UNCHANGED <<items, job, done, summarised, edited>>
    BY <1>p DEF DeleteEvidence, Does
  <1>2. actor'[a].pc = "idle" /\ \A b \in Actors \ {a} : actor'[b] = actor[b]
    <2>1. actor[a] \in Doing
      BY <1>0
    <2> QED
      BY <1>0, <1>1, <2>1 DEF Doing
  <1>3. job'.stage = "mark" => job'.todo \subseteq summarised'
    BY <1>1 DEF MemoryInv, ArchiveInv
  <1>4. OneActivePerKind' /\ ArchiveInv'
    BY <1>1, <1>2, <1>3, RowsStill
  <1>5. ASSUME NEW j \in Ids PROVE Follows(j)'
    <2>1. CASE j = i
      <3>1. CASE Exists(i)
        BY <1>1, <2>1, <3>1 DEF Follows
      <3>2. CASE ~Exists(i)
        BY <1>0, <1>1, <2>1, <3>2 DEF Follows, Matches, Exists
      <3> QED
        BY <3>1, <3>2
    <2>2. CASE j # i
      BY <1>0, <1>1, <1>2, <1>p, <2>2, FollowsKept
    <2> QED
      BY <2>1, <2>2
  <1>6. \A b \in Actors : actor'[b].pc = "syncing" => actor'[b].seen \in Statuses
    BY <1>2 DEF MemoryInv, EvidenceInv
  <1>7. job'.stage = "l2" => actor'["worker"].pc = "idle"
    BY <1>0, <1>1, <1>2, InvTypes DEF MemoryInv, EvidenceInv
  <1> QED
    BY <1>4, <1>5, <1>6, <1>7 DEF Kept, EvidenceInv

LEMMA SyncReadKeeps ==
  ASSUME MemoryInv, NEW a \in Actors, SyncRead(a)
  PROVE  Kept
  <1>p. PICK i \in Ids : i = actor[a].id
    BY InvTypes
  <1> DEFINE p == IF Exists(i) THEN [actor[a] EXCEPT !.pc = "syncing", !.seen = items[i].status]
                  ELSE Rest
  <1>0. actor \in [Actors -> Doing] /\ \A j \in Ids : Follows(j)
    BY InvTypes
  <1>1. /\ actor' = [actor EXCEPT ![a] = p] /\ actor[a].pc = "changed"
        /\ UNCHANGED <<items, evidence, job, done, summarised, edited, unsure>>
    BY <1>p DEF SyncRead
  <1>2. /\ Exists(i) => p.pc = "syncing" /\ p.seen = items[i].status /\ p.id = i
        /\ ~Exists(i) => p.pc = "idle"
    <2>1. actor[a] \in Doing
      BY <1>0
    <2>2. Rest.pc = "idle"
      BY DEF Rest
    <2> QED
      BY <1>p, <2>1, <2>2 DEF Doing
  <1> HIDE DEF p
  <1>3. actor'[a] = p /\ \A b \in Actors \ {a} : actor'[b] = actor[b]
    BY <1>0, <1>1
  <1>4. OneActivePerKind' /\ ArchiveInv'
    <2>1. job'.stage = "mark" => job'.todo \subseteq summarised'
      BY <1>1 DEF MemoryInv, ArchiveInv
    <2>2. \A b \in Actors : actor'[b] = actor[b] \/ actor'[b].pc # "edit"
      BY <1>2, <1>3
    <2> QED
      BY <1>1, <2>1, <2>2, RowsStill
  <1>5. ASSUME NEW j \in Ids PROVE Follows(j)'
    <2>1. CASE j = i /\ Exists(i)
      <3>1. Copying(a, i)'
        BY <1>1, <1>2, <1>3, <2>1 DEF Copying, Exists
      <3> QED
        BY <2>1, <3>1 DEF Follows
    <2>2. CASE j # i \/ ~Exists(i)
      BY <1>0, <1>1, <1>3, <1>p, <2>2, FollowsKept
    <2> QED
      BY <2>1, <2>2
  <1>6. \A b \in Actors : actor'[b].pc = "syncing" => actor'[b].seen \in Statuses
    BY <1>2, <1>3 DEF MemoryInv, EvidenceInv, Exists
  <1>7. job'.stage = "l2" => actor'["worker"].pc = "idle"
    BY <1>1, <1>3, InvTypes DEF MemoryInv, EvidenceInv
  <1> QED
    BY <1>4, <1>5, <1>6, <1>7 DEF Kept, EvidenceInv

LEMMA SyncWriteKeeps ==
  ASSUME MemoryInv, NEW a \in Actors, SyncWrite(a)
  PROVE  Kept
  <1>p. PICK i \in Ids : i = actor[a].id
    BY InvTypes
  <1>0. /\ actor \in [Actors -> Doing] /\ evidence \in [Ids -> Statuses \cup {"none"}]
        /\ \A j \in Ids : Follows(j)
    BY InvTypes
  <1>1. /\ evidence' = [evidence EXCEPT ![i] = actor[a].seen] /\ actor[a].pc = "syncing"
        /\ unsure' = IF items[i].status = actor[a].seen THEN unsure \ {i} ELSE unsure \cup {i}
        /\ actor' = [actor EXCEPT ![a] = Rest]
        /\ UNCHANGED <<items, job, done, summarised, edited>>
    BY <1>p DEF SyncWrite, Upserted
  <1>2. actor'[a].pc = "idle" /\ \A b \in Actors \ {a} : actor'[b] = actor[b]
    <2>1. Rest.pc = "idle"
      BY DEF Rest
    <2> QED
      BY <1>0, <1>1, <2>1
  <1>3. actor[a].seen \in Statuses
    BY <1>1 DEF MemoryInv, EvidenceInv
  <1>4. OneActivePerKind' /\ ArchiveInv'
    <2>1. job'.stage = "mark" => job'.todo \subseteq summarised'
      BY <1>1 DEF MemoryInv, ArchiveInv
    <2> QED
      BY <1>1, <1>2, <2>1, RowsStill
  <1>5. ASSUME NEW j \in Ids PROVE Follows(j)'
    <2>1. CASE j = i
      <3>1. CASE items[i].status = actor[a].seen
        <4>1. evidence'[i] = items'[i].status /\ items'[i].status \in Statuses
          BY <1>0, <1>1, <1>3, <3>1
        <4> QED
          BY <2>1, <4>1 DEF Follows, Matches, Exists
      <3>2. CASE items[i].status # actor[a].seen
        BY <1>1, <2>1, <3>2 DEF Follows
      <3> QED
        BY <3>1, <3>2
    <2>2. CASE j # i
      BY <1>0, <1>1, <1>2, <1>p, <2>2, FollowsKept
    <2> QED
      BY <2>1, <2>2
  <1>6. \A b \in Actors : actor'[b].pc = "syncing" => actor'[b].seen \in Statuses
    BY <1>2 DEF MemoryInv, EvidenceInv
  <1>7. job'.stage = "l2" => actor'["worker"].pc = "idle"
    BY <1>1, <1>2, InvTypes DEF MemoryInv, EvidenceInv
  <1> QED
    BY <1>4, <1>5, <1>6, <1>7 DEF Kept, EvidenceInv

LEMMA CrashKeeps ==
  ASSUME MemoryInv, NEW a \in Actors, Crash(a)
  PROVE  Kept
  <1>p. PICK i \in Ids : i = actor[a].id
    BY InvTypes
  <1>0. actor \in [Actors -> Doing] /\ \A j \in Ids : Follows(j)
    BY InvTypes
  <1>1. /\ unsure' = IF actor[a].pc \in {"changed", "syncing", "deleted"}
                     THEN unsure \cup {i} ELSE unsure
        /\ actor' = [actor EXCEPT ![a] = Rest] /\ job' \in {NoJob, job}
        /\ UNCHANGED <<items, evidence, summarised, edited>>
    BY <1>p DEF Crash
  <1>2. actor'[a].pc = "idle" /\ \A b \in Actors \ {a} : actor'[b] = actor[b]
    <2>1. Rest.pc = "idle"
      BY DEF Rest
    <2> QED
      BY <1>0, <1>1, <2>1
  <1>3. NoJob.stage = "none"
    BY DEF NoJob
  <1>4. OneActivePerKind' /\ ArchiveInv'
    <2>1. job'.stage = "mark" => job'.todo \subseteq summarised'
      BY <1>1, <1>3 DEF MemoryInv, ArchiveInv
    <2> QED
      BY <1>1, <1>2, <2>1, RowsStill
  <1>5. ASSUME NEW j \in Ids PROVE Follows(j)'
    <2>1. CASE j = i /\ actor[a].pc \in {"changed", "syncing", "deleted"}
      BY <1>1, <2>1 DEF Follows
    <2>2. CASE j # i \/ actor[a].pc \notin {"changed", "syncing", "deleted"}
      <3>1. actor[a].pc \in {"idle", "edit", "changed", "deleted", "syncing"}
        BY <1>0 DEF Doing
      <3> QED
        BY <1>0, <1>1, <1>2, <1>p, <2>2, <3>1, FollowsKept
    <2> QED
      BY <2>1, <2>2
  <1>6. \A b \in Actors : actor'[b].pc = "syncing" => actor'[b].seen \in Statuses
    BY <1>2 DEF MemoryInv, EvidenceInv
  <1>7. job'.stage = "l2" => actor'["worker"].pc = "idle"
    BY <1>1, <1>2, <1>3, InvTypes DEF MemoryInv, EvidenceInv
  <1> QED
    BY <1>4, <1>5, <1>6, <1>7 DEF Kept, EvidenceInv

\* No row, no evidence and no thread changes: a step of the job alone.
LEMMA JobStepKeeps ==
  ASSUME MemoryInv, UNCHANGED <<items, evidence, actor, edited, unsure>>,
         summarised \subseteq summarised',
         job'.stage = "mark" => job'.todo \subseteq summarised',
         job'.stage = "l2" => actor["worker"].pc = "idle"
  PROVE  Kept
  <1>1. OneActivePerKind' /\ ArchiveInv'
    BY RowsStill
  <1>2. \A j \in Ids : Follows(j)'
    BY FollowsKept, InvTypes
  <1>3. \A b \in Actors : actor'[b].pc = "syncing" => actor'[b].seen \in Statuses
    BY DEF MemoryInv, EvidenceInv
  <1> QED
    BY <1>1, <1>2, <1>3 DEF Kept, EvidenceInv

\* A summary is written, or there is none to write.
LEMMA SummaryKeeps ==
  ASSUME MemoryInv, NEW d \in Derived, NEW S \in SUBSET Told, actor["worker"].pc = "idle",
         PutSummary(d, S) \/ UNCHANGED <<items, actor>>,
         UNCHANGED <<evidence, edited, unsure>>, summarised \subseteq summarised',
         job'.stage = "mark" => job'.todo \subseteq summarised',
         job'.stage # "l2"
  PROVE  Kept
  <1>1. CASE UNCHANGED <<items, actor>>
    BY <1>1, JobStepKeeps
  <1>2. CASE PutSummary(d, S)
    <2>1. /\ \A j \in Ids : Follows(j)'
          /\ actor'["worker"].pc = "syncing" /\ actor'["worker"].seen = "active"
          /\ \A b \in Actors \ {"worker"} : actor'[b] = actor[b]
          /\ \A j \in Told : items'[j] = items[j]
      BY <1>2, SummaryFollows, InvTypes DEF MemoryInv
    <2>2. OneActivePerKind' /\ ArchiveInv'
      BY <2>1, RowsStill
    <2>3. \A b \in Actors : actor'[b].pc = "syncing" => actor'[b].seen \in Statuses
      BY <2>1 DEF MemoryInv, EvidenceInv, Statuses
    <2> QED
      BY <2>1, <2>2, <2>3 DEF Kept, EvidenceInv
  <1> QED
    BY <1>1, <1>2

LEMMA ConsolidationKeeps ==
  ASSUME MemoryInv, Consolidate \/ LoadActive \/ WriteL2 \/ Finish
  PROVE  Kept
  <1>1. CASE Consolidate
    <2>1. job'.stage = "merge"
      BY <1>1 DEF Consolidate
    <2> QED
      BY <1>1, <2>1, JobStepKeeps DEF Consolidate
  <1>2. CASE LoadActive
    <2>1. job'.stage = "l2" /\ actor["worker"].pc = "idle"
      BY <1>2 DEF LoadActive
    <2> QED
      BY <1>2, <2>1, JobStepKeeps DEF LoadActive
  <1>3. CASE WriteL2
    <2> DEFINE S == L2Group(job.loaded)
    <2>1. S \in SUBSET Told /\ L2 \in Derived
      BY LoadedAre DEF Derived, MemoryInv
    <2>2. /\ PutSummary(L2, S) \/ UNCHANGED <<items, actor>>
          /\ job' = [job EXCEPT !.stage = "l3"] /\ job.stage = "l2"
          /\ UNCHANGED <<evidence, summarised, edited, unsure>>
      BY <1>3 DEF WriteL2
    <2> HIDE DEF S
    <2>3. job'.stage = "l3"
      BY <2>2, InvTypes DEF Jobs
    <2>4. actor["worker"].pc = "idle"
      BY <2>2 DEF MemoryInv, EvidenceInv
    <2> QED
      BY <2>1, <2>2, <2>3, <2>4, SummaryKeeps
  <1>4. CASE Finish
    <2>1. job'.stage = "none"
      BY <1>4 DEF Finish, NoJob
    <2> QED
      BY <1>4, <2>1, JobStepKeeps DEF Finish
  <1> QED
    BY <1>1, <1>2, <1>3, <1>4

LEMMA WriteL3Keeps ==
  ASSUME MemoryInv, NEW S \in SUBSET L3Group(job.loaded), WriteL3(S)
  PROVE  Kept
  <1>1. S \in SUBSET Told /\ L3 \in Derived
    BY LoadedAre DEF Derived, MemoryInv
  <1>2. /\ PutSummary(L3, S) \/ UNCHANGED <<items, actor>>
        /\ job' = [job EXCEPT !.stage = "l4"] /\ actor["worker"].pc = "idle"
        /\ UNCHANGED <<evidence, summarised, edited, unsure>>
    BY DEF WriteL3
  <1>3. job'.stage = "l4"
    BY <1>2, InvTypes DEF Jobs
  <1> QED
    BY <1>1, <1>2, <1>3, SummaryKeeps

\* What is to be archived has just been put into a summary.
LEMMA WriteArchiveKeeps ==
  ASSUME MemoryInv, NEW old \in SUBSET {i \in DOMAIN job.loaded : ShouldArchive(i)},
         NEW S \in SUBSET old, WriteArchive(old, S)
  PROVE  Kept
  <1>1. S \in SUBSET Told /\ L4 \in Derived
    BY LoadedAre DEF Derived, MemoryInv
  <1>2. /\ PutSummary(L4, S) \/ UNCHANGED <<items, actor>>
        /\ job' = [job EXCEPT !.stage = "mark", !.todo = S] /\ actor["worker"].pc = "idle"
        /\ summarised' = summarised \cup S
        /\ UNCHANGED <<evidence, edited, unsure>>
    BY DEF WriteArchive, ToArchive
  <1>3. job'.stage = "mark" /\ job'.todo = S
    BY <1>2, InvTypes DEF Jobs
  <1> QED
    BY <1>1, <1>2, <1>3, SummaryKeeps

LEMMA MergeOneKeeps ==
  ASSUME MemoryInv, NEW i \in Told, MergeOne(i)
  PROVE  Kept
  <1> DEFINE p == [Rest EXCEPT !.pc = "changed", !.id = i]
  <1>0. /\ actor \in [Actors -> Doing] /\ items \in [Ids -> Rows] /\ i \in Ids
        /\ "worker" \in Actors /\ \A j \in Ids : Follows(j)
    BY InvTypes
  <1>1. /\ job.stage = "merge" /\ actor["worker"].pc = "idle"
        /\ items' = IF Exists(i) THEN [items EXCEPT ![i] = [items[i] EXCEPT !.status = "superseded"]]
                    ELSE items
        /\ edited' = edited \ {i}
        /\ actor' = [actor EXCEPT !["worker"] = p]
        /\ job' = [job EXCEPT !.todo = @ \ {i}]
        /\ UNCHANGED <<evidence, summarised, unsure>>
    BY DEF MergeOne
  <1>2. job'.stage = "merge" /\ job'.todo \subseteq job.todo
    BY <1>1, InvTypes DEF Jobs
  <1>3. CASE Exists(i)
    BY <1>0, <1>1, <1>2, <1>3, StatusKeeps
  <1>4. CASE ~Exists(i)
    <2>1. p.pc = "changed" /\ p.id = i
      BY DEF Rest
    <2> HIDE DEF p
    <2>2. actor'["worker"] = p /\ \A b \in Actors \ {"worker"} : actor'[b] = actor[b]
      BY <1>0, <1>1
    <2>3. OneActivePerKind'
      <3>1. ASSUME NEW j \in Told, items'[j].status = "active"
            PROVE  items'[j] = items[j] /\ (j \in edited => j \in edited')
        BY <1>1, <1>4, <3>1 DEF Exists, Statuses
      <3> QED
        BY <3>1, OneActiveKept DEF MemoryInv
    <2>4. ArchiveInv'
      <3>1. \A j \in Told :
              /\ items'[j].status = "archived" => items[j].status = "archived" \/ j \in summarised'
              /\ Exists(j)' => items'[j].kind \in Kinds
        BY <1>1, <1>4 DEF MemoryInv, ArchiveInv, KindsInv, Exists
      <3>2. \A b \in Actors : actor'[b] = actor[b] \/ EditOk(b)'
        BY <2>1, <2>2 DEF EditOk
      <3> QED
        BY <1>1, <1>2, <3>1, <3>2, ArchiveKept DEF MemoryInv
    <2>5. \A j \in Ids : Follows(j)'
      BY <1>0, <1>1, <1>4, <2>2, FollowsKept
    <2>6. \A b \in Actors : actor'[b].pc = "syncing" => actor'[b].seen \in Statuses
      BY <2>1, <2>2 DEF MemoryInv, EvidenceInv
    <2> QED
      BY <1>2, <2>3, <2>4, <2>5, <2>6 DEF Kept, EvidenceInv
  <1> QED
    BY <1>3, <1>4

LEMMA MarkArchivedKeeps ==
  ASSUME MemoryInv, NEW i \in Told, MarkArchived(i)
  PROVE  Kept
  <1> DEFINE p == [Rest EXCEPT !.pc = "changed", !.id = i]
  <1>0. /\ actor \in [Actors -> Doing] /\ items \in [Ids -> Rows] /\ i \in Ids
        /\ "worker" \in Actors /\ \A j \in Ids : Follows(j)
    BY InvTypes
  <1>1. /\ job.stage = "mark" /\ actor["worker"].pc = "idle" /\ i \in job.todo
        /\ items' = IF items[i].status = "active"
                    THEN [items EXCEPT ![i] = [items[i] EXCEPT !.status = "archived"]] ELSE items
        /\ actor' = IF Exists(i) THEN [actor EXCEPT !["worker"] = p] ELSE actor
        /\ job' = [job EXCEPT !.todo = @ \ {i}]
        /\ UNCHANGED <<evidence, summarised, edited, unsure>>
    BY DEF MarkArchived, SetStatus
  <1>2. job'.stage = "mark" /\ job'.todo \subseteq job.todo
    BY <1>1, InvTypes DEF Jobs
  <1>3. i \in summarised /\ job'.todo \subseteq summarised'
    BY <1>1, <1>2 DEF MemoryInv, ArchiveInv
  <1>4. CASE items[i].status = "active"
    <2>1. Exists(i)
      BY <1>4 DEF Exists, Statuses
    <2> QED
      BY <1>0, <1>1, <1>2, <1>3, <1>4, <2>1, StatusKeeps
  <1>5. CASE items[i].status # "active" /\ ~Exists(i)
    BY <1>1, <1>2, <1>3, <1>5, JobStepKeeps
  <1>6. CASE items[i].status # "active" /\ Exists(i)
    <2>1. p.pc = "changed" /\ p.id = i
      BY DEF Rest
    <2> HIDE DEF p
    <2>2. actor'["worker"] = p /\ \A b \in Actors \ {"worker"} : actor'[b] = actor[b]
      BY <1>0, <1>1, <1>6
    <2>3. items' = items
      BY <1>1, <1>6
    <2>4. OneActivePerKind' /\ ArchiveInv'
      <3>1. \A b \in Actors : actor'[b] = actor[b] \/ actor'[b].pc # "edit"
        BY <2>1, <2>2
      <3> QED
        BY <1>1, <1>3, <2>3, <3>1, RowsStill
    <2>5. \A j \in Ids : Follows(j)'
      BY <1>0, <1>1, <2>2, <2>3, FollowsKept
    <2>6. \A b \in Actors : actor'[b].pc = "syncing" => actor'[b].seen \in Statuses
      BY <2>1, <2>2 DEF MemoryInv, EvidenceInv
    <2> QED
      BY <1>2, <2>4, <2>5, <2>6 DEF Kept, EvidenceInv
  <1> QED
    BY <1>4, <1>5, <1>6

LEMMA ForgetKeeps ==
  ASSUME MemoryInv, NEW a \in Threads, NEW i \in Ids, Forget(a, i)
  PROVE  Kept
  <1>1. /\ items' = [items EXCEPT ![i] = [items[i] EXCEPT !.status = "forgotten"]]
        /\ actor' = [actor EXCEPT ![a] = [Rest EXCEPT !.pc = "changed", !.id = i]]
        /\ edited' = edited \ {i}
        /\ UNCHANGED <<evidence, job, summarised, unsure>>
        /\ actor[a].pc = "idle" /\ Exists(i)
    BY DEF Forget, SetStatus, Request
  <1>2. a \in Actors /\ a # "worker" /\ "forgotten" # "archived"
    BY InvTypes
  <1> QED
    BY <1>1, <1>2, StatusKeeps
-----------------------------------------------------------------------------
(* The theorems. *)

LEMMA MemoryInit == Init => MemoryInv
  <1>1. SUFFICES ASSUME Init PROVE MemoryInv
    OBVIOUS
  <1>2. /\ \A i \in Ids : items[i].status = "none" /\ evidence[i] = "none"
        /\ \A a \in Actors : actor[a].pc = "idle"
        /\ job.stage = "none"
    <2>1. NoRow.status = "none" /\ Rest.pc = "idle" /\ NoJob.stage = "none"
      BY DEF NoRow, Rest, NoJob
    <2> QED
      BY <1>1, <2>1 DEF Init
  <1>3. OneActivePerKind
    BY <1>2, IdsAre DEF OneActivePerKind, Active
  <1>4. ArchiveInv
    BY <1>2, IdsAre DEF ArchiveInv, ArchivedIsSummarised, KindsInv, EditOk, Exists, Statuses
  <1>5. EvidenceInv
    <2>1. ASSUME NEW i \in Ids PROVE Follows(i)
      BY <1>2 DEF Follows, Matches, Exists, Statuses
    <2> QED
      BY <1>2, <2>1 DEF EvidenceInv
  <1> QED
    BY <1>1, <1>3, <1>4, <1>5, TypeInit DEF MemoryInv

LEMMA MemoryStep ==
  ASSUME MemoryInv, [Next]_vars
  PROVE  MemoryInv'
  <1>1. TypeOK'
    BY TypeStep DEF MemoryInv, ArchiveInv
  <1>2. CASE UNCHANGED vars
    <2>1. MemoryInv => MemoryInv'
      BY <1>2 DEF vars, MemoryInv, TypeOK, OneActivePerKind, Active, ArchiveInv, ArchivedIsSummarised,
         KindsInv, EditOk, EvidenceInv, Follows, Matches, Changed, Copying, Deleting, Exists
    <2> QED
      BY <2>1
  <1>3. CASE Next
    <2>1. ASSUME NEW a \in Threads, Edit(a) PROVE Kept
      BY <2>1, ForgetKeeps, HardDeleteKeeps, ReadForUpdateKeeps, WriteUpdateKeeps,
         DeleteEvidenceKeeps DEF Edit
    <2>2. ASSUME NEW a \in Actors, SyncRead(a) \/ SyncWrite(a) \/ Crash(a) PROVE Kept
      BY <2>2, SyncReadKeeps, SyncWriteKeeps, CrashKeeps
    <2>3. ASSUME NEW i \in Told, MergeOne(i) \/ MarkArchived(i) PROVE Kept
      BY <2>3, MergeOneKeeps, MarkArchivedKeeps
    <2>4. Kept
      BY <1>3, <2>1, <2>2, <2>3, RememberKeeps, ConsolidationKeeps, WriteL3Keeps,
         WriteArchiveKeeps DEF Next
    <2> QED
      BY <1>1, <2>4 DEF Kept, MemoryInv
  <1> QED
    BY <1>2, <1>3

THEOREM MemoryInvariance == Spec => []MemoryInv
  BY MemoryInit, MemoryStep, PTL DEF Spec

\* Every variable keeps its type: rows as the store writes them, and a job that
\* has loaded none but memories of chats.
THEOREM TypeCorrect == Spec => []TypeOK
  <1>1. MemoryInv => TypeOK
    BY DEF MemoryInv
  <1> QED
    BY <1>1, MemoryInvariance, PTL

\* Chats, requests and consolidations leave one memory of a kind active, but for
\* those an update has made active or of that kind.
THEOREM OneOfAKind == Spec => []OneActivePerKind
  <1>1. MemoryInv => OneActivePerKind
    BY DEF MemoryInv
  <1> QED
    BY <1>1, MemoryInvariance, PTL

\* Whatever is archived was put into a summary before.
THEOREM NothingArchivedUnseen == Spec => []ArchivedIsSummarised
  <1>1. MemoryInv => ArchivedIsSummarised
    BY DEF MemoryInv, ArchiveInv
  <1> QED
    BY <1>1, MemoryInvariance, PTL

\* The evidence repeats the status of its memory, unless somebody is under way to
\* write it, or a crash or a later change has left it behind.
THEOREM EvidenceKeepsUp == Spec => []EvidenceFollows
  <1>1. MemoryInv => EvidenceFollows
    <2>1. ASSUME NEW i \in Ids, Follows(i)
          PROVE  Pending(i) \/ i \in unsure
                 \/ evidence[i] = IF Exists(i) THEN items[i].status ELSE "none"
      BY <2>1 DEF Follows, Matches, Pending, Changed, Copying, Deleting
    <2> QED
      BY <2>1 DEF MemoryInv, EvidenceInv, EvidenceFollows
  <1> QED
    BY <1>1, MemoryInvariance, PTL
=============================================================================
