------------------------------- MODULE Memory -------------------------------
(* What the companion remembers: the rows of memory_items and of           *)
(* memory_evidence.                                                        *)
(*                                                                         *)
(*   runtime/infrastructure/runtime_store.py   write_memory and its guard, *)
(*       update_memory, forget_memory, consolidate_memories                *)
(*   runtime/worker.py   the job memory_consolidation                      *)
(*                                                                         *)
(* A chat writes inside its one transaction; updating, forgetting and the  *)
(* nightly consolidation commit statement by statement, so their steps are *)
(* apart here.  The evidence of a memory repeats its status: it is read    *)
(* from the row and written in two statements after each change.           *)
(*                                                                         *)
(* A memory has a kind and one of few texts; texts of two kinds of one     *)
(* family may be akin, by tags or words.  Threads, links and the index of  *)
(* words are derived, rebuilt from nothing, and left out.                  *)
EXTENDS Naturals, FiniteSets, FiniteSetsExt, TLC

CONSTANTS
    N,           \* bound: memories taken from chats
    Threads,     \* HTTP threads that update and forget
    Kinds,       \* among the kinds of a record
    Texts,
    ArchiveCap,  \* most memories of one archive summary: items[:20]
    MaxRuns,     \* bound: consolidations
    MaxEdits,    \* bound: requests that update or forget
    MaxCrashes   \* bound: crashes

ASSUME MemoryAssumption ==
    /\ {N, ArchiveCap, MaxRuns, MaxEdits, MaxCrashes} \subseteq Nat
    /\ Kinds \subseteq {"preference", "wish", "fact", "event", "boundary"}
    /\ "worker" \notin Threads

Told == 1..N                        \* layer L1, in the order of created_at
L2 == N + 1                         \* mem_l2_user_preference_profile
L3 == N + 2                         \* mem_l3_<topic>
L4 == N + 3                         \* mem_l4_archive_<month>
Derived == {L2, L3, L4}
Ids == Told \cup Derived
Actors == Threads \cup {"worker"}

Statuses == {"active", "superseded", "forgotten", "archived"}
NoRow == [status |-> "none", kind |-> "", text |-> "", src |-> {}]

VARIABLES
    items,      \* memory_items: [Ids -> row]; "src" is what a summary quotes
    evidence,   \* memory_evidence: [Ids -> the status it repeats]
    actor,      \* what each thread is doing: [pc, id, seen, edit]
    job,        \* the consolidation: [stage, loaded, todo]
    done,       \* bounds' counters: [runs, edits, crashes]
    summarised, \* ghost: the memories some archive summary was written from
    edited,    \* ghost: memories whose kind or activity a request has set
    unsure      \* ghost: evidence a crash or a later change has left behind

vars == <<items, evidence, actor, job, done, summarised, edited, unsure>>

Rest == [pc |-> "idle", id |-> 1, seen |-> "none", edit |-> NoRow]
NoLoad == [i \in {} |-> ""]
NoJob == [stage |-> "none", loaded |-> NoLoad, todo |-> {}]

Init ==
    /\ items = [i \in Ids |-> NoRow]
    /\ evidence = [i \in Ids |-> "none"]
    /\ actor = [a \in Actors |-> Rest]
    /\ job = NoJob
    /\ done = [runs |-> 0, edits |-> 0, crashes |-> 0]
    /\ summarised = {}
    /\ edited = {}
    /\ unsure = {}

Exists(i) == items[i].status \in Statuses
Active(S) == {i \in S : items[i].status = "active"}

-----------------------------------------------------------------------------
(* A chat writes a memory; the guard looks at all active ones in the order *)
(* they were created.                                                      *)

SameMemoryFamily(k, l) ==
    k = l \/ {k, l} \subseteq {"preference", "wish"} \/ {k, l} \subseteq {"fact", "event"}

\* Mutant: only a change of what was said supersedes, not another remark.
Related_ByWords(i, kind, akin) == i \in akin

\* Two memories of one kind are related whatever they say.
Related(i, kind, akin) == items[i].kind = kind \/ i \in akin

\* "akin": the memories whose tags or words overlap with those of the new one.
\* A duplicate ends the search, what it superseded before stays superseded.
WriteMemory(i, kind, text, akin) ==
    LET family == {j \in Active(Told) : SameMemoryFamily(items[j].kind, kind)}
        equal  == {j \in family : items[j].text = text}
        before == IF equal = {} THEN family ELSE {j \in family : j < Min(equal)}
        gone   == {j \in before : Related(j, kind, akin)}
        new    == IF equal = {} THEN {i} ELSE {}
    IN /\ items' = [j \in Ids |->
                      IF j \in gone THEN [items[j] EXCEPT !.status = "superseded"]
                      ELSE IF j \in new THEN [status |-> "active", kind |-> kind,
                                              text |-> text, src |-> {}]
                      ELSE items[j]]
       /\ evidence' = [j \in Ids |-> IF j \in gone THEN "superseded"
                                     ELSE IF j \in new THEN "active" ELSE evidence[j]]
       /\ unsure' = unsure \ (gone \cup new)
       /\ edited' = edited \ gone

\* Identifiers are new, and grow with created_at.
Remember(i, kind, text, akin) ==
    /\ items[i] = NoRow
    /\ \A j \in Told : j < i => items[j] # NoRow
    /\ WriteMemory(i, kind, text, akin)
    /\ UNCHANGED <<actor, job, done, summarised>>

-----------------------------------------------------------------------------
(* Updating and forgetting, statement by statement. *)

Request(a, i) ==
    /\ actor[a].pc = "idle" /\ Exists(i)
    /\ done.edits < MaxEdits
    /\ done' = [done EXCEPT !.edits = @ + 1]

Does(a, pc) == actor' = [actor EXCEPT ![a].pc = pc]

SetStatus(i, status) == items' = [items EXCEPT ![i].status = status]

Forget(a, i) ==
    /\ Request(a, i)
    /\ SetStatus(i, "forgotten")
    /\ actor' = [actor EXCEPT ![a] = [Rest EXCEPT !.pc = "changed", !.id = i]]
    /\ edited' = edited \ {i}
    /\ UNCHANGED <<evidence, job, summarised, unsure>>

HardDelete(a, i) ==
    /\ Request(a, i)
    /\ items' = [items EXCEPT ![i] = [NoRow EXCEPT !.status = "deleted"]]
    /\ actor' = [actor EXCEPT ![a] = [Rest EXCEPT !.pc = "deleted", !.id = i]]
    /\ edited' = edited \ {i}
    /\ UNCHANGED <<evidence, job, summarised, unsure>>

\* A summary may have been written again since its row was deleted: then this
\* takes the evidence of the new row.
DeleteEvidence(a) ==
    LET i == actor[a].id IN
    /\ actor[a].pc = "deleted"
    /\ evidence' = [evidence EXCEPT ![i] = "none"]
    /\ unsure' = IF Exists(i) THEN unsure \cup {i} ELSE unsure \ {i}
    /\ Does(a, "idle")
    /\ UNCHANGED <<items, job, done, summarised, edited>>

\* The row is read; fields the request does not name are written back as read.
\* (Summaries can be updated too; the next consolidation writes over that.)
ReadForUpdate(a, i, kind, text, status) ==
    /\ Request(a, i)
    /\ actor' = [actor EXCEPT ![a] =
          [pc |-> "edit", id |-> i, seen |-> "none",
           edit |-> [items[i] EXCEPT
                        !.kind = IF kind = "same" THEN @ ELSE kind,
                        !.text = IF text = "same" THEN @ ELSE text,
                        !.status = IF status = "same" THEN @ ELSE status]]]
    /\ UNCHANGED <<items, evidence, job, summarised, edited, unsure>>

WriteUpdate(a) ==
    LET i == actor[a].id
        e == actor[a].edit
    IN
    /\ actor[a].pc = "edit"
    /\ items' = IF Exists(i) THEN [items EXCEPT ![i] = [e EXCEPT !.src = items[i].src]] ELSE items
    /\ edited' = IF Exists(i) /\ (e.kind # items[i].kind \/ e.status # items[i].status)
                 THEN edited \cup {i} ELSE edited
    /\ actor' = [actor EXCEPT ![a] = [Rest EXCEPT !.pc = "changed", !.id = i]]
    /\ UNCHANGED <<evidence, job, done, summarised, unsure>>

\* _sync_memory_evidence: the row is read again, the evidence written from it.
SyncRead(a) ==
    LET i == actor[a].id IN
    /\ actor[a].pc = "changed"
    /\ actor' = [actor EXCEPT ![a] =
          IF Exists(i) THEN [@ EXCEPT !.pc = "syncing", !.seen = items[i].status] ELSE Rest]
    /\ UNCHANGED <<items, evidence, job, done, summarised, edited, unsure>>

\* Mutant: evidence that is there already is kept as it is.
Upserted_Kept(i, status) == IF evidence[i] = "none" THEN status ELSE evidence[i]

Upserted(i, status) == status

SyncWrite(a) ==
    LET p == actor[a] IN
    /\ p.pc = "syncing"
    /\ evidence' = [evidence EXCEPT ![p.id] = Upserted(p.id, p.seen)]
    /\ unsure' = IF items[p.id].status = p.seen THEN unsure \ {p.id}
                 ELSE unsure \cup {p.id}
    /\ actor' = [actor EXCEPT ![a] = Rest]
    /\ UNCHANGED <<items, job, done, summarised, edited>>

-----------------------------------------------------------------------------
(* The consolidation, a job of the worker. *)

\* Equal texts of one kind: all but the first are to be superseded.
Consolidate ==
    /\ actor["worker"].pc = "idle" /\ job.stage = "none"
    /\ done.runs < MaxRuns
    /\ done' = [done EXCEPT !.runs = @ + 1]
    /\ job' = [stage |-> "merge", loaded |-> NoLoad,
               todo |-> {j \in Active(Told) : \E i \in Active(Told) :
                            i < j /\ items[i].kind = items[j].kind
                                  /\ items[i].text = items[j].text}]
    /\ UNCHANGED <<items, evidence, actor, summarised, edited, unsure>>

\* _mark_superseded does not ask for the status it overwrites.
MergeOne(i) ==
    /\ job.stage = "merge" /\ actor["worker"].pc = "idle"
    /\ i \in job.todo
    /\ items' = IF Exists(i) THEN [items EXCEPT ![i].status = "superseded"] ELSE items
    /\ edited' = edited \ {i}
    /\ actor' = [actor EXCEPT !["worker"] = [Rest EXCEPT !.pc = "changed", !.id = i]]
    /\ job' = [job EXCEPT !.todo = @ \ {i}]
    /\ UNCHANGED <<evidence, done, summarised, unsure>>

LoadActive ==
    /\ job.stage = "merge" /\ job.todo = {} /\ actor["worker"].pc = "idle"
    /\ job' = [stage |-> "l2", loaded |-> [i \in Active(Told) |-> items[i].kind], todo |-> {}]
    /\ UNCHANGED <<items, evidence, actor, done, summarised, edited, unsure>>

\* The records, and so their kinds, are those loaded above.
L2Group(f) == {i \in DOMAIN f : f[i] \in {"preference", "wish"}}
L3Group(f) == {i \in DOMAIN f : f[i] # "boundary"}
Worthy(f, S) == Cardinality(S) >= 2 \/ \E i \in S : f[i] = "event"

\* INSERT OR REPLACE: whatever became of the summary, it is active again; its
\* evidence is written next, as active.
PutSummary(d, S) ==
    /\ items' = [items EXCEPT ![d] = [NoRow EXCEPT !.status = "active", !.kind = "summary", !.src = S]]
    /\ actor' = [actor EXCEPT !["worker"] = [Rest EXCEPT !.pc = "syncing", !.id = d, !.seen = "active"]]

WriteL2 ==
    LET S == L2Group(job.loaded) IN
    /\ job.stage = "l2"
    /\ IF S # {} THEN PutSummary(L2, S) ELSE UNCHANGED <<items, actor>>
    /\ job' = [job EXCEPT !.stage = "l3"]
    /\ UNCHANGED <<evidence, done, summarised, edited, unsure>>

\* Which memories are of one topic, and how important an event is, is a choice.
WriteL3(S) ==
    /\ job.stage = "l3" /\ actor["worker"].pc = "idle"
    /\ S = {} \/ Worthy(job.loaded, S)
    /\ IF S # {} THEN PutSummary(L3, S) ELSE UNCHANGED <<items, actor>>
    /\ job' = [job EXCEPT !.stage = "l4"]
    /\ UNCHANGED <<evidence, done, summarised, edited, unsure>>

\* Old and minor memories; identity, boundaries, preferences are never archived.
ShouldArchive(i) == job.loaded[i] \in {"wish", "event"}

\* At most items[:20] of a month go into its summary, the most important first.
Batch(old, S) == S \subseteq old /\ Cardinality(S) = Min({ArchiveCap, Cardinality(old)})

\* Mutant: the summary is cut at the cap, what is archived is not.
ToArchive_Uncut(old, S) == old

ToArchive(old, S) == S

WriteArchive(old, S) ==
    /\ job.stage = "l4" /\ actor["worker"].pc = "idle"
    /\ Batch(old, S)
    /\ IF S # {} THEN PutSummary(L4, S) ELSE UNCHANGED <<items, actor>>
    /\ summarised' = summarised \cup S
    /\ job' = [job EXCEPT !.stage = "mark", !.todo = ToArchive(old, S)]
    /\ UNCHANGED <<evidence, done, edited, unsure>>

\* _mark_archived: a memory that is no longer active is left as it is.
MarkArchived(i) ==
    /\ job.stage = "mark" /\ actor["worker"].pc = "idle"
    /\ i \in job.todo
    /\ IF items[i].status = "active" THEN SetStatus(i, "archived") ELSE UNCHANGED items
    /\ actor' = IF Exists(i) THEN [actor EXCEPT !["worker"] = [Rest EXCEPT !.pc = "changed", !.id = i]]
                ELSE actor
    /\ job' = [job EXCEPT !.todo = @ \ {i}]
    /\ UNCHANGED <<evidence, done, summarised, edited, unsure>>

Finish ==
    /\ job.stage = "mark" /\ job.todo = {} /\ actor["worker"].pc = "idle"
    /\ job' = NoJob
    /\ UNCHANGED <<items, evidence, actor, done, summarised, edited, unsure>>

\* A process dies between two statements: the rest is not done.
Crash(a) ==
    /\ done.crashes < MaxCrashes
    /\ done' = [done EXCEPT !.crashes = @ + 1]
    /\ actor[a].pc # "idle" \/ (a = "worker" /\ job # NoJob)
    /\ actor' = [actor EXCEPT ![a] = Rest]
    /\ job' = IF a = "worker" THEN NoJob ELSE job
    /\ unsure' = IF actor[a].pc \in {"changed", "syncing", "deleted"}
                 THEN unsure \cup {actor[a].id} ELSE unsure
    /\ UNCHANGED <<items, evidence, summarised, edited>>

Edit(a) ==
    \/ \E i \in Ids : Forget(a, i) \/ HardDelete(a, i)
    \/ \E i \in Told, k \in Kinds \cup {"same"}, t \in Texts \cup {"same"} :
           \E s \in {"same", "active", "forgotten"} : ReadForUpdate(a, i, k, t, s)
    \/ WriteUpdate(a) \/ DeleteEvidence(a)

Next ==
    \/ \E i \in Told, k \in Kinds, t \in Texts : \E akin \in SUBSET Told : Remember(i, k, t, akin)
    \/ \E a \in Threads : Edit(a)
    \/ \E a \in Actors : SyncRead(a) \/ SyncWrite(a) \/ Crash(a)
    \/ Consolidate \/ LoadActive \/ WriteL2 \/ Finish
    \/ \E S \in SUBSET L3Group(job.loaded) : WriteL3(S)
    \/ \E i \in Told : MergeOne(i) \/ MarkArchived(i)
    \/ \E old \in SUBSET {i \in DOMAIN job.loaded : ShouldArchive(i)} : \E S \in SUBSET old : WriteArchive(old, S)

Spec == Init /\ [][Next]_vars

\* TLC: texts are only compared.
Interchangeable == Permutations(Texts)

-----------------------------------------------------------------------------
(* Properties. *)

\* Every variable has its type: rows as the store writes them, the statuses
\* evidence may repeat, and the stages of the consolidation.
Rows == [status : Statuses \cup {"none", "deleted"}, kind : Kinds \cup {"", "summary"},
         text : Texts \cup {""}, src : SUBSET Told]
TypeOK ==
    /\ items \in [Ids -> Rows]
    /\ evidence \in [Ids -> Statuses \cup {"none"}]
    /\ actor \in [Actors -> [pc : {"idle", "edit", "changed", "deleted", "syncing"}, id : Ids,
                              seen : Statuses \cup {"none"}, edit : Rows]]
    /\ job \in [stage : {"none", "merge", "l2", "l3", "l4", "mark"},
                loaded : UNION {[S -> Kinds] : S \in SUBSET Told}, todo : SUBSET Told]
    /\ done \in [runs : 0..MaxRuns, edits : 0..MaxEdits, crashes : 0..MaxCrashes]
    /\ summarised \subseteq Told /\ edited \subseteq Ids /\ unsure \subseteq Ids

\* Chats and the nightly job leave one memory of a kind active: whatever is
\* written takes the place of all others of its kind.  Only the update of a memory
\* can make a second one active, on purpose or because it writes back a kind or a
\* status it read before somebody else changed them.
OneActivePerKind ==
    \A i, j \in Active(Told) \ edited : items[i].kind = items[j].kind => i = j

\* A memory is archived only after a summary of it was written, and a crash
\* between the two loses neither.
ArchivedIsSummarised == \A i \in Told : items[i].status = "archived" => i \in summarised

Pending(i) == \E a \in Actors : actor[a].id = i /\ actor[a].pc \in {"changed", "syncing", "deleted"}

\* The evidence repeats the status of its memory, on whichever of the seven
\* ways the status was changed; it may lag while the change is under way, for
\* good only after a crash or when another change overtook the writing.
EvidenceFollows ==
    \A i \in Ids : \/ Pending(i) \/ i \in unsure
                   \/ evidence[i] = IF Exists(i) THEN items[i].status ELSE "none"

\* What is archived can be read in the archive.  The code does not keep this: the
\* next summary of the same month replaces the one before, and nothing else
\* quotes what only the old one quoted: two consolidations show it.
ArchiveIsComplete ==
    job = NoJob => \A i \in Told : items[i].status = "archived" => i \in items[L4].src

\* No active summary quotes a forgotten memory once a later consolidation has
\* run.  The code does not keep this: a summary whose last memory was forgotten
\* is not written again and not removed either: two consolidations and one
\* request to forget show it.
ForgottenIsUnquoted ==
    \A i \in Told, d \in Active(Derived) :
        done.runs = MaxRuns /\ job = NoJob /\ items[i].status = "forgotten" => i \notin items[d].src

=============================================================================
