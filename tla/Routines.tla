------------------------------- MODULE Routines -------------------------------
(* Routines and check-ins, activity sessions, the diary and the steps of a   *)
(* task: the methods of LifeFlowService that LifeFlow.tla leaves out, with   *)
(* their tables in LifeFlowStore; and the calendar of SchedulingService,     *)
(* which works in the same way.                                              *)
(*                                                                           *)
(* Every mutation runs in atomic(), but SQLite begins the transaction only   *)
(* at its first write: what a method reads before that may be overtaken by   *)
(* another request or by the worker's ticks.  So a method is two actions,    *)
(* the reading and the writing; from the first write to the commit nobody    *)
(* else writes, and the two are one action here.                             *)
EXTENDS Naturals, FiniteSets, TLC

CONSTANTS Actors,        \* request threads and workers
          RoutineIds, SessionIds, EntryIds, StepIds,   \* rows, by age
          EventIds,      \* event ids, given by the client
          LastDay,       \* bound: days, of which the first two share a week
          MaxMutations,  \* bound: mutations started
          MaxCrashes     \* bound: actors that die between read and write

ASSUME RoutinesAssumption ==
    /\ RoutineIds \subseteq Nat \ {0} /\ IsFiniteSet(RoutineIds) /\ IsFiniteSet(StepIds)
    /\ LastDay \in Nat \ {0} /\ MaxMutations \in Nat /\ MaxCrashes \in Nat

VARIABLES day,
          routine,   \* routines
          checkin,   \* routine_checkins, by routine and period
          session,   \* activity_sessions
          entry,     \* diary_entries
          step,      \* task_steps, of one task
          event,     \* calendar_events
          reminders, \* create_reminder effects made, by routine and period
          actor,     \* what every actor has read and is about to write
          mutations, crashes

routinesVars == <<day, routine, checkin, session, entry, step, event, reminders, actor, mutations, crashes>>
tables == <<routine, checkin, session, entry, step, event, reminders>>

Periods == 1..LastDay
Ended == {"completed", "cancelled", "expired"}
Idle == [op |-> "none"]

(* A row that is not in its table yet.                                       *)
NoRoutine == [there |-> FALSE, active |-> FALSE, schedule |-> "daily", policy |-> "none"]
NoCheckin == "none"
NoSession == [status |-> "none", expires |-> 0]
NoEntry == [status |-> "none", date |-> 0]
NoStep == [status |-> "none", position |-> 0, dated |-> FALSE]
NoEvent == [status |-> "none", starts |-> 0]

IsOldest(x, S) == x \in S /\ \A y \in S : x <= y
Latest(S) == CHOOSE x \in S : \A y \in S : x >= y

(* period_key: the day itself or the first day of its week.                  *)
PeriodKey(r, d) == IF r.schedule = "weekly" /\ d = 2 THEN 1 ELSE d

RoutinesInit ==
    /\ day = 1
    /\ routine = [r \in RoutineIds |-> NoRoutine]
    /\ checkin = [r \in RoutineIds |-> [p \in Periods |-> NoCheckin]]
    /\ session = [s \in SessionIds |-> NoSession]
    /\ entry = [e \in EntryIds |-> NoEntry]
    /\ step = [k \in StepIds |-> NoStep]
    /\ event = [v \in EventIds |-> NoEvent]
    /\ reminders = {}
    /\ actor = [a \in Actors |-> Idle]
    /\ mutations = 0 /\ crashes = 0

NextDay ==
    /\ day < LastDay /\ day' = day + 1
    /\ UNCHANGED <<tables, actor, mutations, crashes>>

(* A method begins with what it reads; one that reads nothing writes at once.*)
Begin(a) ==
    /\ actor[a].op = "none" /\ mutations < MaxMutations
    /\ mutations' = mutations + 1
    /\ UNCHANGED <<day, crashes>>
Read(a, seen) == Begin(a) /\ actor' = [actor EXCEPT ![a] = seen] /\ UNCHANGED tables
Writing(a, op) ==
    /\ actor[a].op = op /\ actor' = [actor EXCEPT ![a] = Idle]
    /\ UNCHANGED <<day, mutations, crashes>>

Die(a) ==
    /\ actor[a].op # "none" /\ crashes < MaxCrashes
    /\ crashes' = crashes + 1
    /\ actor' = [actor EXCEPT ![a] = Idle]
    /\ UNCHANGED <<tables, day, mutations>>

(*-------------------------------- routines --------------------------------*)
CreateRoutine(a, policy) ==
    /\ Begin(a) /\ UNCHANGED actor
    /\ \E r \in RoutineIds :
         /\ IsOldest(r, {q \in RoutineIds : ~routine[q].there})
         /\ routine' = [routine EXCEPT ![r] = [there |-> TRUE, active |-> TRUE,
                                               schedule |-> "daily", policy |-> policy]]
    /\ UNCHANGED <<checkin, session, entry, step, event, reminders>>

(* update_routine writes the whole row it has read, with its changes.        *)
UpdateRoutineRead(a, r) ==
    /\ routine[r].there
    /\ Read(a, [op |-> "routine", row |-> r, seen |-> routine[r]])

UpdateRoutineWrite(a) ==
    /\ Writing(a, "routine")
    /\ \E active \in BOOLEAN, schedule \in {"daily", "weekly"} :
         routine' = [routine EXCEPT ![actor[a].row] =
                        [actor[a].seen EXCEPT !.active = active, !.schedule = schedule]]
    /\ UNCHANGED <<checkin, session, entry, step, event, reminders>>

(*-------------------------------- check-ins -------------------------------*)
(* checkin_routine: the same check-in again changes nothing.                 *)
CheckinRoutineRead(a, r, status) ==
    /\ routine[r].there
    /\ LET p == PeriodKey(routine[r], day)
       IN  /\ checkin[r][p] # status
           /\ Read(a, [op |-> "checkin", row |-> r, period |-> p, want |-> status])

CheckinRoutineWrite(a) ==
    /\ Writing(a, "checkin")
    /\ checkin' = [checkin EXCEPT ![actor[a].row][actor[a].period] = actor[a].want]
    /\ UNCHANGED <<routine, session, entry, step, event, reminders>>

(* process_due_routines: the active routines are read once; those that have  *)
(* their check-in are passed by, the first that has not (first # 0) starts   *)
(* the transaction, in which the rest is looked at and written.              *)
DueRoutinesRead(a) ==
    LET active == {r \in RoutineIds : routine[r].active}
    IN  /\ active # {}
        /\ Read(a, [op |-> "tick", left |-> active, seen |-> routine, first |-> 0, day |-> day])

LookAtRoutine(a) ==
    LET t == actor[a]
    IN  /\ t.op = "tick" /\ t.first = 0
        /\ LET r == Latest(t.left)
               done == checkin[r][PeriodKey(t.seen[r], t.day)] # "none"
           IN  actor' = [actor EXCEPT ![a] =
                  IF ~done THEN [t EXCEPT !.first = r]
                  ELSE IF t.left = {r} THEN Idle
                  ELSE [t EXCEPT !.left = @ \ {r}]]
        /\ UNCHANGED <<tables, day, mutations, crashes>>

\* Mutant: the rest of the routines are not looked at again.
Undone_Unlooked(t, r) == TRUE

(* What a tick finds without a check-in: the first as it saw it before the   *)
(* transaction began, the others as they are.                                *)
Undone(t, r) == r = t.first \/ checkin[r][PeriodKey(t.seen[r], t.day)] = "none"

DueRoutinesWrite(a) ==
    LET t == actor[a]
        due == {r \in t.left : Undone(t, r)}
    IN  /\ t.op = "tick" /\ t.first # 0
        /\ Writing(a, "tick")
        /\ checkin' = [r \in RoutineIds |-> [p \in Periods |->
              IF r \in due /\ p = PeriodKey(t.seen[r], t.day) THEN "pending" ELSE checkin[r][p]]]
        /\ reminders' = reminders \cup
              {<<r, PeriodKey(t.seen[r], t.day)>> : r \in {q \in due : t.seen[q].policy = "remind"}}
        /\ UNCHANGED <<routine, session, entry, step, event>>

(*------------------------------- activities -------------------------------*)
\* Mutant: a session that is over may be started again.
Transitions_Restart(from) ==
    CASE from = "planned" -> {"active", "cancelled"}
      [] from = "active" -> {"paused", "completed", "cancelled", "expired"}
      [] OTHER -> {"active", "completed", "cancelled", "expired"}

(* ActivitySession.transition; staying where it is is allowed too.           *)
Transitions(from) ==
    CASE from = "planned" -> {"active", "cancelled"}
      [] from = "active" -> {"paused", "completed", "cancelled", "expired"}
      [] from = "paused" -> {"active", "completed", "cancelled", "expired"}
      [] OTHER -> {}

(* create_activity; a confirmed start_focus_session goes on to start it, in  *)
(* a transaction of its own.                                                 *)
CreateActivity(a, expires, focus) ==
    /\ Begin(a)
    /\ \E s \in SessionIds :
         /\ IsOldest(s, {q \in SessionIds : session[q].status = "none"})
         /\ session' = [session EXCEPT ![s] = [status |-> "planned", expires |-> expires]]
         /\ actor' = IF focus THEN [actor EXCEPT ![a] = [op |-> "focus", row |-> s]] ELSE actor
    /\ UNCHANGED <<routine, checkin, entry, step, event, reminders>>

Reading(s, target) ==
    [op |-> "session", row |-> s, seen |-> session[s], want |-> target]

TransitionActivityRead(a, s, target) ==
    /\ session[s].status # "none" /\ target \in Transitions(session[s].status)
    /\ Read(a, Reading(s, target))

StartFocusRead(a) ==
    /\ actor[a].op = "focus"
    /\ actor' = [actor EXCEPT ![a] =
          IF "active" \in Transitions(session[actor[a].row].status)
          THEN Reading(actor[a].row, "active") ELSE Idle]
    /\ UNCHANGED <<tables, day, mutations, crashes>>

TransitionActivityWrite(a) ==
    /\ Writing(a, "session")
    /\ session' = [session EXCEPT ![actor[a].row] =
                      [actor[a].seen EXCEPT !.status = actor[a].want]]
    /\ UNCHANGED <<routine, checkin, entry, step, event, reminders>>

(* expire_activities reads all sessions and writes those that were running   *)
(* and are past their time.                                                  *)
Overdue(seen) == {s \in SessionIds : /\ seen[s].status \in {"active", "paused"}
                                     /\ seen[s].expires \in 1..day}

ExpireActivitiesRead(a) ==
    /\ Overdue(session) # {}
    /\ Read(a, [op |-> "expire", seen |-> session, rows |-> Overdue(session)])

ExpireActivitiesWrite(a) ==
    /\ Writing(a, "expire")
    /\ session' = [s \in SessionIds |->
                      IF s \in actor[a].rows THEN [actor[a].seen[s] EXCEPT !.status = "expired"]
                                             ELSE session[s]]
    /\ UNCHANGED <<routine, checkin, entry, step, event, reminders>>

(*---------------------------------- diary ---------------------------------*)
NewEntry(status) ==
    \E e \in EntryIds :
        /\ IsOldest(e, {f \in EntryIds : entry[f].status = "none"})
        /\ entry' = [entry EXCEPT ![e] = [status |-> status, date |-> day]]

CreateDiaryEntry(a) ==
    /\ Begin(a) /\ UNCHANGED actor /\ NewEntry("saved")
    /\ UNCHANGED <<routine, checkin, session, step, event, reminders>>

UpdateDiaryRead(a, e) ==
    /\ entry[e].status # "none"
    /\ Read(a, [op |-> "diary", row |-> e, seen |-> entry[e]])

(* Any status may be set.                                                    *)
UpdateDiaryWrite(a) ==
    /\ Writing(a, "diary")
    /\ \E status \in {"draft", "saved", "deleted"} :
         entry' = [entry EXCEPT ![actor[a].row] = [actor[a].seen EXCEPT !.status = status]]
    /\ UNCHANGED <<routine, checkin, session, step, event, reminders>>

(* draft_diary_entry: the day's draft, or a new one if there is none.        *)
DraftDiaryRead(a) ==
    /\ \A e \in EntryIds : entry[e] # [status |-> "draft", date |-> day]
    /\ Read(a, [op |-> "draft"])

DraftDiaryWrite(a) ==
    /\ Writing(a, "draft") /\ NewEntry("draft")
    /\ UNCHANGED <<routine, checkin, session, step, event, reminders>>

(*---------------------------------- steps ---------------------------------*)
StepCount == Cardinality({k \in StepIds : step[k].status # "none"})

AddStepRead(a) == Read(a, [op |-> "add", position |-> StepCount])

AddStepWrite(a) ==
    /\ Writing(a, "add")
    /\ \E k \in StepIds :
         /\ IsOldest(k, {j \in StepIds : step[j].status = "none"})
         /\ step' = [step EXCEPT ![k] = [status |-> "open", position |-> actor[a].position,
                                         dated |-> FALSE]]
    /\ UNCHANGED <<routine, checkin, session, entry, event, reminders>>

UpdateStepRead(a, k) ==
    /\ step[k].status # "none"
    /\ Read(a, [op |-> "step", row |-> k, seen |-> step[k]])

(* completed_at stays when a step is opened again.                           *)
UpdateStepWrite(a) ==
    /\ Writing(a, "step")
    /\ \E status \in {"open", "completed", "cancelled"} :
         step' = [step EXCEPT ![actor[a].row] =
                    [actor[a].seen EXCEPT !.status = status, !.dated = @ \/ status = "completed"]]
    /\ UNCHANGED <<routine, checkin, session, entry, event, reminders>>

(*-------------------------------- calendar --------------------------------*)
(* create_calendar_event with an id: the lookup comes before the transaction;*)
(* an event that is there is answered with, or refused, but not written.     *)
CreateEventRead(a, v, starts) ==
    /\ event[v] = NoEvent
    /\ Read(a, [op |-> "new_event", row |-> v, seen |-> event[v], want |-> "active",
                starts |-> starts])

(* update_calendar_event: moved, deleted, or brought back.                   *)
UpdateEventRead(a, v, want) ==
    /\ event[v] # NoEvent
    /\ Read(a, [op |-> "event", row |-> v, seen |-> event[v], want |-> want, starts |-> LastDay])

\* An event as the request wants it, from what was read of it.
Wanted(t) ==
    CASE t.op = "new_event" -> [status |-> "active", starts |-> t.starts]
      [] t.want = "moved" -> [t.seen EXCEPT !.starts = t.starts]
      [] OTHER -> [t.seen EXCEPT !.status = t.want]

(* save_calendar_event overwrites the row, whether it is new or not.         *)
EventWrite(a) ==
    /\ Writing(a, actor[a].op) /\ actor[a].op \in {"new_event", "event"}
    /\ event' = [event EXCEPT ![actor[a].row] = Wanted(actor[a])]
    /\ UNCHANGED <<routine, checkin, session, entry, step, reminders>>

(*------------------------------ specification -----------------------------*)
Request(a) ==
    \/ \E policy \in {"none", "remind"} : CreateRoutine(a, policy)
    \/ \E r \in RoutineIds : \/ UpdateRoutineRead(a, r)
                             \/ \E st \in {"completed", "skipped"} : CheckinRoutineRead(a, r, st)
    \/ \E x \in {0, LastDay}, focus \in BOOLEAN : CreateActivity(a, x, focus)
    \/ \E s \in SessionIds, t \in {"active", "paused", "completed", "cancelled"} :
          TransitionActivityRead(a, s, t)
    \/ \E e \in EntryIds : UpdateDiaryRead(a, e)
    \/ CreateDiaryEntry(a) \/ DraftDiaryRead(a)
    \/ AddStepRead(a) \/ \E k \in StepIds : UpdateStepRead(a, k)

Calendar(a) ==
    \E v \in EventIds :
        \/ CreateEventRead(a, v, 1)
        \/ \E want \in {"moved", "active", "deleted"} : UpdateEventRead(a, v, want)

Write(a) ==
    \/ UpdateRoutineWrite(a) \/ CheckinRoutineWrite(a)
    \/ StartFocusRead(a) \/ TransitionActivityWrite(a)
    \/ UpdateDiaryWrite(a) \/ DraftDiaryWrite(a) \/ AddStepWrite(a) \/ UpdateStepWrite(a)
    \/ EventWrite(a)

Worker(a) ==
    \/ DueRoutinesRead(a) \/ LookAtRoutine(a) \/ DueRoutinesWrite(a)
    \/ ExpireActivitiesRead(a) \/ ExpireActivitiesWrite(a)

RoutinesNext == NextDay \/ \E a \in Actors : Request(a) \/ Calendar(a) \/ Write(a) \/ Worker(a) \/ Die(a)

RoutinesSpec == RoutinesInit /\ [][RoutinesNext]_routinesVars

Interchangeable == Permutations(Actors)

(*-------------------------------- properties ------------------------------*)
(* Every variable has its type: rows of each table with the statuses its     *)
(* domain class has, and an actor that holds rows of these types.            *)
RoutinesTypeOK ==
    /\ day \in Periods
    /\ routine \in [RoutineIds -> [there : BOOLEAN, active : BOOLEAN,
                      schedule : {"daily", "weekly"}, policy : {"none", "remind"}]]
    /\ checkin \in [RoutineIds -> [Periods -> {"none", "pending", "completed", "skipped"}]]
    /\ session \in [SessionIds -> [status : Ended \cup {"none", "planned", "active", "paused"},
                                    expires : 0..LastDay]]
    /\ entry \in [EntryIds -> [status : {"none", "draft", "saved", "deleted"},
                                date : 0..LastDay]]
    /\ step \in [StepIds -> [status : {"none", "open", "completed", "cancelled"},
                              position : 0..Cardinality(StepIds), dated : BOOLEAN]]
    /\ event \in [EventIds -> [status : {"none", "active", "deleted"}, starts : 0..LastDay]]
    /\ reminders \subseteq RoutineIds \X Periods
    /\ DOMAIN actor = Actors
    /\ mutations \in 0..MaxMutations /\ crashes \in 0..MaxCrashes

(* A check-in is taken back, or reminded of, only on behalf of somebody who  *)
(* had a reason: the user who checks in otherwise, or a tick that looked at  *)
(* this very period before anything was recorded for it.                     *)
TickOf(a, r, p) ==
    /\ actor[a].op = "tick" /\ actor'[a] = Idle
    /\ actor[a].first = r /\ p = PeriodKey(actor[a].seen[r], actor[a].day)
UserOf(a, r, p) ==
    /\ actor[a].op = "checkin" /\ actor'[a] = Idle
    /\ actor[a].row = r /\ actor[a].period = p

SeenUndone ==
    [][\A r \in RoutineIds, p \in Periods :
          /\ (checkin[r][p] # "none" /\ checkin'[r][p] # checkin[r][p]) =>
                \E a \in Actors : TickOf(a, r, p) \/ UserOf(a, r, p)
          /\ (<<r, p>> \in reminders' \ reminders /\ checkin[r][p] # "none") =>
                \E a \in Actors : TickOf(a, r, p)]_routinesVars

(* A session that is over stays as it ended, and a deleted event of the      *)
(* calendar stays deleted (a creation that is repeated finds it, a move keeps*)
(* its status), unless the request says otherwise or comes too late: it, or  *)
(* the expiry, read the row while the session ran or the event was there.    *)
SessionBy(a, s) ==
    \/ actor[a].op = "session" /\ actor[a].row = s /\ actor[a].seen.status \notin Ended
    \/ actor[a].op = "expire" /\ s \in actor[a].rows /\ actor[a].seen[s].status \notin Ended
EventBy(a, v) ==
    /\ actor[a].op \in {"new_event", "event"} /\ actor[a].row = v
    /\ \/ actor[a].op = "event" /\ actor[a].want = "active"
       \/ actor[a].seen.status # "deleted"

UndoneByOldReaders ==
    [][/\ \A s \in SessionIds :
             (session[s].status \in Ended /\ session'[s] # session[s]) =>
                \E a \in Actors : actor'[a] = Idle /\ SessionBy(a, s)
       /\ \A v \in EventIds :
             (event[v].status = "deleted" /\ event'[v].status # "deleted") =>
                \E a \in Actors : actor'[a] = Idle /\ EventBy(a, v)]_routinesVars

(*---------- what overlapping requests do not keep (by hand) ---------------*)
(* A completed check-in is changed by the user only.                         *)
CheckinKept ==
    [][\A r \in RoutineIds, p \in Periods :
          checkin[r][p] = "completed" => checkin'[r][p] \in {"completed", "skipped"}]_routinesVars

(* A session that is over is over.                                           *)
SessionKept ==
    [][\A s \in SessionIds :
          session[s].status \in Ended => session'[s] = session[s]]_routinesVars

(* Creating an event again changes nothing.                                  *)
EventKept ==
    [][\A a \in Actors :
          (actor[a].op = "new_event" /\ actor'[a] = Idle /\ event[actor[a].row] # NoEvent) =>
             event' = event]_routinesVars

(* One draft a day.                                                          *)
OneDraft ==
    \A e, f \in EntryIds :
        (entry[e].status = "draft" /\ entry[f] = entry[e]) => e = f

(* No two steps of a task have one place.                                    *)
StepsAreInOrder ==
    \A j, k \in StepIds :
        (step[j].status # "none" /\ step[k].status # "none" /\ j # k)
            => step[j].position # step[k].position
=============================================================================
