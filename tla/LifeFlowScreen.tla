--------------------------- MODULE LifeFlowScreen ---------------------------
(* The life-flow dialog of the web client (life-flow-controller.js with      *)
(* life-flow-state.js) and the action cards beside it (action-controller.js):*)
(* lists that are loaded, edited and refreshed by requests whose answers     *)
(* come late, while the user clicks on, the network drops and the dialog is  *)
(* closed.  JavaScript runs one handler at a time, up to its next await, so  *)
(* every action below is one such stretch.                                   *)
(*                                                                           *)
(* An item is its key, a version that the server raises at every change, its *)
(* status and its number of steps; what the user types is left out.          *)
EXTENDS Naturals, Sequences, FiniteSets, SequencesExt

CONSTANTS Resources,    \* the lists shown, of "tasks" and "diaries"
          Proposals,    \* actions the companion may propose
          Steps,        \* steps the user may toggle, 0 (-1 in the code) to add one
          MaxItems,     \* bound: items the server ever has in one list
          MaxCalls,     \* bound: requests the client starts
          MaxBreaks     \* bound: offline events and closings of the dialog

VARIABLES server,       \* what the server holds: resource -> key -> item
          acked,        \* ghost: the version the user was told is saved
          view,         \* <<where, page>>, appStore.state.lifeFlow.view
          open,         \* is the dialog open
          domain,       \* resource -> list, selection, editor, action, calls
          stepWrites,   \* step index -> status of its entry, or "none"
          stepCall,     \* step index -> the pending request
          today,        \* the Today page: status, what it shows, its request
          prop,         \* the action card
          stray,        \* aborted writes that may still reach the server
          calls, breaks \* spent bounds

vars == <<server, acked, view, open, domain, stepWrites, stepCall, today,
          prop, stray, calls, breaks>>

Keys == 1..MaxItems
Today == <<"today", "">>
NoCall == [phase |-> "none"]
NoCard == [status |-> "idle", act |-> "none", key |-> 0, call |-> NoCall]
NewDomain == [status |-> "unloaded", items |-> <<>>, sel |-> 0, mode |-> "none",
              editor |-> "idle", action |-> "idle", sure |-> FALSE,
              load |-> NoCall, write |-> NoCall]
Pending(call) == call.phase # "none"
Loading(d) == d.status \in {"loading", "refreshing"}
Selected(d) == d.items[d.sel]
IndexOf(d, k) == SelectInSeq(d.items, LAMBDA i : i.key = k)
ResourceOf(act) == IF act = "draft_diary" THEN "diaries" ELSE "tasks"

Item(r, k) == [key |-> k, ver |-> server[r][k].ver,
               st |-> server[r][k].st, steps |-> server[r][k].steps]

(* The list endpoint: newest diary first, tasks in the order of creation;    *)
(* completeResourceLoad drops what is deleted.                               *)
ServerList(r) ==
    LET live == {k \in Keys : server[r][k].st \notin {"none", "deleted"}}
        keys == SetToSortSeq(live, LAMBDA a, b : IF r = "diaries" THEN a > b ELSE a < b)
    IN  [i \in 1..Len(keys) |-> Item(r, keys[i])]

Init ==
    /\ server = [r \in Resources |-> [k \in Keys |->
                    [ver |-> IF k = 1 THEN 1 ELSE 0, steps |-> IF k = 1 THEN 1 ELSE 0,
                     st |-> IF k = 1 THEN "saved" ELSE "none"]]]
    /\ acked = [r \in Resources |-> [k \in Keys |-> 0]]
    /\ view = Today /\ open = FALSE
    /\ domain = [r \in Resources |-> NewDomain]
    /\ stepWrites = [i \in Steps |-> "none"]
    /\ stepCall = [i \in Steps |-> NoCall]
    /\ today = [status |-> "unloaded", shows |-> "nothing", call |-> NoCall]
    /\ prop = NoCard
    /\ stray = {} /\ calls = 0 /\ breaks = 0

(*--------------------------------- loads ----------------------------------*)
(* A request is "sent" until the server has answered ("done").               *)
Spend(n) == calls + n <= MaxCalls /\ calls' = calls + n
Started(before, after) == IF before = after THEN 0 ELSE 1

(* loadResource up to its await: refused while a write or a load of the same *)
(* list is under way.                                                        *)
LoadResource(d, refresh, want) ==
    IF Pending(d.write) \/ Pending(d.load) \/ Loading(d) \/ (~refresh /\ d.status = "ready")
    THEN d
    ELSE [d EXCEPT !.status = IF refresh /\ d.items # <<>> THEN "refreshing" ELSE "loading",
                   !.load = [phase |-> "sent", want |-> want]]

SelectResourceItem(d, i) == [d EXCEPT !.sel = i, !.mode = "none"]

FailResourceLoad(d, outcome) ==
    [d EXCEPT !.load = NoCall, !.status = IF Loading(d) THEN outcome ELSE d.status]

(* loadToday: the gate lets one request through; a second one is dropped.    *)
LoadToday(t, refresh) ==
    IF Pending(t.call) \/ (~refresh /\ t.status \in {"ready", "refreshing"})
    THEN t
    ELSE [t EXCEPT !.status = IF refresh /\ t.shows # "nothing" THEN "refreshing" ELSE "loading",
                   !.call = [phase |-> "sent"]]

(* An acknowledged write makes every earlier picture of today an old one,    *)
(* and refreshTodayAfterWrite asks for a new one.                            *)
AfterWrite(t) ==
    LET older == [t EXCEPT !.shows = IF t.shows = "nothing" THEN t.shows ELSE "old",
                           !.call = IF t.call.phase = "done"
                                    THEN [phase |-> "done", shows |-> "old"] ELSE t.call]
    IN  LoadToday(older, TRUE)

(*--------------------------------- writes ---------------------------------*)
Kinds(r) == {"create", "edit"} \cup
            (IF r = "tasks" THEN {"transition", "archive"} ELSE {"draft", "remove"})
IsEditor(kind) == kind \in {"create", "edit"}
NeedsConfirmation(kind) == kind \in {"archive", "remove"}

\* Mutant: a write does not wait for a load of its list.
CanWrite_DuringLoad(d, kind) ==
    /\ ~Pending(d.write)
    /\ d.editor # "pending" /\ d.action # "pending"
    /\ IsEditor(kind) => d.mode = kind
    /\ (~IsEditor(kind) /\ kind # "draft") => d.sel # 0
    /\ NeedsConfirmation(kind) => d.sure
    /\ kind = "remove" => Selected(d).st \in {"draft", "saved"}

(* runResourceWrite's first guard and beginResourceWrite's conditions.       *)
CanWrite(d, kind) ==
    /\ ~Pending(d.load) /\ ~Pending(d.write)
    /\ d.editor # "pending" /\ d.action # "pending"
    /\ IsEditor(kind) => d.mode = kind
    /\ (~IsEditor(kind) /\ kind # "draft") => d.sel # 0
    /\ NeedsConfirmation(kind) => d.sure
    /\ kind = "remove" => Selected(d).st \in {"draft", "saved"}

BeginWrite(d, kind) ==
    LET key == IF d.sel # 0 /\ kind \notin {"create", "draft"} THEN Selected(d).key ELSE 0
        begun == [d EXCEPT !.write = [phase |-> "sent", kind |-> kind, key |-> key]]
    IN  IF IsEditor(kind) THEN [begun EXCEPT !.editor = "pending"]
                          ELSE [begun EXCEPT !.action = "pending"]

\* Mutant: only the editor is told that the write failed.
FailResourceWrite_Editor(d, outcome) ==
    [d EXCEPT !.write = NoCall, !.editor = IF @ = "pending" THEN outcome ELSE @]

(* failResourceWrite: the editor before the action, whichever is pending.    *)
FailResourceWrite(d, outcome) ==
    LET ended == [d EXCEPT !.write = NoCall]
    IN  CASE d.editor = "pending" -> [ended EXCEPT !.editor = outcome]
          [] d.editor # "pending" /\ d.action = "pending" -> [ended EXCEPT !.action = outcome]
          [] OTHER -> ended

(* What completeResourceWrite does to list, selection and editor; a result   *)
(* that does not fit what is selected is reported as a failure.              *)
Settle(d) == [d EXCEPT !.write = NoCall, !.mode = "none", !.sure = FALSE,
                       !.editor = IF d.editor = "pending" THEN "idle" ELSE d.editor,
                       !.action = IF d.editor # "pending" THEN "idle" ELSE d.action]

\* Mutant: a draft always goes in front, also one the list has.
PutDraft_InFront(d, item) ==
    [d EXCEPT !.items = <<item>> \o @, !.sel = 1, !.mode = "edit"]

PutDraft(d, item) ==
    LET at == IndexOf(d, item.key)
    IN  [d EXCEPT !.items = IF at > 0 THEN [d.items EXCEPT ![at] = item]
                                      ELSE <<item>> \o d.items,
                  !.sel = IF at > 0 THEN at ELSE 1,
                  !.mode = "edit"]

WriteFits(d, kind, item) ==
    /\ d.editor = "pending" \/ d.action = "pending"
    /\ kind \notin {"create", "draft"} => d.sel # 0 /\ Selected(d).key = item.key

CompleteResourceWrite(r, d, kind, item) ==
    CASE ~WriteFits(d, kind, item) -> FailResourceWrite(d, "error")
      [] WriteFits(d, kind, item) /\ kind = "draft" ->
            [PutDraft(d, item) EXCEPT !.write = NoCall, !.action = "idle"]
      [] WriteFits(d, kind, item) /\ kind = "remove" ->
            [Settle(d) EXCEPT !.items = RemoveAt(d.items, d.sel), !.sel = 0, !.mode = d.mode]
      [] WriteFits(d, kind, item) /\ kind = "create" ->
            [Settle(d) EXCEPT !.items = IF r = "diaries" THEN <<item>> \o d.items
                                                         ELSE Append(d.items, item),
                              !.sel = IF r = "diaries" THEN 1 ELSE Len(d.items) + 1]
      [] OTHER -> [Settle(d) EXCEPT !.items = [d.items EXCEPT ![d.sel] = item]]

PageAfter(r, kind) == CASE kind = "remove" -> <<r, "list">>
                        [] kind = "draft" -> <<r, "edit">>
                        [] OTHER -> <<r, "detail">>

(*-------------------------------- the user --------------------------------*)
Here(r, pages) == open /\ \E p \in pages : view = <<r, p>>

(* The portal: the dialog opens and ensureTodayLoaded runs.                  *)
OpenDialog ==
    /\ ~open
    /\ open' = TRUE
    /\ today' = LoadToday(today, FALSE)
    /\ Spend(Started(today, today'))
    /\ UNCHANGED <<server, acked, view, domain, stepWrites, stepCall, prop, stray, breaks>>

RefreshToday ==
    /\ open /\ view = Today
    /\ today' = LoadToday(today, TRUE)
    /\ today' # today /\ Spend(1)
    /\ UNCHANGED <<server, acked, view, open, domain, stepWrites, stepCall, prop, stray, breaks>>

OpenResource(r) ==
    /\ open /\ view = Today
    /\ view' = <<r, "list">>
    /\ domain' = IF domain[r].status \in {"unloaded", "error"}
                 THEN [domain EXCEPT ![r] = LoadResource(@, domain[r].status = "error", 0)]
                 ELSE domain
    /\ Spend(Started(domain, domain'))
    /\ UNCHANGED <<server, acked, open, stepWrites, stepCall, today, prop, stray, breaks>>

(* openResourceItem: an item clicked on Today; it is selected at once when   *)
(* its list is there, else when the load it starts has ended.                *)
OpenResourceItem(r, k) ==
    /\ open /\ view = Today /\ today.shows # "nothing" /\ server[r][k].st # "none"
    /\ LET d == domain[r]
           at == IndexOf(d, k)
       IN  IF d.status = "ready"
           THEN /\ view' = <<r, IF at > 0 THEN "detail" ELSE "list">>
                /\ domain' = IF at > 0 THEN [domain EXCEPT ![r] = SelectResourceItem(d, at)]
                                       ELSE domain
           ELSE /\ view' = <<r, "list">>
                /\ domain' = [domain EXCEPT ![r] = LoadResource(d, d.status = "error", k)]
    /\ Spend(IF domain[r].load # domain'[r].load THEN 1 ELSE 0)
    /\ UNCHANGED <<server, acked, open, stepWrites, stepCall, today, prop, stray, breaks>>

(* RETRY_LOAD is offered on a list whose load failed.                        *)
RetryLoad(r) ==
    /\ Here(r, {"list"}) /\ domain[r].status = "error"
    /\ domain' = [domain EXCEPT ![r] = LoadResource(@, TRUE, 0)]
    /\ domain' # domain /\ Spend(1)
    /\ UNCHANGED <<server, acked, view, open, stepWrites, stepCall, today, prop, stray, breaks>>

ChooseResourceItem(r, i) ==
    /\ Here(r, {"list"}) /\ i <= Len(domain[r].items)
    /\ domain' = [domain EXCEPT ![r] = SelectResourceItem(@, i)]
    /\ view' = <<r, "detail">>
    /\ UNCHANGED <<server, acked, open, stepWrites, stepCall, today, prop, stray, calls, breaks>>

(* openResourceEditor, from the buttons the pages show.                      *)
OpenResourceEditor(r, mode) ==
    /\ Here(r, {IF mode = "create" THEN "list" ELSE "detail"})
    /\ domain[r].action # "pending"
    /\ mode = "edit" => domain[r].sel # 0
    /\ domain' = [domain EXCEPT ![r].mode = mode, ![r].editor = "idle"]
    /\ view' = <<r, mode>>
    /\ UNCHANGED <<server, acked, open, stepWrites, stepCall, today, prop, stray, calls, breaks>>

SetResourceConfirmation(r, enabled) ==
    /\ Here(r, {"detail"}) /\ domain[r].sel # 0
    /\ domain[r].action # "pending" /\ domain[r].sure # enabled
    /\ domain' = [domain EXCEPT ![r].sure = enabled]
    /\ UNCHANGED <<server, acked, view, open, stepWrites, stepCall, today, prop, stray,
                   calls, breaks>>

PageOf(kind) == CASE IsEditor(kind) -> {kind}
                  [] kind = "draft" -> {"list"}
                  [] OTHER -> {"detail"}

(* submitResource, runTaskAction, generateDiaryDraft, removeDiary: an edit   *)
(* whose item has gone meanwhile fails before anything is sent.              *)
RunResourceWrite(r, kind) ==
    LET d == domain[r]
    IN  /\ Here(r, PageOf(kind)) /\ CanWrite(d, kind)
        /\ domain' = [domain EXCEPT ![r] =
              IF kind = "edit" /\ d.sel = 0
              THEN [d EXCEPT !.editor = "error"]
              ELSE BeginWrite(d, kind)]
        /\ Spend(Started(d.write, domain'[r].write))
        /\ UNCHANGED <<server, acked, view, open, stepWrites, stepCall, today, prop, stray, breaks>>

ClearTransient(d) == [d EXCEPT !.sel = 0, !.mode = "none", !.editor = "idle",
                               !.action = "idle", !.sure = FALSE]

(* backFromResource: refused while something of this list is being written.  *)
BackFromResource(r) ==
    LET d == domain[r]
    IN  /\ Here(r, {"list", "detail", "create", "edit"})
        /\ d.editor # "pending" /\ d.action # "pending"
        /\ r = "tasks" => \A i \in Steps : ~Pending(stepCall[i])
        /\ IF view = <<r, "list">>
           THEN /\ domain' = [domain EXCEPT ![r] = ClearTransient(@)]
                /\ stepWrites' = IF r = "tasks" THEN [i \in Steps |-> "none"] ELSE stepWrites
                /\ view' = Today
           ELSE /\ view' = <<r, IF view[2] = "edit" \/ d.mode = "edit"
                                THEN "detail" ELSE "list">>
                /\ view' # view
                /\ UNCHANGED <<domain, stepWrites>>
        /\ UNCHANGED <<server, acked, open, stepCall, today, prop, stray, calls, breaks>>

(* runStepWrite up to its await: an add, or the toggle of a step the         *)
(* selected task has.                                                        *)
RunStepWrite(i) ==
    LET d == domain["tasks"]
    IN  /\ "tasks" \in Resources /\ Here("tasks", {"detail"}) /\ d.sel # 0
        /\ ~Pending(stepCall[i]) /\ stepWrites[i] # "pending"
        /\ ~Pending(d.write) /\ d.editor # "pending" /\ d.action # "pending"
        /\ i # 0 => i <= Selected(d).steps
        /\ stepWrites' = [stepWrites EXCEPT ![i] = "pending"]
        /\ stepCall' = [stepCall EXCEPT ![i] = [phase |-> "sent", key |-> Selected(d).key]]
        /\ Spend(1)
        /\ UNCHANGED <<server, acked, view, open, domain, today, prop, stray, breaks>>

(*------------------------------- the server -------------------------------*)
Newest(r) == CHOOSE k \in Keys : server[r][k].st = "none"
                               /\ \A j \in Keys : j < k => server[r][j].st # "none"
Drafts(r) == {k \in Keys : server[r][k].st = "draft"}
Room(r) == \E k \in Keys : server[r][k].st = "none"

(* The key a write changes: a new one, or for a draft that of today's draft. *)
Target(r, kind, key) ==
    IF kind = "draft" /\ Drafts(r) # {} THEN CHOOSE k \in Drafts(r) : TRUE
    ELSE IF kind \in {"create", "draft"} THEN Newest(r) ELSE key

StatusAfter(kind, old) == CASE kind = "draft" -> "draft"
                            [] kind = "remove" -> "deleted"
                            [] kind \in {"create", "edit"} -> "saved"
                            [] OTHER -> old

Applied(r, kind, key) ==
    LET k == Target(r, kind, key)
        old == server[r][k]
        changed == IF kind = "draft" /\ old.st = "draft" THEN old.ver ELSE old.ver + 1
    IN  [server EXCEPT ![r][k] = [ver |-> changed, st |-> StatusAfter(kind, old.st),
                                  steps |-> old.steps]]

CanApply(r, kind, key) ==
    IF kind \in {"create", "draft"} THEN Room(r) \/ (kind = "draft" /\ Drafts(r) # {})
                                   ELSE server[r][key].st # "deleted"

ServeLoad(r) ==
    /\ domain[r].load.phase = "sent"
    /\ domain' = [domain EXCEPT ![r].load =
                     [phase |-> "done", want |-> @.want, items |-> ServerList(r)]]
    /\ UNCHANGED <<server, acked, view, open, stepWrites, stepCall, today, prop, stray,
                   calls, breaks>>

ServeToday ==
    /\ today.call.phase = "sent"
    /\ today' = [today EXCEPT !.call = [phase |-> "done", shows |-> "new"]]
    /\ UNCHANGED <<server, acked, view, open, domain, stepWrites, stepCall, prop, stray,
                   calls, breaks>>

ServeWrite(r) ==
    LET w == domain[r].write
    IN  /\ w.phase = "sent" /\ CanApply(r, w.kind, w.key)
        /\ server' = Applied(r, w.kind, w.key)
        /\ domain' = [domain EXCEPT ![r].write =
                [phase |-> "done", kind |-> w.kind, key |-> w.key,
                 item |-> [key |-> Target(r, w.kind, w.key)]
                          @@ server'[r][Target(r, w.kind, w.key)]]]
        /\ UNCHANGED <<acked, view, open, stepWrites, stepCall, today, prop, stray,
                       calls, breaks>>

ServeStray(w) ==
    /\ w \in stray
    /\ CanApply(w.r, w.kind, w.key)
    /\ server' = Applied(w.r, w.kind, w.key)
    /\ stray' = stray \ {w}
    /\ UNCHANGED <<acked, view, open, domain, stepWrites, stepCall, today, prop, calls, breaks>>

(* A step write that was aborted is left out of stray: it only adds to what  *)
(* the next load shows.                                                      *)
ServeStep(i) ==
    /\ stepCall[i].phase = "sent"
    /\ stepCall' = [stepCall EXCEPT ![i].phase = "done"]
    /\ server' = IF i = 0 THEN [server EXCEPT !["tasks"][stepCall[i].key].steps = @ + 1]
                           ELSE server
    /\ UNCHANGED <<acked, view, open, domain, stepWrites, today, prop, stray, calls, breaks>>

(*------------------------------- the answers ------------------------------*)
(* loadResource after its await: a load whose status was taken over by a     *)
(* confirmed draft is dropped.                                               *)
LoadAnswered(r) ==
    LET d == domain[r]
        shown == [d EXCEPT !.items = d.load.items, !.status = "ready", !.sel = 0,
                           !.load = NoCall]
        at == IndexOf(shown, d.load.want)
    IN  /\ d.load.phase = "done"
        /\ IF ~Loading(d)
           THEN domain' = [domain EXCEPT ![r].load = NoCall] /\ UNCHANGED view
           ELSE IF d.load.want # 0 /\ at > 0
           THEN domain' = [domain EXCEPT ![r] = SelectResourceItem(shown, at)]
                /\ view' = <<r, "detail">>
           ELSE domain' = [domain EXCEPT ![r] = shown] /\ UNCHANGED view
        /\ UNCHANGED <<server, acked, open, stepWrites, stepCall, today, prop, stray,
                       calls, breaks>>

LoadRefused(r) ==
    /\ Pending(domain[r].load)
    /\ domain' = [domain EXCEPT ![r] = FailResourceLoad(@, "error")]
    /\ UNCHANGED <<server, acked, view, open, stepWrites, stepCall, today, prop, stray,
                   calls, breaks>>

TodayAnswered ==
    /\ today.call.phase = "done"
    /\ today' = [status |-> "ready", shows |-> today.call.shows, call |-> NoCall]
    /\ UNCHANGED <<server, acked, view, open, domain, stepWrites, stepCall, prop, stray,
                   calls, breaks>>

TodayRefused ==
    /\ Pending(today.call)
    /\ today' = [today EXCEPT !.status = "error", !.call = NoCall]
    /\ UNCHANGED <<server, acked, view, open, domain, stepWrites, stepCall, prop, stray,
                   calls, breaks>>

(* runResourceWrite after its await.                                         *)
WriteAnswered(r) ==
    LET d == domain[r]
        item == d.write.item
        fits == WriteFits(d, d.write.kind, item)
    IN  /\ d.write.phase = "done"
        /\ domain' = [domain EXCEPT ![r] = CompleteResourceWrite(r, d, d.write.kind, item)]
        /\ view' = IF fits THEN PageAfter(r, d.write.kind) ELSE view
        /\ acked' = IF fits THEN [acked EXCEPT ![r][item.key] = item.ver] ELSE acked
        /\ today' = IF fits THEN AfterWrite(today) ELSE today
        /\ UNCHANGED <<server, open, stepWrites, stepCall, prop, stray, calls, breaks>>

(* Refused by the server, or timed out: then it may have been applied.       *)
WriteRefused(r) ==
    /\ Pending(domain[r].write)
    /\ domain' = [domain EXCEPT ![r] = FailResourceWrite(@, "error")]
    /\ UNCHANGED <<server, acked, view, open, stepWrites, stepCall, today, prop, stray,
                   calls, breaks>>

(* runStepWrite after its await: an added step goes to whatever task is      *)
(* selected, a toggled one only to its own.                                  *)
StepFits(d, i) ==
    /\ d.sel # 0 /\ stepWrites[i] = "pending"
    /\ i # 0 => (i <= Selected(d).steps /\ Selected(d).key = stepCall[i].key)

StepAnswered(i) ==
    LET d == domain["tasks"]
        fits == StepFits(d, i)
    IN  /\ stepCall[i].phase = "done"
        /\ stepCall' = [stepCall EXCEPT ![i] = NoCall]
        /\ stepWrites' = [stepWrites EXCEPT ![i] =
                            IF fits THEN "idle" ELSE IF @ = "pending" THEN "error" ELSE @]
        /\ domain' = IF fits /\ i = 0
                     THEN [domain EXCEPT !["tasks"].items[d.sel].steps = @ + 1] ELSE domain
        /\ today' = IF fits THEN AfterWrite(today) ELSE today
        /\ UNCHANGED <<server, acked, view, open, prop, stray, calls, breaks>>

StepRefused(i) ==
    /\ Pending(stepCall[i])
    /\ stepCall' = [stepCall EXCEPT ![i] = NoCall]
    /\ stepWrites' = [stepWrites EXCEPT ![i] = IF @ = "pending" THEN "error" ELSE @]
    /\ UNCHANGED <<server, acked, view, open, domain, today, prop, stray, calls, breaks>>

(*-------------------------- network and dialog ----------------------------*)
Aborted == {[r |-> r, kind |-> domain[r].write.kind, key |-> domain[r].write.key] :
               r \in {q \in Resources : domain[q].write.phase = "sent"}}

(* handleOffline and handleDialogClose end every load, write and step write  *)
(* of the lists, the first with an error to retry, the second silently.      *)
FailAll(d, loadOutcome, writeOutcome) ==
    FailResourceWrite(IF Pending(d.load) THEN FailResourceLoad(d, loadOutcome) ELSE d, writeOutcome)
FailSteps(outcome) ==
    /\ stepWrites' = [i \in Steps |-> IF Pending(stepCall[i]) /\ stepWrites[i] = "pending"
                                      THEN outcome ELSE stepWrites[i]]
    /\ stepCall' = [i \in Steps |-> NoCall]

FailPending(t) == IF Pending(t.call) THEN [t EXCEPT !.status = "error", !.call = NoCall] ELSE t

(* Today is failed too, but only while it is the page shown.                 *)
HandleOffline ==
    /\ breaks < MaxBreaks /\ breaks' = breaks + 1
    /\ domain' = [r \in Resources |->
                    IF Pending(domain[r].load) \/ Pending(domain[r].write)
                    THEN FailAll(domain[r], "error", "error") ELSE domain[r]]
    /\ stray' = stray \cup Aborted
    /\ FailSteps("error")
    /\ today' = IF view = Today THEN FailPending(today) ELSE today
    /\ UNCHANGED <<server, acked, view, open, prop, calls>>

(* handleOnline repeats what failed on the page shown.                       *)
HandleOnline ==
    /\ open /\ breaks > 0
    /\ IF view = Today
       THEN /\ today.status = "error"
            /\ today' = LoadToday(today, TRUE) /\ UNCHANGED domain
       ELSE /\ domain[view[1]].status = "error"
            /\ domain' = [domain EXCEPT ![view[1]] = LoadResource(@, TRUE, 0)]
            /\ UNCHANGED today
    /\ <<domain, today>>' # <<domain, today>> /\ Spend(1)
    /\ UNCHANGED <<server, acked, view, open, stepWrites, stepCall, prop, stray, breaks>>

HandleDialogClose ==
    /\ open /\ breaks < MaxBreaks
    /\ breaks' = breaks + 1 /\ open' = FALSE
    /\ domain' = [r \in Resources |->
                    ClearTransient(FailAll(domain[r], "error", "idle"))]
    /\ stray' = stray \cup Aborted
    /\ stepCall' = [i \in Steps |-> NoCall]
    /\ stepWrites' = [i \in Steps |-> "none"]
    /\ view' = Today
    /\ UNCHANGED <<server, acked, today, prop, calls>>

(*----------------------------- the action card ----------------------------*)
(* initActionProposal: a proposal is previewed at once, and run only after   *)
(* the user confirmed what the preview showed.                               *)
TargetIsAvailable(act, key) ==
    act = "complete_task" => IndexOf(domain["tasks"], key) > 0

Preview(card) ==
    /\ IF TargetIsAvailable(card.act, card.key)
       THEN prop' = [card EXCEPT !.status = "previewing", !.call = [phase |-> "sent"]] /\ Spend(1)
       ELSE prop' = [card EXCEPT !.status = "preview_error"] /\ UNCHANGED calls

CardOnly == UNCHANGED <<server, acked, view, open, domain, stepWrites, stepCall, today,
                        stray, breaks>>

InjectProposal(act, key) ==
    /\ prop.status = "idle"
    /\ ResourceOf(act) \in Resources /\ (act # "complete_task" => key = 0)
    /\ act = "complete_task" => (key # 0 /\ server["tasks"][key].st # "none")
    /\ Preview([NoCard EXCEPT !.act = act, !.key = key])
    /\ CardOnly

RetryPreview == prop.status = "preview_error" /\ Preview(prop) /\ CardOnly

PreviewAnswered ==
    /\ prop.status = "previewing"
    /\ prop' = [prop EXCEPT !.status = "preview_ready", !.call = NoCall]
    /\ CardOnly /\ UNCHANGED calls

PreviewRefused ==
    /\ prop.status = "previewing"
    /\ prop' = [prop EXCEPT !.status = "preview_error", !.call = NoCall]
    /\ CardOnly /\ UNCHANGED calls

(* Also retryConfirm: a retry is a new request with a key of its own.        *)
Confirm ==
    /\ prop.status \in {"preview_ready", "confirm_error"}
    /\ prop' = [prop EXCEPT !.status = "confirming", !.call = [phase |-> "sent"]]
    /\ Spend(1) /\ CardOnly

KindOf(act) == CASE act = "create_task" -> "create"
                 [] act = "complete_task" -> "transition"
                 [] OTHER -> "draft"

ServeConfirm ==
    LET r == ResourceOf(prop.act)
        kind == KindOf(prop.act)
    IN  /\ prop.status = "confirming" /\ prop.call.phase = "sent"
        /\ CanApply(r, kind, prop.key)
        /\ server' = Applied(r, kind, prop.key)
        /\ prop' = [prop EXCEPT !.call =
                [phase |-> "done", item |-> [key |-> Target(r, kind, prop.key)]
                                            @@ server'[r][Target(r, kind, prop.key)]]]
        /\ UNCHANGED <<acked, view, open, domain, stepWrites, stepCall, today, stray,
                       calls, breaks>>

(* commitConfirmedActionResult: into the list where it is loaded; a draft    *)
(* is put there and opened in the editor whatever the list is doing.         *)
CommitConfirmedActionResult(act, d, item) ==
    LET at == IndexOf(d, item.key)
    IN  CASE act = "draft_diary" ->
               [PutDraft(d, item) EXCEPT !.status = "ready", !.editor = "idle"]
          [] act # "draft_diary" /\ at > 0 /\ (act = "complete_task" \/ d.status = "ready") ->
               [d EXCEPT !.items[at] = item]
          [] act = "create_task" /\ at = 0 /\ d.status = "ready" ->
               [d EXCEPT !.items = Append(@, item)]
          [] OTHER -> d

(* What the card's answer shows may be older than what a list just showed,   *)
(* so it is no longer counted as acknowledged.                               *)
ConfirmAnswered ==
    LET r == ResourceOf(prop.act)
    IN  /\ prop.status = "confirming" /\ prop.call.phase = "done"
        /\ domain' = [domain EXCEPT ![r] = CommitConfirmedActionResult(prop.act, @, prop.call.item)]
        /\ view' = IF prop.act = "draft_diary" THEN <<"diaries", "edit">> ELSE view
        /\ acked' = [acked EXCEPT ![r][prop.call.item.key] = 0]
        /\ prop' = [prop EXCEPT !.status = "success", !.call = NoCall]
        /\ UNCHANGED <<server, open, stepWrites, stepCall, today, stray, calls, breaks>>

ConfirmRefused ==
    /\ prop.status = "confirming"
    /\ prop' = [prop EXCEPT !.status = "confirm_error", !.call = NoCall]
    /\ CardOnly /\ UNCHANGED calls

CancelCard ==
    /\ prop.status \in {"preview_ready", "preview_error", "confirm_error"}
    /\ prop' = [prop EXCEPT !.status = "cancelled"]
    /\ CardOnly /\ UNCHANGED calls

DismissCard ==
    /\ prop.status \in {"success", "cancelled"}
    /\ prop' = NoCard
    /\ CardOnly /\ UNCHANGED calls

(*------------------------------ specification -----------------------------*)
Click ==
    \/ OpenDialog \/ RefreshToday
    \/ \E r \in Resources :
        \/ OpenResource(r) \/ RetryLoad(r) \/ BackFromResource(r)
        \/ \E k \in Keys : OpenResourceItem(r, k) \/ ChooseResourceItem(r, k)
        \/ \E mode \in {"create", "edit"} : OpenResourceEditor(r, mode)
        \/ \E on \in BOOLEAN : SetResourceConfirmation(r, on)
        \/ \E kind \in Kinds(r) : RunResourceWrite(r, kind)
    \/ \E i \in Steps : RunStepWrite(i)
    \/ \E act \in Proposals, k \in Keys \cup {0} : InjectProposal(act, k)
    \/ RetryPreview \/ Confirm \/ CancelCard \/ DismissCard

Server ==
    \/ \E r \in Resources : ServeLoad(r) \/ ServeWrite(r)
    \/ \E w \in stray : ServeStray(w)
    \/ \E i \in Steps : ServeStep(i)
    \/ ServeToday \/ ServeConfirm

Answer ==
    \/ \E r \in Resources : LoadAnswered(r) \/ LoadRefused(r) \/ WriteAnswered(r) \/ WriteRefused(r)
    \/ \E i \in Steps : StepAnswered(i) \/ StepRefused(i)
    \/ TodayAnswered \/ TodayRefused
    \/ PreviewAnswered \/ PreviewRefused \/ ConfirmAnswered \/ ConfirmRefused

Next == Click \/ Server \/ Answer \/ HandleOffline \/ HandleOnline \/ HandleDialogClose

Spec == Init /\ [][Next]_vars

(*------------------------------- properties -------------------------------*)
(* Every variable has its type: pages that exist, statuses the code names,   *)
(* a selection that points into its list.                                    *)
TypeOK ==
    /\ server \in [Resources -> [Keys -> [ver : Nat, steps : Nat,
                                           st : {"none", "draft", "saved", "deleted"}]]]
    /\ acked \in [Resources -> [Keys -> Nat]]
    /\ view \in {Today} \cup (Resources \X {"list", "detail", "create", "edit"})
    /\ open \in BOOLEAN
    /\ \A r \in Resources : LET d == domain[r] IN
          /\ d.status \in {"unloaded", "loading", "refreshing", "ready", "error"}
          /\ d.sel \in 0..Len(d.items) /\ d.mode \in {"none", "create", "edit"}
          /\ {d.editor, d.action} \subseteq {"idle", "pending", "error"}
          /\ d.sure \in BOOLEAN
          /\ {d.load.phase, d.write.phase} \subseteq {"none", "sent", "done"}
    /\ stepWrites \in [Steps -> {"none", "idle", "pending", "error"}]
    /\ DOMAIN stepCall = Steps
    /\ today.status \in {"unloaded", "loading", "refreshing", "ready", "error"}
    /\ today.shows \in {"nothing", "old", "new"}
    /\ prop.status \in {"idle", "previewing", "preview_ready", "preview_error",
                        "confirming", "confirm_error", "success", "cancelled"}
    /\ calls \in 0..MaxCalls /\ breaks \in 0..MaxBreaks

(* Nothing is shown as under way once its request has ended: wherever a page *)
(* shows a spinner or disables its buttons, an answer is still to come that  *)
(* will release it.  Every way a request can end has to say so (answered,    *)
(* refused, offline, dialog closed), and no other list's way may.            *)
NeverStuck ==
    /\ \A r \in Resources :
          /\ Loading(domain[r]) => Pending(domain[r].load)
          /\ (domain[r].editor = "pending" \/ domain[r].action = "pending")
                => Pending(domain[r].write)
    /\ \A i \in Steps : stepWrites[i] = "pending" => Pending(stepCall[i])
    /\ today.status \in {"loading", "refreshing"} => Pending(today.call)
    /\ prop.status \in {"previewing", "confirming"} => Pending(prop.call)

(* Once the user was told that a change is saved, the list never goes back   *)
(* to an older state of that item and never drops it while it exists, however*)
(* loads, offline events, closings and late answers interleave: a load's     *)
(* picture taken before the change must not arrive after it.                 *)
NoLostWrite ==
    \A r \in Resources : \A k \in Keys : acked[r][k] > 0 =>
        LET at == IndexOf(domain[r], k)
        IN  IF at = 0 THEN server[r][k].st = "deleted"
                      ELSE domain[r].items[at].ver >= acked[r][k]

(* A list shows an item once, whichever of the ways brought it there: a      *)
(* load, an answered create or draft, a confirmed card.                      *)
NoTwins ==
    \A r \in Resources : \A i, j \in DOMAIN domain[r].items :
        domain[r].items[i].key = domain[r].items[j].key => i = j

(*----------- what the screen does not keep (explored by hand) -------------*)
(* Back always leads somewhere while nothing is being written.               *)
WayBack ==
    \A r \in Resources :
        (Here(r, {"list", "detail", "create", "edit"}) /\ ~Pending(domain[r].write))
            => (view = <<r, "detail">> => domain[r].mode # "edit")

(* A write under way is shown as under way.                                  *)
WriteIsShown ==
    \A r \in Resources : Pending(domain[r].write) =>
        (domain[r].editor = "pending" \/ domain[r].action = "pending")

(* With nothing under way and nothing failed, Today shows the last change.   *)
TodayFollows ==
    (today.status = "ready" /\ ~Pending(today.call)) => today.shows = "new"
=============================================================================
