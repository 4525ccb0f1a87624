------------------------------ MODULE VoiceCall ------------------------------
(***************************************************************************)
(* A call from the phone: the page (voice-call.js), the Android plugin and *)
(* foreground service (LiveKitCallPlugin, LiveKitCallService), the agent   *)
(* of the call (livekit_agent.voice_session) and the row of the call in    *)
(* voice_sessions, which all of them write.  update_voice_session reads    *)
(* the row in one statement and writes it in another.  LiveKit itself is   *)
(* external: joining, leaving, deleting a room and dispatching an agent.   *)
(***************************************************************************)
EXTENDS Naturals, FiniteSets, Functions, Sequences

CONSTANTS
    Calls,      \* 1..n, in the order they are created
    MaxMishaps   \* bound: lost requests, deaths, failures and settings switched off

ASSUME VoiceAssumption ==
    /\ IsFiniteSet(Calls) /\ Calls \subseteq Nat \ {0}
    /\ MaxMishaps \in Nat

Writers == {"app", "page", "agent", "exit"}
Active == {"connecting", "connected", "reconnecting"}
Terminal == {"idle", "disconnected", "failed"}

VARIABLES
    row,      \* of each call: status, and whether the room was deleted (gone)
    req,      \* the update of a row each writer has under way
    joined,   \* calls whose room the phone is connected to
    agent,    \* phase of the agent of each call
    page,     \* state of voice-call.js
    pending,  \* the plugin's pendingConnectCall
    intents,  \* ACTION_CONNECT on their way to the service
    svc,      \* the service
    stray,    \* a coroutine in connect() lost its room and has yet to fail
    current,  \* the static currentState
    events,   \* states on their way to the page
    reports,  \* states on their way to the server (CONTROL_EXECUTOR)
    excused,  \* history: calls hit by a fault, a stale write or another call
    mishaps

server == <<row, req>>
phone == <<pending, intents, svc, stray, current, events, reports>>
callVars == <<server, joined, agent, page, phone, excused, mishaps>>

NoUpdate == [at |-> "idle", want |-> "created", gone |-> FALSE, seen |-> "created"]
NoService == [alive |-> FALSE, doomed |-> FALSE, stopping |-> FALSE, reported |-> FALSE,
              call |-> 0, at |-> "off", ready |-> FALSE]
FreshPage == [state |-> "idle", call |-> 0, creating |-> FALSE, closing |-> "no", ends |-> 0,
              listening |-> TRUE]
Idle == [status |-> "idle", call |-> 0]

CallInit ==
    /\ row = [c \in Calls |-> [status |-> "none", gone |-> FALSE]]
    /\ req = [c \in Calls |-> [w \in Writers |-> NoUpdate]]
    /\ joined = {} /\ agent = [c \in Calls |-> "none"]
    /\ page = FreshPage /\ pending = 0 /\ intents = <<>>
    /\ svc = NoService /\ stray = FALSE /\ current = Idle /\ events = <<>> /\ reports = <<>>
    /\ excused = {} /\ mishaps = 0

Fault(c) ==
    /\ mishaps < MaxMishaps /\ mishaps' = mishaps + 1
    /\ excused' = excused \cup {c}

(* The main thread delivers a state, and resumes a coroutine, sooner than  *)
(* a user clicks or a server answers.                                      *)
Settled == events = <<>> /\ ~stray
-----------------------------------------------------------------------------
(* The row: update_voice_session and end_session *)

\* Mutant: a call that has failed stays so.
Moves_FailedIsFinal ==
    [s \in {"created", "connecting", "connected", "reconnecting", "failed", "ended"} |->
        CASE s = "created" -> Active \cup {"ended", "failed"}
          [] s \in Active -> {"connected", "reconnecting", "ended", "failed"} \ {s}
          [] OTHER -> {}]

Moves == [created |-> Active \cup {"ended", "failed"},
          connecting |-> {"connected", "reconnecting", "ended", "failed"},
          connected |-> {"reconnecting", "ended", "failed"},
          reconnecting |-> {"connected", "ended", "failed"},
          failed |-> {"ended"},
          ended |-> {}]

Moved(seen, want) == IF want \in Moves[seen] THEN want ELSE seen

Update(c, w, want) == [req EXCEPT ![c][w] = [NoUpdate EXCEPT !.at = "read", !.want = want]]
End(c, w) == [req EXCEPT ![c][w] = [NoUpdate EXCEPT !.at = "delete", !.want = "ended"]]

Exists(c) == c \in joined \/ agent[c] \in {"warming", "telling", "serving"}

(* Deleting the room disconnects everyone in it; it fails if there is none.*)
DeleteRoom(c, w) ==
    /\ Settled /\ req[c][w].at = "delete"
    /\ req' = [req EXCEPT ![c][w].at = "read", ![c][w].gone = row[c].gone \/ Exists(c)]
    /\ joined' = IF row[c].gone THEN joined ELSE joined \ {c}
    /\ UNCHANGED <<row, agent, page, phone, excused, mishaps>>

ReadRow(c, w) ==
    /\ Settled /\ req[c][w].at = "read"
    /\ req' = [req EXCEPT ![c][w].at = "write", ![c][w].seen = row[c].status,
                          ![c][w].gone = @ \/ row[c].gone]
    /\ UNCHANGED <<row, joined, agent, page, phone, excused, mishaps>>

(* The row is written as it was read, whatever has happened to it since.   *)
WriteRow(c, w) ==
    LET u == req[c][w]
    IN  /\ Settled /\ u.at = "write"
        /\ row' = [row EXCEPT ![c] = [status |-> Moved(u.seen, u.want), gone |-> u.gone]]
        /\ req' = [req EXCEPT ![c][w] = NoUpdate]
        /\ excused' = IF u.seen # row[c].status THEN excused \cup {c} ELSE excused
        /\ UNCHANGED <<joined, agent, page, phone, mishaps>>

Serve(c, w) == DeleteRoom(c, w) \/ ReadRow(c, w) \/ WriteRow(c, w)

(* A request of the phone is lost, before or after it had its effect.      *)
LoseRequest(c, w) ==
    /\ Settled /\ w \in {"app", "page"} /\ req[c][w].at # "idle"
    /\ Fault(c)
    /\ req' = [req EXCEPT ![c][w] = NoUpdate]
    /\ UNCHANGED <<row, joined, agent, page, phone>>
-----------------------------------------------------------------------------
(* The agent *)

AgentDoes(c, from, to) == Settled /\ agent[c] = from /\ agent' = [agent EXCEPT ![c] = to]

AgentStarts(c) ==
    /\ AgentDoes(c, "dispatched", "starting")
    /\ req' = Update(c, "agent", "connecting")
    /\ UNCHANGED <<row, joined, page, phone, excused, mishaps>>

AgentJoins(c) ==
    /\ req[c]["agent"].at = "idle" /\ c \in joined
    /\ AgentDoes(c, "starting", "warming")
    /\ UNCHANGED <<server, joined, page, phone, excused, mishaps>>

(* The greeting has been played: agent_ready goes to the phone.            *)
AgentReady(c) ==
    /\ AgentDoes(c, "warming", "telling")
    /\ req' = Update(c, "agent", "connected")
    /\ svc' = IF svc.call = c /\ svc.at = "waiting" THEN [svc EXCEPT !.ready = TRUE] ELSE svc
    /\ UNCHANGED <<row, joined, page, pending, intents, stray, current, events, reports, excused, mishaps>>

AgentServes(c) ==
    /\ req[c]["agent"].at = "idle"
    /\ AgentDoes(c, "telling", "serving")
    /\ UNCHANGED <<server, joined, page, phone, excused, mishaps>>

(* Connecting, starting or the greeting raises: the row is marked failed.  *)
AgentFails(c) ==
    /\ Fault(c) /\ Settled
    /\ req[c]["agent"].at = "idle"
    /\ agent[c] \in {"starting", "warming"} /\ agent' = [agent EXCEPT ![c] = "failing"]
    /\ req' = Update(c, "agent", "failed")
    /\ UNCHANGED <<row, joined, page, phone>>

(* The room is empty: the shutdown callback runs, beside an update that is *)
(* still under way in its thread.                                          *)
AgentLeaves(c) ==
    /\ Settled
    /\ agent[c] \in {"starting", "warming", "telling", "serving", "failing"} /\ c \notin joined
    /\ agent' = [agent EXCEPT ![c] = "leaving"]
    /\ req' = Update(c, "exit", "ended")
    /\ UNCHANGED <<row, joined, page, phone, excused, mishaps>>

AgentGone(c) ==
    /\ req[c]["exit"].at = "idle" /\ req[c]["agent"].at = "idle"
    /\ AgentDoes(c, "leaving", "gone")
    /\ UNCHANGED <<server, joined, page, phone, excused, mishaps>>

AgentDies(c) ==
    /\ Fault(c) /\ Settled
    /\ agent[c] \notin {"none", "gone"} /\ agent' = [agent EXCEPT ![c] = "gone"]
    /\ req' = [req EXCEPT ![c]["agent"] = NoUpdate, ![c]["exit"] = NoUpdate]
    /\ UNCHANGED <<row, joined, page, phone>>

Agent(c) ==
    AgentStarts(c) \/ AgentJoins(c) \/ AgentReady(c) \/ AgentServes(c) \/ AgentLeaves(c) \/ AgentGone(c)
-----------------------------------------------------------------------------
(* The service.  An operator S \o a step computes the service after it.    *)

(* publishState: the notification, the report and the observers.           *)
Publish(s, status, c) ==
    LET terminal == status \in {"disconnected", "failed"}
        reported == s.alive /\ c # 0 /\ ~(terminal /\ s.reported)
    IN  /\ current' = [status |-> status, call |-> c]
        /\ events' = Append(events, current')
        /\ reports' = IF reported THEN Append(reports, current') ELSE reports
        /\ svc' = [s EXCEPT !.reported = @ \/ (reported /\ terminal)]

\* Mutant: the microphone stays on when the service stops.
Torn_Open(s) == [s EXCEPT !.ready = FALSE]

(* teardownRoom; a coroutine waiting in connect() fails a little later.    *)
Torn(s) == [s EXCEPT !.at = "off", !.ready = FALSE]
Waits(s) == s.at \in {"joining", "waiting"}

(* failAndStop and disconnectAndStop.                                      *)
Stop(status) ==
    /\ Publish([Torn(svc) EXCEPT !.stopping = TRUE, !.doomed = TRUE], status, svc.call)
    /\ joined' = joined \ {svc.call}

StartCall ==
    /\ intents # <<>> /\ ~(svc.alive /\ svc.doomed)
    /\ LET c == Head(intents)
       IN  /\ Publish([NoService EXCEPT !.alive = TRUE, !.call = c, !.at = "joining"], "connecting", c)
           /\ joined' = joined \ {svc.call}
           /\ excused' = IF svc.at # "off" THEN excused \cup {svc.call} ELSE excused
    /\ stray' = (stray \/ Waits(svc))
    /\ intents' = Tail(intents)
    /\ UNCHANGED <<server, agent, page, pending, mishaps>>

(* The room is created with the first to join, and an agent dispatched.    *)
Join ==
    /\ svc.at = "joining"
    /\ svc' = [svc EXCEPT !.at = "waiting"]
    /\ joined' = joined \cup {svc.call}
    /\ agent' = IF Exists(svc.call) \/ agent[svc.call] \notin {"none", "gone"} THEN agent
                ELSE [agent EXCEPT ![svc.call] = "dispatched"]
    /\ UNCHANGED <<server, page, pending, intents, stray, current, events, reports, excused, mishaps>>

GoLive ==
    /\ svc.at = "waiting" /\ svc.ready /\ svc.call \in joined
    /\ Publish([svc EXCEPT !.at = "live"], "connected", svc.call)
    /\ UNCHANGED <<server, joined, agent, page, pending, intents, stray, excused, mishaps>>

\* Mutant: there is no timeout for an agent that is never ready.
GiveUpCall_Patient ==
    /\ svc.at \in {"waiting", "live"} /\ svc.call \notin joined
    /\ Stop("failed")
    /\ UNCHANGED <<server, agent, page, pending, intents, stray, excused, mishaps>>

(* The agent is not ready in 45 seconds, or the room is gone.              *)
GiveUpCall ==
    /\ \/ svc.at = "waiting" /\ ~svc.ready
       \/ svc.at \in {"waiting", "live"} /\ svc.call \notin joined
    /\ Stop("failed")
    /\ UNCHANGED <<server, agent, page, pending, intents, stray, excused, mishaps>>

(* LiveKit gives up on the connection, or refuses it.                      *)
LoseRoom ==
    /\ svc.at # "off"
    /\ Fault(svc.call)
    /\ Stop("failed")
    /\ UNCHANGED <<server, agent, page, pending, intents, stray>>

(* RoomEvent.Reconnecting.  Reconnected publishes only while the state is  *)
(* "connected", which it is not after this: the call stays "reconnecting". *)
Reconnecting ==
    /\ svc.at = "live" /\ current.status = "connected"
    /\ Fault(svc.call)
    /\ Publish(svc, "reconnecting", svc.call)
    /\ UNCHANGED <<server, joined, agent, page, pending, intents, stray>>

(* The coroutine that lost its room runs into its catch: failAndStop, with *)
(* the fields of the call the service has by now.                          *)
StrayFails ==
    /\ stray
    /\ Stop("failed")
    /\ stray' = FALSE
    /\ excused' = excused \cup {svc.call}
    /\ UNCHANGED <<server, agent, page, pending, intents, mishaps>>

HangUp ==
    /\ svc.alive /\ ~svc.stopping
    /\ Stop("disconnected")
    /\ stray' = (stray \/ Waits(svc))
    /\ UNCHANGED <<server, agent, page, pending, intents, excused, mishaps>>

(* onDestroy; what still waits in connect() is cancelled with the scope.   *)
Destroy ==
    /\ svc.alive /\ svc.doomed /\ ~stray
    /\ svc' = NoService
    /\ UNCHANGED <<server, joined, agent, page, pending, intents, stray, current, events, reports, excused, mishaps>>

(* The single thread of CONTROL_EXECUTOR posts a state; a terminal one is  *)
(* followed by a DELETE.                                                   *)
Busy == \E c \in Calls : req[c]["app"].at # "idle"

Report ==
    /\ Settled /\ reports # <<>> /\ ~Busy
    /\ LET r == Head(reports)
           ended == [status |-> "ended", call |-> r.call]
       IN  /\ req' = CASE r.status = "ended" -> End(r.call, "app")
                       [] r.status = "disconnected" -> Update(r.call, "app", "ended")
                       [] OTHER -> Update(r.call, "app", r.status)
           /\ reports' = IF r.status \in {"disconnected", "failed"} THEN <<ended>> \o Tail(reports)
                         ELSE Tail(reports)
    /\ UNCHANGED <<row, joined, agent, page, pending, intents, svc, stray, current, events, excused, mishaps>>

Service == StartCall \/ Join \/ GoLive \/ GiveUpCall \/ StrayFails \/ Destroy
-----------------------------------------------------------------------------
(* The page and the plugin *)

Closing(p, how) == IF p.closing # "no" THEN p ELSE [p EXCEPT !.closing = how, !.ends = p.call]

Click ==
    /\ Settled
    /\ page.state = "idle" /\ page.closing = "no" /\ ~page.creating
    /\ \E c \in Calls : row[c].status = "none"
    /\ page' = [page EXCEPT !.state = "connecting", !.creating = TRUE, !.listening = TRUE]
    /\ UNCHANGED <<server, joined, agent, phone, excused, mishaps>>

Upcoming == CHOOSE k \in Calls : row[k].status = "none" /\ \A j \in Calls : j < k => row[j].status # "none"

(* connectCall: with the permissions given, the call that waits for its    *)
(* answer is remembered, and an intent sent to the service.                *)
ConnectCall(c) == pending' = c /\ intents' = Append(intents, c)

(* createSession answers; connectCall hands the call to the service.  If   *)
(* the service or the page is not through with another call, or has not    *)
(* begun with it, the two run into each other.                             *)
SessionCreated ==
    /\ Settled
    /\ page.creating
    /\ LET c == Upcoming
       IN  /\ row' = [row EXCEPT ![c].status = "created"]
           /\ page' = [page EXCEPT !.creating = FALSE, !.call = c]
           /\ ConnectCall(c)
           /\ excused' = IF svc.at # "off" \/ intents # <<>> \/ page.closing # "no"
                         THEN excused \cup {c} \cup Range(intents) ELSE excused
    /\ UNCHANGED <<req, joined, agent, svc, stray, current, events, reports, mishaps>>

(* A click on a call that is up, or the voice settings switched off: that  *)
(* may come before the page knows the call it is creating.                 *)
CloseCall ==
    /\ \/ /\ page.state \in {"connected", "reconnecting"} /\ UNCHANGED mishaps
          /\ excused' = IF page.creating THEN excused \cup {Upcoming} ELSE excused
       \/ page.creating /\ Fault(Upcoming)
       \/ page.state = "connecting" /\ ~page.creating /\ Fault(page.call)
    /\ Settled /\ page.closing = "no"
    /\ page' = Closing(page, "native")
    /\ UNCHANGED <<server, joined, agent, phone>>

(* disconnect of the plugin: through the service, or past it if there is   *)
(* none; in that case the start that is under way is dropped.              *)
CloseNative ==
    /\ page.closing = "native"
    /\ page' = [page EXCEPT !.closing = "end"]
    /\ pending' = 0
    /\ IF svc.alive
       THEN /\ UNCHANGED intents
            /\ IF svc.stopping THEN UNCHANGED <<joined, svc, stray, current, events, reports>>
               ELSE Stop("disconnected") /\ stray' = (stray \/ Waits(svc))
       ELSE /\ Publish(svc, "disconnected", current.call)
            /\ intents' = <<>>
            /\ UNCHANGED <<joined, stray>>
    /\ UNCHANGED <<server, agent, excused, mishaps>>

Closed(p) == [FreshPage EXCEPT !.creating = p.creating, !.listening = FALSE]

CloseSession ==
    /\ page.closing = "end"
    /\ IF page.ends = 0 THEN page' = Closed(page) /\ UNCHANGED req
       ELSE page' = [page EXCEPT !.closing = "wait"] /\ req' = End(page.ends, "page")
    /\ UNCHANGED <<row, joined, agent, phone, excused, mishaps>>

CloseDone ==
    /\ page.closing = "wait" /\ req[page.ends]["page"].at = "idle"
    /\ page' = Closed(page)
    /\ UNCHANGED <<server, joined, agent, phone, excused, mishaps>>

(* onStateChanged of the plugin answers connectCall, whose rejection makes *)
(* the page close; then handleNativeState.                                 *)
Reacts(p, e) ==
    LET q == IF e.call # 0 THEN [p EXCEPT !.call = e.call] ELSE p
    IN  CASE e.status \in Active -> [q EXCEPT !.state = e.status]
          [] e.status = "failed" \/ (e.status = "disconnected" /\ p.state # "idle") -> Closing(q, "end")
          [] OTHER -> q

Deliver ==
    /\ events # <<>>
    /\ LET e == Head(events)
           rejected == pending # 0 /\ e.status \in {"failed", "disconnected"}
           told == IF page.listening THEN Reacts(page, e) ELSE page
       IN  /\ page' = IF rejected THEN Closing(told, "native") ELSE told
           /\ pending' = IF e.status = "connected" \/ rejected THEN 0 ELSE pending
    /\ events' = Tail(events)
    /\ UNCHANGED <<server, joined, agent, intents, svc, stray, current, reports, excused, mishaps>>

(* The app is killed, and opened again.                                    *)
Kill ==
    /\ mishaps < MaxMishaps /\ mishaps' = mishaps + 1
    /\ excused' = excused \cup {c \in Calls : row[c].status \notin {"none", "ended"}}
    /\ req' = [c \in Calls |-> [w \in Writers |-> IF w \in {"app", "page"} THEN NoUpdate ELSE req[c][w]]]
    /\ joined' = {} /\ page' = FreshPage /\ pending' = 0 /\ intents' = <<>>
    /\ svc' = NoService /\ stray' = FALSE /\ current' = Idle /\ events' = <<>> /\ reports' = <<>>
    /\ UNCHANGED <<row, agent>>

Page == SessionCreated \/ CloseNative \/ CloseSession \/ CloseDone \/ Deliver

CallNext ==
    \/ \E c \in Calls : \/ Agent(c) \/ AgentFails(c) \/ AgentDies(c)
                        \/ \E w \in Writers : Serve(c, w) \/ LoseRequest(c, w)
    \/ Service \/ LoseRoom \/ Reconnecting \/ HangUp \/ Report
    \/ Click \/ CloseCall \/ Page \/ Kill

CallSpec == CallInit /\ [][CallNext]_callVars

(* Every await has a timeout, a looper delivers what is posted.            *)
FairCallSpec == CallSpec /\ WF_callVars(Service) /\ WF_callVars(Page)
                         /\ WF_callVars(\E c \in Calls, w \in Writers : Serve(c, w))
-----------------------------------------------------------------------------
(* Properties *)

(* Rows, rooms, page and service have their types.                         *)
CallTypeOK ==
    /\ \A c \in Calls : row[c].status \in {"none"} \cup DOMAIN Moves
    /\ joined \subseteq Calls \cap {svc.call} /\ excused \subseteq Calls
    /\ pending \in Calls \cup {0} /\ svc.call \in Calls \cup {0} /\ current.status \in Active \cup Terminal

(* While the microphone is open, the state of the app, and with it the     *)
(* ongoing notification, says that this call is up.                        *)
MicIsVisible == svc.at = "live" => current.status \in Active /\ current.call = svc.call

(* A call that nobody has anything left to do for is "ended" in the table, *)
(* unless a fault hit it, a writer overwrote what it had not seen, or two  *)
(* calls ran into each other in the service or on the page.                *)
Over(c) ==
    /\ row[c].status # "none" /\ agent[c] \in {"none", "gone"} /\ c \notin joined
    /\ \A w \in Writers : req[c][w].at = "idle"
    /\ page.call # c /\ page.ends # c /\ svc.call # c /\ c \notin Range(intents)
    /\ \A i \in DOMAIN reports : reports[i].call # c

EndedWhenOver == \A c \in Calls : Over(c) => row[c].status = "ended" \/ c \in excused

(* connectCall is answered in the end, one way or the other.               *)
ConnectIsAnswered == \A c \in Calls : pending = c ~> pending # c
=============================================================================
