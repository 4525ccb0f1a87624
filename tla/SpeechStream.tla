---------------------------- MODULE SpeechStream ----------------------------
(***************************************************************************)
(* The agent's voice: LuminousTTS keeps one WebSocket to the speech server *)
(* under an asyncio.Lock, and the streams of successive replies take turns *)
(* on it, phrase by phrase.  A reply may be interrupted at any moment; its *)
(* request is then cancelled with the server and the connection kept.      *)
(* The server is external: it works through what it is sent in order, one  *)
(* request at a time, and promises nothing about when.                     *)
(***************************************************************************)
EXTENDS Naturals, FiniteSets, Sequences

CONSTANTS
    Streams,        \* replies to be spoken (strings)
    Phrases,        \* bound: phrases of a reply
    MaxFaults,      \* bound: broken connections
    LateCancelled   \* does the server confirm the cancel of a request that is over

ASSUME SpeechAssumption ==
    /\ IsFiniteSet(Streams) /\ Streams \cap {"prewarm", "aclose", "nobody"} = {}
    /\ Phrases \in Nat /\ MaxFaults \in Nat
    /\ LateCancelled \in BOOLEAN

Users == Streams \cup {"prewarm", "aclose"}
NoRequest == <<"nobody", 0>>

VARIABLES
    held,     \* who has the lock, or "nobody"
    waiters,  \* who waits for it: asyncio.Lock is first come, first served
    phase, asked, started, outcome,   \* of each user
    conn,     \* the stored WebSocket: none, open, or closed by the other side
    sent,     \* messages on their way to the server
    inbox,    \* messages on their way to the agent
    serving,  \* the request the server works on
    spoken,   \* history: each piece of audio, for which request, and whose it was
    late, faults   \* history: timeouts that struck, connections that broke

net == <<conn, sent, inbox, serving>>
vars == <<held, waiters, phase, asked, started, outcome, net, spoken, late, faults>>

Init ==
    /\ held = "nobody" /\ waiters = <<>>
    /\ phase = [u \in Users |-> "new"] /\ asked = [u \in Users |-> <<u, 0>>]
    /\ started = [u \in Users |-> FALSE] /\ outcome = [u \in Users |-> "none"]
    /\ conn = "none" /\ sent = <<>> /\ inbox = <<>> /\ serving = NoRequest
    /\ spoken = {} /\ late = 0 /\ faults = 0

Msg(kind, r) == [kind |-> kind, req |-> r]
Goes(u, to) == phase' = [phase EXCEPT ![u] = to]
Ends(u, how) == outcome' = [outcome EXCEPT ![u] = how]
-----------------------------------------------------------------------------
(* The lock and the connection *)

Begin(u) ==
    /\ phase[u] = "new" /\ Goes(u, "waiting")
    /\ waiters' = Append(waiters, u)
    /\ UNCHANGED <<held, asked, started, outcome, net, spoken, late, faults>>

(* What a user does with a connection that is ready.                       *)
Use(u) == IF u = "prewarm" THEN "releasing" ELSE "idle"

(* _acquire_websocket: a connection that is still open is used again.      *)
Acquire(u) ==
    /\ u # "aclose"
    /\ waiters # <<>> /\ Head(waiters) = u /\ held = "nobody"
    /\ held' = u /\ waiters' = Tail(waiters)
    /\ IF conn = "open" THEN Goes(u, Use(u)) /\ UNCHANGED net
       ELSE /\ Goes(u, "opening")
            /\ conn' = "open" /\ sent' = <<Msg("start", NoRequest)>>
            /\ inbox' = <<>> /\ serving' = NoRequest
    /\ UNCHANGED <<asked, started, outcome, spoken, late, faults>>

Opened(u) ==
    /\ phase[u] = "opening" /\ inbox # <<>>
    /\ inbox' = Tail(inbox)
    /\ Goes(u, Use(u))
    /\ UNCHANGED <<held, waiters, asked, started, outcome, conn, sent, serving, spoken, late, faults>>

Free(u) == held' = "nobody" /\ Goes(u, "done")

(* The except branch of _acquire_websocket: close, then release.           *)
Drop(u) ==
    /\ phase[u] = "dropping" /\ Free(u)
    /\ conn' = "none" /\ UNCHANGED <<sent, inbox, serving>>
    /\ UNCHANGED <<waiters, asked, started, outcome, spoken, late, faults>>

(* A second cancellation strikes while that branch awaits close(): the     *)
(* lock is never released, and each later reply times out waiting for it.  *)
DropCancelled(u) ==
    /\ u \in Streams
    /\ phase[u] = "dropping" /\ Goes(u, "lost")
    /\ conn' = "none" /\ UNCHANGED <<held, sent, inbox, serving>>
    /\ UNCHANGED <<waiters, asked, started, outcome, spoken, late, faults>>

\* Mutant: a connection that failed is used again.
Release_Reused(u) ==
    /\ phase[u] \in {"releasing", "breaking"} /\ Free(u)
    /\ UNCHANGED <<waiters, asked, started, outcome, net, spoken, late, faults>>

(* _release_websocket, in a task of its own that a cancellation cannot     *)
(* reach; a connection that is broken is closed and forgotten.             *)
Release(u) ==
    /\ phase[u] \in {"releasing", "breaking"} /\ Free(u)
    /\ conn' = IF phase[u] = "breaking" THEN "none" ELSE conn
    /\ UNCHANGED <<waiters, asked, started, outcome, sent, inbox, serving, spoken, late, faults>>

(* aclose says goodbye on what is stored, and waits two seconds for the    *)
(* answer, reading past everything else.                                   *)
Close ==
    /\ waiters # <<>> /\ Head(waiters) = "aclose" /\ held = "nobody"
    /\ held' = "aclose" /\ waiters' = Tail(waiters)
    /\ Goes("aclose", IF conn = "none" THEN "releasing" ELSE "parting")
    /\ sent' = IF conn = "open" THEN Append(sent, Msg("bye", NoRequest)) ELSE sent
    /\ UNCHANGED <<asked, started, outcome, conn, inbox, serving, spoken, late, faults>>

Part ==
    /\ phase["aclose"] = "parting"
    /\ \/ inbox # <<>> /\ inbox' = Tail(inbox)
          /\ IF Head(inbox).kind = "ended" THEN Goes("aclose", "breaking") ELSE UNCHANGED phase
       \/ Goes("aclose", "breaking") /\ UNCHANGED inbox
    /\ UNCHANGED <<held, waiters, asked, started, outcome, conn, sent, serving, spoken, late, faults>>
-----------------------------------------------------------------------------
(* A reply: _LuminousSynthesizeStream *)

Speak(u) ==
    /\ u \in Streams /\ phase[u] = "idle" /\ asked[u][2] < Phrases
    /\ asked' = [asked EXCEPT ![u][2] = @ + 1]
    /\ started' = [started EXCEPT ![u] = FALSE]
    /\ sent' = IF conn = "open" THEN Append(sent, Msg("synthesize", asked'[u])) ELSE sent
    /\ Goes(u, "receiving")
    /\ UNCHANGED <<held, waiters, outcome, conn, inbox, serving, spoken, late, faults>>

Finish(u) ==
    /\ u \in Streams /\ phase[u] = "idle"
    /\ Ends(u, "spoken") /\ Goes(u, "releasing")
    /\ UNCHANGED <<held, waiters, asked, started, net, spoken, late, faults>>

Play(u, r) == spoken' = spoken \cup {[for |-> asked[u], of |-> r]}
Fails(u) == Ends(u, "failed") /\ Goes(u, "breaking") /\ UNCHANGED <<started, spoken>>

\* Mutant: audio is played whether or not its start was announced.
Receive_Unannounced(u) ==
    /\ phase[u] = "receiving" /\ inbox # <<>>
    /\ inbox' = Tail(inbox)
    /\ LET m == Head(inbox)
       IN  CASE m.kind = "pcm" -> Play(u, m.req) /\ UNCHANGED <<phase, outcome, started>>
             [] m.kind = "audio_end" /\ m.req = asked[u] -> Goes(u, "idle") /\ UNCHANGED <<outcome, started, spoken>>
             [] m.kind = "audio_start" -> UNCHANGED <<phase, outcome, started, spoken>>
             [] OTHER -> Fails(u)
    /\ UNCHANGED <<held, waiters, asked, conn, sent, serving, late, faults>>

(* _receive_audio: one message.  Raw audio does not say what it is for.    *)
Receive(u) ==
    /\ phase[u] = "receiving" /\ inbox # <<>>
    /\ inbox' = Tail(inbox)
    /\ LET m == Head(inbox)
       IN  CASE m.kind = "pcm" /\ started[u] ->
                    Play(u, m.req) /\ UNCHANGED <<phase, outcome, started>>
             [] m.kind = "audio_start" /\ m.req = asked[u] ->
                    started' = [started EXCEPT ![u] = TRUE] /\ UNCHANGED <<phase, outcome, spoken>>
             [] m.kind = "audio_end" /\ m.req = asked[u] ->
                    Goes(u, "idle") /\ UNCHANGED <<outcome, started, spoken>>
             [] OTHER -> Fails(u)
    /\ UNCHANGED <<held, waiters, asked, conn, sent, serving, late, faults>>

(* A receive on a connection that is closed raises.                        *)
Disconnected(u) ==
    /\ conn = "closed" /\ inbox = <<>>
    /\ \/ phase[u] = "receiving" /\ Goes(u, "breaking")
       \/ phase[u] = "opening" /\ Goes(u, "dropping")
    /\ Ends(u, "failed")
    /\ UNCHANGED <<held, waiters, asked, started, net, spoken, late, faults>>

(* Who is cancelled while he waits for the lock leaves the queue.          *)
Leaves(u) ==
    \E i \in DOMAIN waiters :
        /\ waiters[i] = u
        /\ waiters' = SubSeq(waiters, 1, i - 1) \o SubSeq(waiters, i + 1, Len(waiters))

(* What a cancellation does to a stream, and to the request it waits for.  *)
Cancelled(u, how) ==
    /\ u \in Streams /\ Ends(u, how)
    /\ \/ /\ phase[u] = "waiting" /\ Goes(u, "done")
          /\ Leaves(u) /\ UNCHANGED sent
       \/ /\ phase[u] = "opening" /\ Goes(u, "dropping") /\ UNCHANGED <<waiters, sent>>
       \/ /\ phase[u] = "idle" /\ Goes(u, IF how = "failed" THEN "breaking" ELSE "releasing")
          /\ UNCHANGED <<waiters, sent>>
       \/ /\ phase[u] = "receiving" /\ Goes(u, "cancelling")
          /\ sent' = IF conn = "open" THEN Append(sent, Msg("cancel", asked[u])) ELSE sent
          /\ UNCHANGED waiters
    /\ UNCHANGED <<held, asked, started, conn, inbox, serving, spoken, faults>>

Interrupt(u) == Cancelled(u, "interrupted") /\ UNCHANGED late

\* Mutant: the time limit does not cover taking the lock and connecting.
TimeOut_RunOnly(u) == phase[u] \in {"idle", "receiving"} /\ Cancelled(u, "failed") /\ late' = late + 1

(* The time limit covers the lock, the connection and the whole reply.     *)
TimeOut(u) == Cancelled(u, "failed") /\ late' = late + 1

After(u) == IF outcome[u] = "failed" THEN "breaking" ELSE "releasing"

(* _cancel_request reads until its own request is over...                  *)
Drain(u) ==
    /\ phase[u] = "cancelling" /\ inbox # <<>>
    /\ inbox' = Tail(inbox)
    /\ IF Head(inbox).kind \in {"cancelled", "audio_end"} /\ Head(inbox).req = asked[u]
       THEN Goes(u, After(u)) ELSE UNCHANGED phase
    /\ UNCHANGED <<held, waiters, asked, started, outcome, conn, sent, serving, spoken, late, faults>>

(* ...or gives up after two seconds, and the connection stays in use.      *)
GiveUp(u) ==
    /\ phase[u] = "cancelling"
    /\ Goes(u, After(u))
    /\ late' = late + 1
    /\ UNCHANGED <<held, waiters, asked, started, outcome, net, spoken, faults>>
-----------------------------------------------------------------------------
(* The speech server *)

Answers(ms) == inbox' = inbox \o ms

Take ==
    /\ conn = "open" /\ sent # <<>>
    /\ LET m == Head(sent)
       IN  CASE m.kind = "start" -> Answers(<<Msg("ready", NoRequest)>>) /\ UNCHANGED serving
             [] m.kind = "synthesize" -> serving = NoRequest /\ serving' = m.req
                                         /\ Answers(<<Msg("audio_start", m.req)>>)
             [] m.kind = "cancel" ->
                    /\ serving' = IF serving = m.req THEN NoRequest ELSE serving
                    /\ Answers(IF serving = m.req \/ LateCancelled THEN <<Msg("cancelled", m.req)>> ELSE <<>>)
             [] m.kind = "bye" -> Answers(<<Msg("ended", NoRequest)>>) /\ UNCHANGED serving
    /\ sent' = Tail(sent)
    /\ UNCHANGED <<held, waiters, phase, asked, started, outcome, conn, spoken, late, faults>>

Synthesize ==
    /\ conn = "open" /\ serving # NoRequest
    /\ Answers(<<Msg("pcm", serving), Msg("audio_end", serving)>>) /\ serving' = NoRequest
    /\ UNCHANGED <<held, waiters, phase, asked, started, outcome, conn, sent, spoken, late, faults>>

Cut ==
    /\ faults < MaxFaults /\ faults' = faults + 1
    /\ conn = "open" /\ conn' = "closed"
    /\ sent' = <<>> /\ serving' = NoRequest
    /\ UNCHANGED <<held, waiters, phase, asked, started, outcome, inbox, spoken, late>>
-----------------------------------------------------------------------------
Turn(u) ==
    \/ Acquire(u) \/ Opened(u) \/ Drop(u) \/ DropCancelled(u) \/ Release(u) \/ Finish(u)
    \/ Receive(u) \/ Disconnected(u) \/ TimeOut(u) \/ Drain(u) \/ GiveUp(u)

Next ==
    \/ \E u \in Users : Begin(u) \/ Turn(u) \/ Speak(u) \/ Interrupt(u)
    \/ Close \/ Part \/ Take \/ Synthesize \/ Cut

Spec == Init /\ [][Next]_vars

(* Every await of a stream is under a time limit; nothing is asked of the  *)
(* server.                                                                 *)
FairSpec == Spec /\ \A u \in Users : WF_vars(Turn(u))
-----------------------------------------------------------------------------
(* Properties *)

(* Every variable has its type: the lock names a user, requests are those  *)
(* of a reply's phrases, messages are of the kinds the protocol has.       *)
Requests == {<<u, n>> : u \in Users, n \in 0..Phrases} \cup {NoRequest}
TypeOK ==
    /\ held \in Users \cup {"nobody"} /\ waiters \in Seq(Users)
    /\ phase \in [Users -> {"new", "waiting", "opening", "idle", "receiving", "cancelling",
                            "dropping", "parting", "releasing", "breaking", "lost", "done"}]
    /\ asked \in [Users -> Requests] /\ started \in [Users -> BOOLEAN]
    /\ outcome \in [Users -> {"none", "spoken", "interrupted", "failed"}]
    /\ conn \in {"none", "open", "closed"} /\ serving \in Requests
    /\ sent \in Seq([kind : {"start", "synthesize", "cancel", "bye"}, req : Requests])
    /\ inbox \in Seq([kind : {"ready", "audio_start", "pcm", "audio_end", "cancelled",
                              "ended"}, req : Requests])
    /\ spoken \subseteq [for : Requests, of : Requests]
    /\ late \in Nat /\ faults \in 0..MaxFaults

(* A lock that is taken has an owner who is still going to release it,     *)
(* unless he was cancelled twice while his connection failed to open.      *)
LockHasOwner == held # "nobody" => phase[held] \notin {"new", "waiting", "done"}

(* Not kept: see DropCancelled.                                            *)
LockIsReturned == \A u \in Users : phase[u] # "lost"

(* What is played in a phrase is the audio of that phrase, also after an   *)
(* interrupted reply has left its messages on the connection.              *)
NoForeignAudio == \A a \in spoken : a.of = a.for

(* A timeout or a broken connection costs one reply at most: a connection  *)
(* out of step is not handed on from reply to reply.                       *)
OneReplyPerFault == Cardinality({u \in Streams : outcome[u] = "failed"}) <= late + faults

(* Every reply comes to an end, whatever the server does.                  *)
EveryReplyEnds == \A u \in Streams : phase[u] = "waiting" ~> phase[u] \in {"done", "lost"}
=============================================================================
