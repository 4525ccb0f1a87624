------------------------- MODULE SpeechStreamProofs -------------------------
(* Proofs about SpeechStream, for any number of replies, phrases, timeouts  *)
(* and broken connections.                                                  *)
(*                                                                          *)
(* The agent never sees what the server is at; it only knows what it has    *)
(* sent and what it has read.  So the invariant follows one request through *)
(* all three places it can be in (on its way, served, answered), and tells  *)
(* a connection that is in step with its holder (InStep) from one that is   *)
(* not: for each of the latter a timeout or a broken connection has struck  *)
(* that no reply has paid for yet (DebtInv).                                *)
(*                                                                          *)
(* The last part is about VoiceCall, for any number of calls and faults:    *)
(* the service is in the room of the call its state names (ServiceInv), and *)
(* for every call that no fault excuses somebody still has its end to do    *)
(* (CallDebtInv): an update of the row, the service, the page or a message  *)
(* between them.                                                            *)
EXTENDS SpeechStream, VoiceCall, FiniteSetTheorems, SequenceTheorems, WellFoundedInduction, TLAPS

-----------------------------------------------------------------------------
(* The lock                                                                 *)

Holding == {"opening", "idle", "receiving", "cancelling", "dropping", "parting",
            "releasing", "breaking", "lost"}

(* Who is at work on the connection has the lock; who waits for it is in    *)
(* the queue, once, and has not failed.                                     *)
LockInv ==
    /\ \A u \in Users : phase[u] \in Holding => held = u
    /\ held # "nobody" => phase[held] \in Holding
    /\ \A i \in DOMAIN waiters : phase[waiters[i]] = "waiting"
    /\ \A i, j \in DOMAIN waiters : waiters[i] = waiters[j] => i = j
    /\ \A u \in Users : phase[u] \in {"opening", "idle", "receiving", "cancelling"} => conn # "none"
    /\ \A u \in Users : outcome[u] = "failed" =>
          phase[u] \in {"cancelling", "dropping", "breaking", "lost", "done"}

-----------------------------------------------------------------------------
(* Requests *)

(* A request that has been asked belongs to a user, and is not newer than   *)
(* the last one of this user.                                               *)
Asked(r) == r[1] \in Users /\ r[2] <= asked[r[1]][2]

KnownInv ==
    /\ \A u \in Users : asked[u][1] = u /\ asked[u][2] \in Nat
    /\ serving = NoRequest \/ Asked(serving)
    /\ \A i \in DOMAIN sent : sent[i].kind \in {"synthesize", "cancel"} => Asked(sent[i].req)
    /\ \A i \in DOMAIN inbox : inbox[i].kind \in {"audio_start", "pcm"} => Asked(inbox[i].req)

NoSynthesis == \A i \in DOMAIN sent : sent[i].kind # "synthesize"

(* From where the start of this request is announced, all audio is its own. *)
OwnFrom(r, i) == \A j \in DOMAIN inbox : i <= j /\ inbox[j].kind = "pcm" => inbox[j].req = r
OnlyOne(r) == serving \in {NoRequest, r} /\ NoSynthesis

AudioInv ==
    \A u \in Users : phase[u] = "receiving" =>
        /\ started[u] => OwnFrom(asked[u], 1) /\ OnlyOne(asked[u])
        /\ \A i \in DOMAIN inbox : inbox[i] = Msg("audio_start", asked[u]) =>
              OwnFrom(asked[u], i) /\ OnlyOne(asked[u])
        /\ \A i, j \in DOMAIN sent : sent[i] = Msg("synthesize", asked[u]) /\ i < j =>
              sent[j].kind # "synthesize"

-----------------------------------------------------------------------------
(* A connection that is in step *)

OnlyCancels == \A i \in DOMAIN sent : sent[i].kind = "cancel"

(* Nobody waits for an answer and none is coming; a cancel that came too    *)
(* late may still be on its way.                                            *)
Quiet == inbox = <<>> /\ serving = NoRequest /\ OnlyCancels

Opening ==
    /\ serving = NoRequest
    /\ \/ sent = <<Msg("start", NoRequest)>> /\ inbox = <<>>
       \/ sent = <<>> /\ inbox = <<Msg("ready", NoRequest)>>

(* The request of the holder is on its way, ...                             *)
Queued(u) ==
    /\ inbox = <<>> /\ serving = NoRequest
    /\ phase[u] = "receiving" => ~started[u]
    /\ \E k \in DOMAIN sent :
          /\ sent[k] = Msg("synthesize", asked[u])
          /\ \A i \in DOMAIN sent \ {k} : sent[i].kind = "cancel"
          /\ \A i \in DOMAIN sent : i < k => sent[i].req # asked[u]
          /\ phase[u] = "receiving" => k = Len(sent)

(* ... or the server is at it, ...                                          *)
Worked(u) ==
    /\ serving = asked[u] /\ OnlyCancels
    /\ inbox \in {<<>>, <<Msg("audio_start", asked[u])>>}
    /\ phase[u] = "receiving" =>
          /\ started[u] <=> inbox = <<>>
          /\ \A i \in DOMAIN sent : sent[i].req # asked[u]

(* ... or it has been answered.                                             *)
Answered(u) ==
    LET start == Msg("audio_start", asked[u])
        pcm   == Msg("pcm", asked[u])
        end   == Msg("audio_end", asked[u])
        over  == Msg("cancelled", asked[u])
    IN  /\ serving = NoRequest /\ OnlyCancels
        /\ \/ inbox = <<start, pcm, end>> /\ (phase[u] = "receiving" => ~started[u])
           \/ inbox \in {<<pcm, end>>, <<end>>} /\ (phase[u] = "receiving" => started[u])
           \/ inbox \in {<<start, over>>, <<over>>} /\ phase[u] = "cancelling"

Conversation(u) == Queued(u) \/ Worked(u) \/ Answered(u)

(* What the connection looks like depends on what its holder is at.         *)
StepOf(p) ==
    IF p \in {"receiving", "cancelling"} THEN "talk" ELSE IF p = "opening" THEN "open" ELSE "rest"
Place == IF held = "nobody" THEN "rest" ELSE StepOf(phase[held])
Talk == Conversation(held)
InStep == CASE Place = "talk" -> Talk
            [] Place = "open" -> Opening
            [] OTHER -> Quiet

(* A holder that has failed, or is about to close the connection, pays.     *)
Doomed == held # "nobody" /\ (phase[held] \in {"breaking", "dropping", "parting"} \/ outcome[held] = "failed")

Owed == ~Doomed /\ (conn = "closed" \/ (conn = "open" /\ ~InStep))
Failed == {u \in Streams : outcome[u] = "failed"}
DebtInv == Cardinality(Failed) + (IF Owed THEN 1 ELSE 0) <= late + faults

SpeechInv == TypeOK /\ LockInv /\ KnownInv /\ AudioInv /\ NoForeignAudio

-----------------------------------------------------------------------------
(* Sequences *)

LEMMA TailIs ==
  ASSUME NEW S, NEW s \in Seq(S), s # <<>>
  PROVE  /\ Head(s) = s[1] /\ Head(s) \in S /\ Tail(s) \in Seq(S)
         /\ Len(s) \in Nat \ {0} /\ Len(Tail(s)) = Len(s) - 1
         /\ DOMAIN s = 1..Len(s) /\ DOMAIN Tail(s) = 1..(Len(s) - 1)
         /\ \A i \in 1..(Len(s) - 1) : Tail(s)[i] = s[i + 1]
  OBVIOUS

LEMMA AppendIs ==
  ASSUME NEW S, NEW s \in Seq(S), NEW e \in S
  PROVE  /\ Append(s, e) \in Seq(S) /\ Len(s) \in Nat
         /\ Len(Append(s, e)) = Len(s) + 1
         /\ DOMAIN s = 1..Len(s) /\ DOMAIN Append(s, e) = 1..(Len(s) + 1)
         /\ \A i \in 1..Len(s) : Append(s, e)[i] = s[i]
         /\ Append(s, e)[Len(s) + 1] = e
  OBVIOUS

LEMMA WithNothing ==
  ASSUME NEW S, NEW s \in Seq(S)
  PROVE  s \o <<>> = s
  OBVIOUS

LEMMA WithOne ==
  ASSUME NEW S, NEW s \in Seq(S), NEW e \in S
  PROVE  s \o <<e>> = Append(s, e)
  OBVIOUS

LEMMA WithTwo ==
  ASSUME NEW S, NEW s \in Seq(S), NEW e \in S, NEW f \in S
  PROVE  s \o <<e, f>> = Append(Append(s, e), f)
  OBVIOUS

(* One element is taken out.                                                *)
LEMMA WithoutOne ==
  ASSUME NEW S, NEW s \in Seq(S), NEW i \in DOMAIN s,
         NEW t, t = SubSeq(s, 1, i - 1) \o SubSeq(s, i + 1, Len(s))
  PROVE  /\ t \in Seq(S) /\ DOMAIN s = 1..Len(s) /\ Len(s) \in Nat
         /\ DOMAIN t = 1..(Len(s) - 1)
         /\ \A j \in 1..(Len(s) - 1) : t[j] = s[IF j < i THEN j ELSE j + 1]
  <1>0. Len(s) \in Nat /\ DOMAIN s = 1..Len(s) /\ i \in 1..Len(s)
    OBVIOUS
  <1> DEFINE a == SubSeq(s, 1, i - 1)
             b == SubSeq(s, i + 1, Len(s))
  <1>1. a \in Seq(S) /\ Len(a) = i - 1 /\ \A j \in 1..(i - 1) : a[j] = s[j]
    BY <1>0
  <1>2. b \in Seq(S) /\ Len(b) = Len(s) - i /\ \A j \in 1..(Len(s) - i) : b[j] = s[i + j]
    BY <1>0
  <1> HIDE DEF a, b
  <1>3. t = a \o b
    BY DEF a, b
  <1>4. t \in Seq(S) /\ Len(t) = Len(s) - 1
    BY <1>0, <1>1, <1>2, <1>3
  <1>5. ASSUME NEW j \in 1..(Len(s) - 1) PROVE t[j] = s[IF j < i THEN j ELSE j + 1]
    <2>1. CASE j < i
      BY <1>0, <1>1, <1>2, <1>3, <2>1
    <2>2. CASE j >= i
      <3>1. t[j] = b[j - (i - 1)]
        <4>1. j \in 1..(Len(a) + Len(b)) /\ ~(j <= Len(a))
          BY <1>0, <1>1, <1>2, <2>2
        <4>2. (a \o b)[j] = b[j - Len(a)]
          BY <1>1, <1>2, <4>1, ConcatProperties
        <4> QED
          BY <1>1, <1>3, <4>2
      <3>2. j - (i - 1) \in 1..(Len(s) - i) /\ i + (j - (i - 1)) = j + 1
        BY <1>0, <2>2
      <3> QED
        BY <1>0, <1>2, <2>2, <3>1, <3>2
    <2> QED
      BY <1>0, <2>1, <2>2
  <1>6. DOMAIN t = 1..(Len(s) - 1)
    BY <1>4
  <1> QED
    BY <1>0, <1>4, <1>5, <1>6
-----------------------------------------------------------------------------
(* Types *)

Phases == {"new", "waiting", "opening", "idle", "receiving", "cancelling",
           "dropping", "parting", "releasing", "breaking", "lost", "done"}
Outcomes == {"none", "spoken", "interrupted", "failed"}
Outgoing == [kind : {"start", "synthesize", "cancel", "bye"}, req : Requests]
Incoming == [kind : {"ready", "audio_start", "pcm", "audio_end", "cancelled", "ended"}, req : Requests]

LEMMA Types ==
  TypeOK <=>
    /\ held \in Users \cup {"nobody"} /\ waiters \in Seq(Users)
    /\ phase \in [Users -> Phases] /\ asked \in [Users -> Requests]
    /\ started \in [Users -> BOOLEAN] /\ outcome \in [Users -> Outcomes]
    /\ conn \in {"none", "open", "closed"} /\ serving \in Requests
    /\ sent \in Seq(Outgoing) /\ inbox \in Seq(Incoming)
    /\ spoken \subseteq [for : Requests, of : Requests]
    /\ late \in Nat /\ faults \in 0..MaxFaults
  BY DEF TypeOK, Phases, Outcomes, Outgoing, Incoming

TypeOKNext ==
    /\ held' \in Users \cup {"nobody"} /\ waiters' \in Seq(Users)
    /\ phase' \in [Users -> Phases] /\ asked' \in [Users -> Requests]
    /\ started' \in [Users -> BOOLEAN] /\ outcome' \in [Users -> Outcomes]
    /\ conn' \in {"none", "open", "closed"} /\ serving' \in Requests
    /\ sent' \in Seq(Outgoing) /\ inbox' \in Seq(Incoming)
    /\ spoken' \subseteq [for : Requests, of : Requests]
    /\ late' \in Nat /\ faults' \in 0..MaxFaults

LEMMA TypesNext == TypeOKNext => TypeOK'
  BY DEF TypeOK, TypeOKNext, Phases, Outcomes, Outgoing, Incoming

LEMMA TypesThen == TypeOK' => TypeOKNext
  BY DEF TypeOK, TypeOKNext, Phases, Outcomes, Outgoing, Incoming

LEMMA UsersAre ==
    /\ "nobody" \notin Users /\ "aclose" \in Users /\ "prewarm" \in Users
    /\ Streams \subseteq Users /\ "aclose" \notin Streams /\ "prewarm" \notin Streams
  BY SpeechAssumption DEF Users

LEMMA RequestsAre ==
    /\ NoRequest \in Requests /\ NoRequest[1] = "nobody" /\ NoRequest[2] = 0
    /\ \A u \in Users, n \in 0..Phrases : <<u, n>> \in Requests
    /\ \A r \in Requests : /\ r[1] \in Users \cup {"nobody"} /\ r[2] \in Nat
                           /\ r = <<r[1], r[2]>>
    /\ \A u \in Users : <<u, 0>> \in Requests
  <1>1. Phrases \in Nat /\ 0 \in 0..Phrases
    BY SpeechAssumption
  <1>2. NoRequest = <<"nobody", 0>> /\ NoRequest[1] = "nobody" /\ NoRequest[2] = 0
    BY DEF NoRequest
  <1>3. NoRequest \in Requests /\ \A u \in Users, n \in 0..Phrases : <<u, n>> \in Requests
    BY DEF Requests
  <1>4. ASSUME NEW r \in Requests
        PROVE  r[1] \in Users \cup {"nobody"} /\ r[2] \in Nat /\ r = <<r[1], r[2]>>
    <2>1. CASE r = NoRequest
      BY <1>2, <2>1
    <2>2. CASE \E u \in Users, n \in 0..Phrases : r = <<u, n>>
      BY <1>1, <2>2
    <2> QED
      BY <2>1, <2>2 DEF Requests
  <1> QED
    BY <1>1, <1>2, <1>3, <1>4

LEMMA MessagesAre ==
  ASSUME NEW r \in Requests
  PROVE  /\ \A k \in {"start", "synthesize", "cancel", "bye"} :
               Msg(k, r) \in Outgoing /\ Msg(k, r).kind = k /\ Msg(k, r).req = r
         /\ \A k \in {"ready", "audio_start", "pcm", "audio_end", "cancelled", "ended"} :
               Msg(k, r) \in Incoming /\ Msg(k, r).kind = k /\ Msg(k, r).req = r
  BY DEF Msg, Outgoing, Incoming

LEMMA MessageFields ==
    /\ \A m \in Outgoing : m.req \in Requests /\ m.kind \in {"start", "synthesize", "cancel", "bye"}
                           /\ m = Msg(m.kind, m.req)
    /\ \A m \in Incoming : /\ m.req \in Requests /\ m = Msg(m.kind, m.req)
                           /\ m.kind \in {"ready", "audio_start", "pcm", "audio_end", "cancelled", "ended"}
  BY DEF Msg, Outgoing, Incoming

(* The next phrase of a reply.                                              *)
LEMMA NextPhrase ==
  ASSUME TypeOK, KnownInv, NEW u \in Streams, Speak(u)
  PROVE  /\ asked'[u] = <<u, asked[u][2] + 1>> /\ asked'[u] \in Requests
         /\ \A v \in Users \ {u} : asked'[v] = asked[v]
         /\ asked' \in [Users -> Requests]
  <1>1. u \in Users /\ asked \in [Users -> Requests] /\ Phrases \in Nat
    BY Types, UsersAre, SpeechAssumption
  <1>2. asked[u][1] = u /\ asked[u][2] \in Nat /\ asked[u] = <<u, asked[u][2]>>
    BY <1>1, RequestsAre DEF KnownInv
  <1>3. asked[u][2] < Phrases /\ asked' = [asked EXCEPT ![u] = [asked[u] EXCEPT ![2] = asked[u][2] + 1]]
    BY DEF Speak
  <1>4. [asked[u] EXCEPT ![2] = asked[u][2] + 1] = <<u, asked[u][2] + 1>>
    <2>1. \A n : [<<u, n>> EXCEPT ![2] = n + 1] = <<u, n + 1>>
      OBVIOUS
    <2> QED
      BY <1>2, <2>1
  <1>5. <<u, asked[u][2] + 1>> \in Requests
    BY <1>1, <1>2, <1>3, RequestsAre
  <1> QED
    BY <1>1, <1>3, <1>4, <1>5

LEMMA TypeInit == Init => TypeOK
  <1>1. SUFFICES ASSUME Init PROVE TypeOK
    OBVIOUS
  <1>2. asked \in [Users -> Requests]
    BY <1>1, RequestsAre DEF Init
  <1>3. 0 \in 0..MaxFaults
    BY SpeechAssumption
  <1> QED
    BY <1>1, <1>2, <1>3, RequestsAre, Types DEF Init, Phases, Outcomes

LEMMA TypeStep ==
  ASSUME TypeOK, KnownInv, [Next]_vars
  PROVE  TypeOK'
  <1>0. /\ held \in Users \cup {"nobody"} /\ waiters \in Seq(Users)
        /\ phase \in [Users -> Phases] /\ asked \in [Users -> Requests]
        /\ started \in [Users -> BOOLEAN] /\ outcome \in [Users -> Outcomes]
        /\ conn \in {"none", "open", "closed"} /\ serving \in Requests
        /\ sent \in Seq(Outgoing) /\ inbox \in Seq(Incoming)
        /\ spoken \subseteq [for : Requests, of : Requests]
        /\ late \in Nat /\ faults \in 0..MaxFaults
    BY Types
  <1>s. SUFFICES TypeOKNext
    BY TypesNext
  <1>g. ASSUME NEW u \in Users, NEW p \in Phases, Goes(u, p) PROVE phase' \in [Users -> Phases]
    BY <1>0, <1>g DEF Goes
  <1>e. ASSUME NEW u \in Users, NEW o \in Outcomes, Ends(u, o)
        PROVE  outcome' \in [Users -> Outcomes]
    BY <1>0, <1>e DEF Ends
  <1>m. /\ \A r \in Requests : \A k \in {"start", "synthesize", "cancel", "bye"} : Msg(k, r) \in Outgoing
        /\ \A r \in Requests : \A k \in {"ready", "audio_start", "pcm", "audio_end", "cancelled", "ended"} :
              Msg(k, r) \in Incoming
        /\ NoRequest \in Requests
    BY MessagesAre, RequestsAre
  <1>t. /\ waiters # <<>> => Tail(waiters) \in Seq(Users)
        /\ sent # <<>> => Head(sent) \in Outgoing /\ Tail(sent) \in Seq(Outgoing)
        /\ inbox # <<>> => Head(inbox) \in Incoming /\ Tail(inbox) \in Seq(Incoming)
    BY <1>0, TailIs
  <1>p. \A m \in Outgoing : Append(sent, m) \in Seq(Outgoing)
    BY <1>0
  <1>1. ASSUME NEW u \in Users, Begin(u) PROVE TypeOKNext
    <2>1. waiters' \in Seq(Users) /\ phase' \in [Users -> Phases]
      BY <1>0, <1>1, <1>g DEF Begin, Phases
    <2> QED
      BY <1>0, <1>1, <2>1 DEF Begin, net, TypeOKNext
  <1>2. ASSUME NEW u \in Users, Acquire(u) PROVE TypeOKNext
    <2>1. phase' \in [Users -> Phases]
      BY <1>0, <1>2, <1>g DEF Acquire, Use, Phases
    <2>2. sent' \in Seq(Outgoing) /\ inbox' \in Seq(Incoming) /\ serving' \in Requests
          /\ conn' \in {"none", "open", "closed"}
      <3>1. <<Msg("start", NoRequest)>> \in Seq(Outgoing) /\ <<>> \in Seq(Incoming)
        BY <1>m
      <3>2. CASE conn = "open"
        BY <1>0, <1>2, <3>2 DEF Acquire, net
      <3>3. CASE conn # "open"
        BY <1>2, <1>m, <3>1, <3>3 DEF Acquire
      <3> QED
        BY <3>2, <3>3
    <2> QED
      BY <1>0, <1>2, <1>t, <2>1, <2>2 DEF Acquire, TypeOKNext
  <1>3. ASSUME NEW u \in Users, Opened(u) PROVE TypeOKNext
    <2>1. phase' \in [Users -> Phases]
      BY <1>0, <1>3, <1>g DEF Opened, Use, Phases
    <2> QED
      BY <1>0, <1>3, <1>t, <2>1 DEF Opened, TypeOKNext
  <1>4. ASSUME NEW u \in Users, Drop(u) \/ DropCancelled(u) \/ Release(u) PROVE TypeOKNext
    <2>1. phase' \in [Users -> Phases]
      BY <1>0, <1>4, <1>g DEF Drop, DropCancelled, Release, Free, Phases
    <2> QED
      BY <1>0, <1>4, <2>1 DEF Drop, DropCancelled, Release, Free, TypeOKNext
  <1>5. CASE Close
    <2>1. phase' \in [Users -> Phases]
      BY <1>0, <1>5, <1>g, UsersAre DEF Close, Phases
    <2>2. sent' \in Seq(Outgoing)
      BY <1>0, <1>5, <1>m, <1>p DEF Close
    <2> QED
      BY <1>0, <1>5, <1>t, <2>1, <2>2, UsersAre DEF Close, TypeOKNext
  <1>6. CASE Part
    <2>1. phase' \in [Users -> Phases]
      BY <1>0, <1>6, <1>g, UsersAre DEF Part, Phases
    <2>2. inbox' \in Seq(Incoming)
      BY <1>0, <1>6, <1>t DEF Part
    <2> QED
      BY <1>0, <1>6, <2>1, <2>2 DEF Part, TypeOKNext
  <1>7. ASSUME NEW u \in Users, Speak(u) PROVE TypeOKNext
    <2>1. phase' \in [Users -> Phases] /\ started' \in [Users -> BOOLEAN]
      BY <1>0, <1>7, <1>g DEF Speak, Phases
    <2>2. asked' \in [Users -> Requests] /\ asked'[u] \in Requests
      BY <1>7, NextPhrase DEF Speak
    <2>3. sent' \in Seq(Outgoing)
      BY <1>0, <1>7, <1>m, <1>p, <2>2 DEF Speak
    <2> QED
      BY <1>0, <1>7, <2>1, <2>2, <2>3 DEF Speak, TypeOKNext
  <1>8. ASSUME NEW u \in Users, Finish(u) PROVE TypeOKNext
    <2>1. phase' \in [Users -> Phases] /\ outcome' \in [Users -> Outcomes]
      BY <1>0, <1>8, <1>g, <1>e DEF Finish, Phases, Outcomes
    <2> QED
      BY <1>0, <1>8, <2>1 DEF Finish, net, TypeOKNext
  <1>9. ASSUME NEW u \in Users, Receive(u) PROVE TypeOKNext
    <2>1. phase' \in [Users -> Phases] /\ outcome' \in [Users -> Outcomes]
      BY <1>0, <1>9, <1>g, <1>e DEF Receive, Fails, Phases, Outcomes
    <2>2. started' \in [Users -> BOOLEAN] /\ inbox' \in Seq(Incoming)
      BY <1>0, <1>9, <1>t DEF Receive, Fails
    <2>3. Head(inbox).req \in Requests /\ asked[u] \in Requests
      BY <1>0, <1>9, <1>t, MessageFields DEF Receive
    <2>4. spoken' \subseteq [for : Requests, of : Requests]
      BY <1>0, <1>9, <2>3 DEF Receive, Fails, Play
    <2>5. UNCHANGED <<held, waiters, asked, conn, sent, serving, late, faults>>
      BY <1>9 DEF Receive
    <2> QED
      BY <1>0, <2>1, <2>2, <2>4, <2>5 DEF TypeOKNext
  <1>10. ASSUME NEW u \in Users, Disconnected(u) PROVE TypeOKNext
    <2>1. phase' \in [Users -> Phases] /\ outcome' \in [Users -> Outcomes]
      BY <1>0, <1>10, <1>g, <1>e DEF Disconnected, Phases, Outcomes
    <2> QED
      BY <1>0, <1>10, <2>1 DEF Disconnected, net, TypeOKNext
  <1>11. ASSUME NEW u \in Users, Interrupt(u) \/ TimeOut(u) PROVE TypeOKNext
    <2>1. PICK how \in {"interrupted", "failed"} : Cancelled(u, how)
      BY <1>11 DEF Interrupt, TimeOut
    <2>2. phase' \in [Users -> Phases] /\ outcome' \in [Users -> Outcomes]
      BY <1>0, <2>1, <1>g, <1>e DEF Cancelled, Phases, Outcomes
    <2>3. waiters' \in Seq(Users)
      <3>1. ASSUME Leaves(u) PROVE waiters' \in Seq(Users)
        BY <1>0, <3>1, WithoutOne DEF Leaves
      <3> QED
        BY <1>0, <2>1, <3>1 DEF Cancelled
    <2>4. sent' \in Seq(Outgoing)
      BY <1>0, <1>m, <1>p, <2>1 DEF Cancelled
    <2>5. UNCHANGED <<held, asked, started, conn, inbox, serving, spoken, faults>>
      BY <2>1 DEF Cancelled
    <2>6. late' \in Nat
      BY <1>0, <1>11 DEF Interrupt, TimeOut
    <2> QED
      BY <1>0, <2>2, <2>3, <2>4, <2>5, <2>6 DEF TypeOKNext
  <1>12. ASSUME NEW u \in Users, Drain(u) \/ GiveUp(u) PROVE TypeOKNext
    <2>1. phase' \in [Users -> Phases]
      BY <1>0, <1>12, <1>g DEF Drain, GiveUp, After, Phases
    <2>2. inbox' \in Seq(Incoming)
      BY <1>0, <1>12, <1>t DEF Drain, GiveUp, net
    <2>3. late' \in Nat
      BY <1>0, <1>12 DEF Drain, GiveUp
    <2> QED
      BY <1>0, <1>12, <2>1, <2>2, <2>3 DEF Drain, GiveUp, net, TypeOKNext
  <1>13. CASE Take
    <2>1. Head(sent).req \in Requests /\ sent' \in Seq(Outgoing)
      BY <1>t, <1>13, MessageFields DEF Take
    <2>2. serving' \in Requests
      <3>1. Head(sent).kind \in {"start", "synthesize", "cancel", "bye"}
        BY <1>t, <1>13, MessageFields DEF Take
      <3> QED
        BY <1>0, <1>13, <1>m, <2>1, <3>1 DEF Take
    <2>3. \A m \in Incoming : inbox \o <<m>> \in Seq(Incoming)
      BY <1>0
    <2>4. inbox \o <<>> \in Seq(Incoming)
      BY <1>0
    <2>5. inbox' \in Seq(Incoming)
      <3>1. Head(sent).kind \in {"start", "synthesize", "cancel", "bye"}
        BY <1>t, <1>13, MessageFields DEF Take
      <3> QED
        BY <1>13, <1>m, <2>1, <2>3, <2>4, <3>1 DEF Take, Answers
    <2>6. UNCHANGED <<held, waiters, phase, asked, started, outcome, conn, spoken, late, faults>>
      BY <1>13 DEF Take
    <2> QED
      BY <1>0, <2>1, <2>2, <2>5, <2>6 DEF TypeOKNext
  <1>14. CASE Synthesize
    <2>1. inbox' \in Seq(Incoming)
      <3>1. Msg("pcm", serving) \in Incoming /\ Msg("audio_end", serving) \in Incoming
        BY <1>0, <1>m
      <3> QED
        BY <1>0, <1>14, <3>1 DEF Synthesize, Answers
    <2> QED
      BY <1>0, <1>14, <1>m, <2>1 DEF Synthesize, TypeOKNext
  <1>15. CASE Cut
    BY <1>0, <1>15, <1>m, SpeechAssumption DEF Cut, TypeOKNext
  <1>16. CASE UNCHANGED vars
    BY <1>0, <1>16 DEF vars, net, TypeOKNext
  <1>17. CASE Next
    <2>1. ASSUME NEW u \in Users, Turn(u) PROVE TypeOKNext
      BY <2>1, <1>2, <1>3, <1>4, <1>8, <1>9, <1>10, <1>11, <1>12 DEF Turn
    <2> QED
      BY <1>17, <2>1, <1>1, <1>5, <1>6, <1>7, <1>11, <1>13, <1>14, <1>15 DEF Next
  <1> QED
    BY <1>16, <1>17
-----------------------------------------------------------------------------
(* The lock is kept *)

LEMMA GoesIs ==
  ASSUME TypeOK, NEW u \in Users, NEW p, Goes(u, p)
  PROVE  phase'[u] = p /\ \A v \in Users \ {u} : phase'[v] = phase[v]
  BY Types DEF Goes

LEMMA EndsIs ==
  ASSUME TypeOK, NEW u \in Users, NEW o, Ends(u, o)
  PROVE  outcome'[u] = o /\ \A v \in Users \ {u} : outcome'[v] = outcome[v]
  BY Types DEF Ends

LEMMA LockInit == Init => LockInv
  <1>1. SUFFICES ASSUME Init PROVE LockInv
    OBVIOUS
  <1>2. DOMAIN waiters = {} /\ held = "nobody" /\ \A u \in Users : phase[u] = "new" /\ outcome[u] = "none"
    BY <1>1 DEF Init
  <1> QED
    BY <1>2 DEF LockInv, Holding

(* Nobody waits who is at work.                                             *)
LEMMA WaitersDiffer ==
  ASSUME TypeOK, LockInv, NEW u \in Users, phase[u] # "waiting"
  PROVE  \A i \in DOMAIN waiters : waiters[i] \in Users \ {u}
  BY Types DEF LockInv

(* The holder goes on.                                                      *)
LEMMA HolderWorks ==
  ASSUME TypeOK, LockInv, NEW u \in Users, NEW p \in Holding, phase[u] \in Holding, Goes(u, p),
         UNCHANGED <<held, waiters, conn>>,
         p \in {"opening", "idle", "receiving", "cancelling"} => conn # "none",
         \A v \in Users \ {u} : outcome'[v] = outcome[v],
         outcome'[u] = "failed" => p \in {"cancelling", "dropping", "breaking", "lost"}
  PROVE  LockInv'
  <1>1. phase'[u] = p /\ \A v \in Users \ {u} : phase'[v] = phase[v]
    BY GoesIs
  <1>2. held = u
    BY DEF LockInv
  <1>3. \A i \in DOMAIN waiters : waiters[i] \in Users \ {u}
    BY WaitersDiffer DEF Holding
  <1>4. \A v \in Users : phase'[v] \in Holding => held' = v
    BY <1>1, <1>2 DEF LockInv
  <1>5. held' # "nobody" => phase'[held'] \in Holding
    BY <1>1, <1>2
  <1>6. \A i \in DOMAIN waiters' : phase'[waiters'[i]] = "waiting"
    BY <1>1, <1>3 DEF LockInv
  <1>7. \A i, j \in DOMAIN waiters' : waiters'[i] = waiters'[j] => i = j
    BY DEF LockInv
  <1>8. \A v \in Users : phase'[v] \in {"opening", "idle", "receiving", "cancelling"} => conn' # "none"
    BY <1>1 DEF LockInv
  <1>9. \A v \in Users : outcome'[v] = "failed" =>
          phase'[v] \in {"cancelling", "dropping", "breaking", "lost", "done"}
    BY <1>1 DEF LockInv
  <1> QED
    BY <1>4, <1>5, <1>6, <1>7, <1>8, <1>9 DEF LockInv

(* The holder lets go of the lock.                                          *)
LEMMA HolderLeaves ==
  ASSUME TypeOK, LockInv, NEW u \in Users, phase[u] \in Holding, Free(u),
         UNCHANGED <<waiters, outcome>>
  PROVE  LockInv'
  <1>1. phase'[u] = "done" /\ \A v \in Users \ {u} : phase'[v] = phase[v]
    BY GoesIs DEF Free
  <1>2. held = u /\ held' = "nobody"
    BY DEF LockInv, Free
  <1>3. \A i \in DOMAIN waiters : waiters[i] \in Users \ {u}
    BY WaitersDiffer DEF Holding
  <1>4. \A v \in Users : phase'[v] \notin Holding
    BY <1>1, <1>2 DEF LockInv, Holding
  <1>6. \A i \in DOMAIN waiters' : phase'[waiters'[i]] = "waiting"
    BY <1>1, <1>3 DEF LockInv
  <1>7. \A i, j \in DOMAIN waiters' : waiters'[i] = waiters'[j] => i = j
    BY DEF LockInv
  <1>8. \A v \in Users : phase'[v] \notin {"opening", "idle", "receiving", "cancelling"}
    BY <1>4 DEF Holding
  <1>9. \A v \in Users : outcome'[v] = "failed" =>
          phase'[v] \in {"cancelling", "dropping", "breaking", "lost", "done"}
    BY <1>1 DEF LockInv
  <1> QED
    BY <1>2, <1>4, <1>6, <1>7, <1>8, <1>9 DEF LockInv

(* The first who waits gets the lock.                                       *)
LEMMA FirstEnters ==
  ASSUME TypeOK, LockInv, NEW u \in Users, NEW p \in {"opening", "idle", "releasing", "parting"},
         waiters # <<>>, Head(waiters) = u, held = "nobody",
         held' = u, waiters' = Tail(waiters), Goes(u, p), UNCHANGED outcome,
         p \in {"opening", "idle"} => conn' # "none"
  PROVE  LockInv'
  <1>1. phase'[u] = p /\ \A v \in Users \ {u} : phase'[v] = phase[v]
    BY GoesIs
  <1>2. /\ waiters \in Seq(Users) /\ u = waiters[1] /\ Len(waiters) \in Nat \ {0}
        /\ DOMAIN waiters = 1..Len(waiters) /\ DOMAIN Tail(waiters) = 1..(Len(waiters) - 1)
        /\ \A i \in 1..(Len(waiters) - 1) : Tail(waiters)[i] = waiters[i + 1]
    BY Types, TailIs
  <1>3. phase[u] = "waiting"
    BY <1>2 DEF LockInv
  <1>4. \A v \in Users : phase[v] \notin Holding
    BY UsersAre DEF LockInv
  <1>5. \A i \in 1..(Len(waiters) - 1) : waiters'[i] = waiters[i + 1] /\ waiters'[i] \in Users \ {u}
    BY <1>2 DEF LockInv
  <1>6. \A i \in DOMAIN waiters' : phase'[waiters'[i]] = "waiting"
    BY <1>1, <1>2, <1>5 DEF LockInv
  <1>7. \A i, j \in DOMAIN waiters' : waiters'[i] = waiters'[j] => i = j
    BY <1>2, <1>5 DEF LockInv
  <1>8. \A v \in Users : phase'[v] \in {"opening", "idle", "receiving", "cancelling"} => conn' # "none"
    BY <1>1, <1>4 DEF Holding
  <1>9. \A v \in Users : outcome'[v] = "failed" =>
          phase'[v] \in {"cancelling", "dropping", "breaking", "lost", "done"}
    BY <1>1, <1>3 DEF LockInv
  <1> QED
    BY <1>1, <1>4, <1>6, <1>7, <1>8, <1>9 DEF LockInv, Holding

(* Nobody moves.                                                            *)
LEMMA NobodyMoves ==
  ASSUME LockInv, UNCHANGED <<held, waiters, phase, outcome>>, conn' = "none" => conn = "none"
  PROVE  LockInv'
  BY DEF LockInv

LEMMA LockStep ==
  ASSUME TypeOK, LockInv, [Next]_vars
  PROVE  LockInv'
  <1>1. ASSUME NEW u \in Users, Begin(u) PROVE LockInv'
    <2>1. /\ phase[u] = "new" /\ Goes(u, "waiting") /\ waiters' = Append(waiters, u)
          /\ held' = held /\ outcome' = outcome /\ conn' = conn
      BY <1>1 DEF Begin, net
    <2>2. phase'[u] = "waiting" /\ \A v \in Users \ {u} : phase'[v] = phase[v]
      BY <2>1, GoesIs
    <2>3. /\ Len(waiters) \in Nat /\ DOMAIN waiters = 1..Len(waiters)
          /\ DOMAIN waiters' = 1..(Len(waiters) + 1)
          /\ \A i \in 1..Len(waiters) : waiters'[i] = waiters[i]
          /\ waiters'[Len(waiters) + 1] = u
      BY <2>1, Types, AppendIs
    <2>4. \A i \in 1..Len(waiters) : waiters[i] \in Users \ {u}
      BY <2>1, <2>3, WaitersDiffer
    <2>5. \A v \in Users : phase'[v] \in Holding => held' = v
      BY <2>1, <2>2 DEF LockInv, Holding
    <2>6. held' # "nobody" => phase'[held'] \in Holding
      BY <2>1, <2>2, Types DEF LockInv, Holding
    <2>7. \A i \in DOMAIN waiters' : phase'[waiters'[i]] = "waiting"
      BY <2>2, <2>3, <2>4 DEF LockInv
    <2>8. \A i, j \in DOMAIN waiters' : waiters'[i] = waiters'[j] => i = j
      BY <2>3, <2>4 DEF LockInv
    <2>9. /\ \A v \in Users : phase'[v] \in {"opening", "idle", "receiving", "cancelling"} => conn' # "none"
          /\ \A v \in Users : outcome'[v] = "failed" =>
                phase'[v] \in {"cancelling", "dropping", "breaking", "lost", "done"}
      BY <2>1, <2>2 DEF LockInv
    <2> QED
      BY <2>5, <2>6, <2>7, <2>8, <2>9 DEF LockInv
  <1>2. ASSUME NEW u \in Users, Acquire(u) PROVE LockInv'
    <2>1. PICK p \in {"opening", "idle", "releasing"} : Goes(u, p) /\ (p # "releasing" => conn' = "open")
      BY <1>2 DEF Acquire, Use, net
    <2> QED
      BY <1>2, <2>1, FirstEnters DEF Acquire
  <1>3. ASSUME NEW u \in Users, Opened(u) PROVE LockInv'
    <2>1. PICK p \in {"idle", "releasing"} : Goes(u, p)
      BY <1>3 DEF Opened, Use
    <2>2. conn # "none" /\ outcome[u] # "failed"
      BY <1>3 DEF LockInv, Opened
    <2> QED
      BY <1>3, <2>1, <2>2, HolderWorks DEF Opened, Holding
  <1>4. ASSUME NEW u \in Users, Drop(u) \/ Release(u) PROVE LockInv'
    BY <1>4, HolderLeaves DEF Drop, Release, Holding
  <1>5. ASSUME NEW u \in Users, DropCancelled(u) PROVE LockInv'
    <2>1. /\ phase[u] = "dropping" /\ Goes(u, "lost") /\ held' = held /\ waiters' = waiters
          /\ outcome' = outcome
      BY <1>5 DEF DropCancelled
    <2>2. phase'[u] = "lost" /\ \A v \in Users \ {u} : phase'[v] = phase[v]
      BY <2>1, GoesIs
    <2>3. held = u
      BY <2>1 DEF LockInv, Holding
    <2>4. \A i \in DOMAIN waiters : waiters[i] \in Users \ {u}
      BY <2>1, WaitersDiffer
    <2>5. \A v \in Users : phase'[v] \in Holding => held' = v
      BY <2>1, <2>2, <2>3 DEF LockInv
    <2>6. held' # "nobody" => phase'[held'] \in Holding
      BY <2>1, <2>2, <2>3 DEF Holding
    <2>7. \A i \in DOMAIN waiters' : phase'[waiters'[i]] = "waiting"
      BY <2>1, <2>2, <2>4 DEF LockInv
    <2>8. \A v \in Users : phase'[v] \notin {"opening", "idle", "receiving", "cancelling"}
      BY <2>2, <2>3 DEF LockInv, Holding
    <2>9. /\ \A i, j \in DOMAIN waiters' : waiters'[i] = waiters'[j] => i = j
          /\ \A v \in Users : outcome'[v] = "failed" =>
                phase'[v] \in {"cancelling", "dropping", "breaking", "lost", "done"}
      BY <2>1, <2>2 DEF LockInv
    <2> QED
      BY <2>5, <2>6, <2>7, <2>8, <2>9 DEF LockInv
  <1>6. CASE Close
    <2>1. PICK p \in {"releasing", "parting"} : Goes("aclose", p)
      BY <1>6 DEF Close
    <2> QED
      BY <1>6, <2>1, FirstEnters, UsersAre DEF Close
  <1>7. CASE Part
    <2>1. phase["aclose"] = "parting" /\ UNCHANGED <<held, waiters, outcome, conn>>
          /\ (Goes("aclose", "breaking") \/ UNCHANGED phase)
      BY <1>7 DEF Part
    <2>2. CASE Goes("aclose", "breaking")
      BY <2>1, <2>2, HolderWorks, UsersAre DEF Holding
    <2> QED
      BY <2>1, <2>2, NobodyMoves
  <1>8. ASSUME NEW u \in Users, Speak(u) PROVE LockInv'
    <2>1. conn # "none" /\ outcome[u] # "failed"
      BY <1>8 DEF LockInv, Speak
    <2> QED
      BY <1>8, <2>1, HolderWorks DEF Speak, Holding
  <1>9. ASSUME NEW u \in Users, Finish(u) PROVE LockInv'
    <2>1. outcome'[u] = "spoken" /\ \A v \in Users \ {u} : outcome'[v] = outcome[v]
      BY <1>9, EndsIs DEF Finish
    <2> QED
      BY <1>9, <2>1, HolderWorks DEF Finish, Holding, net
  <1>10. ASSUME NEW u \in Users, Receive(u) PROVE LockInv'
    <2>1. /\ phase[u] = "receiving" /\ UNCHANGED <<held, waiters, conn>>
          /\ \/ UNCHANGED <<phase, outcome>>
             \/ Goes(u, "idle") /\ UNCHANGED outcome
             \/ Goes(u, "breaking") /\ Ends(u, "failed")
      BY <1>10 DEF Receive, Fails
    <2>2. CASE UNCHANGED <<phase, outcome>>
      BY <2>1, <2>2, NobodyMoves
    <2>3. CASE Goes(u, "idle") /\ UNCHANGED outcome
      <3>1. conn # "none" /\ outcome[u] # "failed"
        BY <2>1 DEF LockInv
      <3> QED
        BY <2>1, <2>3, <3>1, HolderWorks DEF Holding
    <2>4. CASE Goes(u, "breaking") /\ Ends(u, "failed")
      BY <2>1, <2>4, HolderWorks, EndsIs DEF Holding
    <2> QED
      BY <2>1, <2>2, <2>3, <2>4
  <1>11. ASSUME NEW u \in Users, Disconnected(u) PROVE LockInv'
    <2>1. PICK p \in {"breaking", "dropping"} : Goes(u, p) /\ phase[u] \in {"receiving", "opening"}
      BY <1>11 DEF Disconnected
    <2>2. \A v \in Users \ {u} : outcome'[v] = outcome[v]
      BY <1>11, EndsIs DEF Disconnected
    <2> QED
      BY <1>11, <2>1, <2>2, HolderWorks DEF Disconnected, Holding, net
  <1>12. ASSUME NEW u \in Users, NEW how \in {"interrupted", "failed"}, Cancelled(u, how)
         PROVE  LockInv'
    <2>1. outcome'[u] = how /\ \A v \in Users \ {u} : outcome'[v] = outcome[v]
      BY <1>12, EndsIs DEF Cancelled
    <2>2. UNCHANGED <<held, conn>>
      BY <1>12 DEF Cancelled
    <2>3. CASE phase[u] = "waiting"
      <3>1. Goes(u, "done") /\ Leaves(u)
        BY <1>12, <2>3 DEF Cancelled
      <3>2. phase'[u] = "done" /\ \A v \in Users \ {u} : phase'[v] = phase[v]
        BY <3>1, GoesIs
      <3>3. PICK i \in DOMAIN waiters :
              /\ waiters[i] = u
              /\ waiters' = SubSeq(waiters, 1, i - 1) \o SubSeq(waiters, i + 1, Len(waiters))
        BY <3>1 DEF Leaves
      <3>a. waiters \in Seq(Users)
        BY Types
      <3>4. /\ DOMAIN waiters = 1..Len(waiters) /\ Len(waiters) \in Nat
            /\ DOMAIN waiters' = 1..(Len(waiters) - 1)
            /\ \A j \in 1..(Len(waiters) - 1) : waiters'[j] = waiters[IF j < i THEN j ELSE j + 1]
        <4>1. waiters' = SubSeq(waiters, 1, i - 1) \o SubSeq(waiters, i + 1, Len(waiters))
          BY <3>3
        <4> QED
          BY <3>a, <4>1, WithoutOne
      <3>b. waiters[i] = u
        BY <3>3
      <3>5. \A j \in 1..Len(waiters) : j # i => waiters[j] # u /\ waiters[j] \in Users
        BY <3>a, <3>b, <3>4 DEF LockInv
      <3>6. \A j \in DOMAIN waiters' : \E k \in 1..Len(waiters) : k # i /\ waiters'[j] = waiters[k]
        <4>1. ASSUME NEW j \in 1..(Len(waiters) - 1)
              PROVE  (IF j < i THEN j ELSE j + 1) \in 1..Len(waiters) \ {i}
          BY <3>4
        <4> QED
          BY <3>4, <4>1
      <3>7. \A j \in DOMAIN waiters' : phase'[waiters'[j]] = "waiting"
        BY <3>2, <3>4, <3>5, <3>6 DEF LockInv
      <3>8. ASSUME NEW j \in DOMAIN waiters', NEW k \in DOMAIN waiters', waiters'[j] = waiters'[k]
            PROVE  j = k
        <4> DEFINE a == IF j < i THEN j ELSE j + 1
                   b == IF k < i THEN k ELSE k + 1
        <4>1. a \in 1..Len(waiters) /\ b \in 1..Len(waiters) /\ waiters[a] = waiters[b]
          BY <3>4, <3>8
        <4>2. a = b
          BY <3>4, <4>1 DEF LockInv
        <4> QED
          BY <3>4, <4>2
      <3>9. \A v \in Users : phase'[v] \in Holding => held' = v
        BY <2>2, <3>2 DEF LockInv, Holding
      <3>10. held' # "nobody" => phase'[held'] \in Holding
        BY <2>2, <2>3, <3>2, Types DEF LockInv, Holding
      <3>11. /\ \A v \in Users : phase'[v] \in {"opening", "idle", "receiving", "cancelling"} => conn' # "none"
             /\ \A v \in Users : outcome'[v] = "failed" =>
                   phase'[v] \in {"cancelling", "dropping", "breaking", "lost", "done"}
        BY <2>1, <2>2, <3>2 DEF LockInv
      <3> QED
        BY <3>7, <3>8, <3>9, <3>10, <3>11 DEF LockInv
    <2>4. CASE phase[u] # "waiting"
      <3>1. PICK p \in {"dropping", "breaking", "releasing", "cancelling"} :
              /\ Goes(u, p) /\ phase[u] \in {"opening", "idle", "receiving"} /\ UNCHANGED waiters
              /\ p = "releasing" => how # "failed"
        BY <1>12, <2>4 DEF Cancelled
      <3>2. conn # "none"
        BY <3>1 DEF LockInv
      <3> QED
        BY <2>1, <2>2, <3>1, <3>2, HolderWorks DEF Holding
    <2> QED
      BY <2>3, <2>4
  <1>13. ASSUME NEW u \in Users, Drain(u) \/ GiveUp(u) PROVE LockInv'
    <2>1. /\ phase[u] = "cancelling" /\ UNCHANGED <<held, waiters, outcome, conn>>
          /\ (Goes(u, After(u)) \/ UNCHANGED phase)
      BY <1>13 DEF Drain, GiveUp, net
    <2>2. CASE Goes(u, After(u))
      <3>1. PICK p \in {"breaking", "releasing"} : p = After(u) /\ (outcome[u] = "failed" => p = "breaking")
        BY DEF After
      <3> QED
        BY <2>1, <2>2, <3>1, HolderWorks DEF Holding
    <2> QED
      BY <2>1, <2>2, NobodyMoves
  <1>14. ASSUME Take \/ Synthesize \/ Cut PROVE LockInv'
    BY <1>14, NobodyMoves DEF Take, Synthesize, Cut
  <1>15. CASE UNCHANGED vars
    BY <1>15, NobodyMoves DEF vars, net
  <1>16. CASE Next
    <2>1. ASSUME NEW u \in Users, Interrupt(u) \/ TimeOut(u) PROVE LockInv'
      BY <2>1, <1>12 DEF Interrupt, TimeOut
    <2>2. ASSUME NEW u \in Users, Turn(u) PROVE LockInv'
      BY <2>1, <2>2, <1>2, <1>3, <1>4, <1>5, <1>9, <1>10, <1>11, <1>13 DEF Turn
    <2> QED
      BY <1>16, <2>1, <2>2, <1>1, <1>6, <1>7, <1>8, <1>14 DEF Next
  <1> QED
    BY <1>15, <1>16
-----------------------------------------------------------------------------
(* Requests are known *)

LEMMA KnownInit == Init => KnownInv
  <1>1. SUFFICES ASSUME Init PROVE KnownInv
    OBVIOUS
  <1>2. DOMAIN sent = {} /\ DOMAIN inbox = {} /\ serving = NoRequest
    BY <1>1 DEF Init
  <1>3. \A u \in Users : asked[u] = <<u, 0>>
    BY <1>1 DEF Init
  <1> QED
    BY <1>2, <1>3 DEF KnownInv

LEMMA KnownKept ==
  ASSUME KnownInv, asked' = asked, serving' = NoRequest \/ Asked(serving'),
         \A i \in DOMAIN sent' : sent'[i].kind \in {"synthesize", "cancel"} => Asked(sent'[i].req),
         \A i \in DOMAIN inbox' : inbox'[i].kind \in {"audio_start", "pcm"} => Asked(inbox'[i].req)
  PROVE  KnownInv'
  BY DEF KnownInv, Asked

LEMMA KnownRead ==
  ASSUME TypeOK, KnownInv, inbox # <<>>, inbox' = Tail(inbox), UNCHANGED <<asked, sent, serving>>
  PROVE  KnownInv'
  <1>1. \A i \in DOMAIN inbox' : i + 1 \in DOMAIN inbox /\ inbox'[i] = inbox[i + 1]
    BY Types, TailIs
  <1> QED
    BY <1>1, KnownKept DEF KnownInv

LEMMA KnownSaid ==
  ASSUME TypeOK, KnownInv, NEW m \in Outgoing, m.kind \in {"synthesize", "cancel"} => Asked(m.req),
         sent' = Append(sent, m), UNCHANGED <<asked, inbox, serving>>
  PROVE  KnownInv'
  <1>1. \A i \in DOMAIN sent' : sent'[i] = m \/ (i \in DOMAIN sent /\ sent'[i] = sent[i])
    BY Types, AppendIs
  <1> QED
    BY <1>1, KnownKept DEF KnownInv

LEMMA LastIsAsked ==
  ASSUME TypeOK, KnownInv, NEW u \in Users
  PROVE  Asked(asked[u]) /\ asked[u] \in Requests /\ asked[u] # NoRequest
  BY Types, UsersAre, RequestsAre DEF KnownInv, Asked

AskedNext(r) == r[1] \in Users /\ r[2] <= asked'[r[1]][2]

LEMMA KnownSpeak ==
  ASSUME TypeOK, KnownInv, NEW u \in Streams, Speak(u)
  PROVE  KnownInv'
  <1>1. /\ asked'[u] = <<u, asked[u][2] + 1>> /\ asked'[u] \in Requests
        /\ \A v \in Users \ {u} : asked'[v] = asked[v]
    BY NextPhrase
  <1>2. u \in Users /\ \A v \in Users : asked[v][1] = v /\ asked[v][2] \in Nat
    BY UsersAre DEF KnownInv
  <1>3. \A v \in Users : asked'[v][1] = v /\ asked'[v][2] \in Nat /\ asked[v][2] <= asked'[v][2]
    BY <1>1, <1>2
  <1>4. ASSUME NEW r \in Requests, Asked(r) PROVE AskedNext(r)
    BY <1>2, <1>3, <1>4, RequestsAre DEF Asked, AskedNext
  <1>5. AskedNext(asked'[u])
    BY <1>2, <1>3 DEF AskedNext
  <1>6. ASSUME NEW i \in DOMAIN sent', sent'[i].kind \in {"synthesize", "cancel"}
        PROVE  AskedNext(sent'[i].req)
    <2>1. PICK m \in Outgoing : m = Msg("synthesize", asked'[u]) /\ m.req = asked'[u]
      BY <1>1, MessagesAre
    <2>2. sent' = sent \/ sent' = Append(sent, m)
      BY <2>1 DEF Speak
    <2>3. sent'[i] = m \/ (i \in DOMAIN sent /\ sent'[i] = sent[i])
      <3>1. /\ Len(sent) \in Nat /\ DOMAIN sent = 1..Len(sent) /\ DOMAIN Append(sent, m) = 1..(Len(sent) + 1)
            /\ \A j \in 1..Len(sent) : Append(sent, m)[j] = sent[j]
            /\ Append(sent, m)[Len(sent) + 1] = m
        BY Types, AppendIs
      <3>2. CASE sent' = sent
        BY <3>2
      <3>3. CASE sent' = Append(sent, m)
        BY <3>1, <3>3
      <3> QED
        BY <2>2, <3>2, <3>3
    <2>4. CASE sent'[i] = m
      BY <1>5, <2>1, <2>4
    <2>5. CASE i \in DOMAIN sent /\ sent'[i] = sent[i]
      <3>1. PICK r \in Requests : r = sent[i].req
        BY <2>5, Types, MessageFields
      <3>2. Asked(r)
        BY <1>6, <2>5, <3>1 DEF KnownInv
      <3> QED
        BY <1>4, <2>5, <3>1, <3>2
    <2> QED
      BY <2>3, <2>4, <2>5
  <1>7. inbox' = inbox /\ serving' = serving
    BY DEF Speak
  <1>8. ASSUME NEW i \in DOMAIN inbox', inbox'[i].kind \in {"audio_start", "pcm"}
        PROVE  AskedNext(inbox'[i].req)
    <2>1. PICK r \in Requests : r = inbox[i].req
      BY <1>7, <1>8, Types, MessageFields
    <2>2. Asked(r)
      BY <1>7, <1>8, <2>1 DEF KnownInv
    <2> QED
      BY <1>4, <1>7, <2>1, <2>2
  <1>9. serving' = NoRequest \/ AskedNext(serving')
    <2>1. PICK r \in Requests : r = serving
      BY Types
    <2> QED
      BY <1>4, <1>7, <2>1 DEF KnownInv
  <1> QED
    BY <1>3, <1>6, <1>8, <1>9 DEF KnownInv, Asked, AskedNext

LEMMA KnownTake ==
  ASSUME TypeOK, KnownInv, Take
  PROVE  KnownInv'
  <1>1. /\ sent # <<>> /\ sent \in Seq(Outgoing) /\ inbox \in Seq(Incoming) /\ serving \in Requests
        /\ sent' = Tail(sent) /\ asked' = asked
    BY Types DEF Take
  <1>2. PICK m \in Outgoing : m = sent[1] /\ m = Head(sent)
    BY <1>1, TailIs
  <1>3. m.req \in Requests /\ m.kind \in {"start", "synthesize", "cancel", "bye"}
    BY MessageFields
  <1>4. \A i \in DOMAIN sent' : i + 1 \in DOMAIN sent /\ sent'[i] = sent[i + 1]
    BY <1>1, TailIs
  <1>5. m.kind \in {"synthesize", "cancel"} => Asked(m.req)
    BY <1>1, <1>2, TailIs DEF KnownInv
  <1>6. serving' = NoRequest \/ Asked(serving')
    BY <1>2, <1>3, <1>5 DEF Take, KnownInv
  <1>7. \/ inbox' = inbox
        \/ \E n \in Incoming : inbox' = Append(inbox, n) /\ (n.kind \in {"audio_start", "pcm"} => Asked(n.req))
    <2>1. CASE inbox' = inbox \o <<>>
      BY <1>1, <2>1, WithNothing
    <2>2. ASSUME NEW n \in Incoming, inbox' = inbox \o <<n>>,
                 n.kind \in {"audio_start", "pcm"} => Asked(n.req)
          PROVE  inbox' = Append(inbox, n) /\ (n.kind \in {"audio_start", "pcm"} => Asked(n.req))
      BY <1>1, <2>2, WithOne
    <2>3. /\ \A k \in {"ready", "ended"} : Msg(k, NoRequest) \in Incoming /\ Msg(k, NoRequest).kind = k
          /\ \A k \in {"audio_start", "cancelled"} :
                /\ Msg(k, m.req) \in Incoming
                /\ Msg(k, m.req).kind = k /\ Msg(k, m.req).req = m.req
      BY <1>3, MessagesAre, RequestsAre
    <2>4. \/ inbox' = inbox \o <<>>
          \/ \E k \in {"ready", "ended"} : inbox' = inbox \o <<Msg(k, NoRequest)>>
          \/ inbox' = inbox \o <<Msg("cancelled", m.req)>>
          \/ inbox' = inbox \o <<Msg("audio_start", m.req)>> /\ m.kind = "synthesize"
      BY <1>2, <1>3 DEF Take, Answers
    <2> QED
      BY <1>5, <2>1, <2>2, <2>3, <2>4
  <1>8. \A i \in DOMAIN inbox' : inbox'[i].kind \in {"audio_start", "pcm"} => Asked(inbox'[i].req)
    <2>1. CASE inbox' = inbox
      BY <2>1 DEF KnownInv
    <2>2. ASSUME NEW n \in Incoming, inbox' = Append(inbox, n),
                 n.kind \in {"audio_start", "pcm"} => Asked(n.req)
          PROVE  \A i \in DOMAIN inbox' : inbox'[i].kind \in {"audio_start", "pcm"} => Asked(inbox'[i].req)
      <3>1. \A i \in DOMAIN inbox' : inbox'[i] = n \/ (i \in DOMAIN inbox /\ inbox'[i] = inbox[i])
        BY <1>1, <2>2, AppendIs
      <3> QED
        BY <2>2, <3>1 DEF KnownInv
    <2> QED
      BY <1>7, <2>1, <2>2
  <1> QED
    BY <1>1, <1>4, <1>6, <1>8, KnownKept DEF KnownInv

LEMMA Synthesized ==
  ASSUME TypeOK, Synthesize
  PROVE  LET pcm == Msg("pcm", serving)
             end == Msg("audio_end", serving)
         IN  /\ inbox' = Append(Append(inbox, pcm), end)
             /\ DOMAIN inbox = 1..Len(inbox) /\ Len(inbox) \in Nat
             /\ DOMAIN inbox' = 1..(Len(inbox) + 2)
             /\ \A i \in 1..Len(inbox) : inbox'[i] = inbox[i]
             /\ inbox'[Len(inbox) + 1] = pcm /\ inbox'[Len(inbox) + 2] = end
             /\ pcm.kind = "pcm" /\ pcm.req = serving
             /\ end.kind = "audio_end" /\ end.req = serving
  <1> DEFINE pcm == Msg("pcm", serving)
             end == Msg("audio_end", serving)
  <1>1. serving \in Requests /\ inbox \in Seq(Incoming)
    BY Types
  <1>2. /\ pcm \in Incoming /\ pcm.kind = "pcm" /\ pcm.req = serving
        /\ end \in Incoming /\ end.kind = "audio_end" /\ end.req = serving
    BY <1>1, MessagesAre
  <1>3. inbox' = inbox \o <<pcm, end>>
    BY DEF Synthesize, Answers
  <1> HIDE DEF pcm, end
  <1>4. inbox' = Append(Append(inbox, pcm), end)
    BY <1>1, <1>2, <1>3, WithTwo
  <1>5. /\ Append(inbox, pcm) \in Seq(Incoming) /\ Len(inbox) \in Nat
        /\ Len(Append(inbox, pcm)) = Len(inbox) + 1
        /\ DOMAIN inbox = 1..Len(inbox)
        /\ \A i \in 1..Len(inbox) : Append(inbox, pcm)[i] = inbox[i]
        /\ Append(inbox, pcm)[Len(inbox) + 1] = pcm
    BY <1>1, <1>2, AppendIs
  <1> DEFINE s == Append(inbox, pcm)
  <1> HIDE DEF s
  <1>6. /\ DOMAIN inbox' = 1..(Len(s) + 1) /\ \A i \in 1..Len(s) : inbox'[i] = s[i]
        /\ inbox'[Len(s) + 1] = end
    BY <1>2, <1>4, <1>5, AppendIs DEF s
  <1>7. /\ Len(s) = Len(inbox) + 1
        /\ \A i \in 1..Len(inbox) : s[i] = inbox[i]
        /\ s[Len(inbox) + 1] = pcm
    BY <1>5 DEF s
  <1>8. /\ DOMAIN inbox' = 1..(Len(inbox) + 2)
        /\ \A i \in 1..Len(inbox) : inbox'[i] = inbox[i]
        /\ inbox'[Len(inbox) + 1] = pcm /\ inbox'[Len(inbox) + 2] = end
    <2>1. Len(inbox) \in Nat /\ Len(s) = Len(inbox) + 1
      BY <1>5, <1>7
    <2>2. DOMAIN inbox' = 1..(Len(inbox) + 2) /\ inbox'[Len(inbox) + 2] = end
      BY <1>6, <2>1
    <2>3. \A i \in 1..(Len(inbox) + 1) : inbox'[i] = s[i]
      BY <1>6, <2>1
    <2>4. inbox'[Len(inbox) + 1] = pcm
      BY <1>7, <2>1, <2>3
    <2>5. \A i \in 1..Len(inbox) : inbox'[i] = inbox[i]
      BY <1>7, <2>1, <2>3
    <2> QED
      BY <2>2, <2>4, <2>5
  <1> QED
    BY <1>2, <1>4, <1>5, <1>8 DEF pcm, end

LEMMA KnownStep ==
  ASSUME TypeOK, KnownInv, [Next]_vars
  PROVE  KnownInv'
  <1>1. CASE UNCHANGED <<asked, sent, inbox, serving>>
    BY <1>1, KnownKept DEF KnownInv
  <1>2. ASSUME NEW u \in Users, Acquire(u) PROVE KnownInv'
    <2>1. CASE conn = "open"
      BY <1>1, <1>2, <2>1 DEF Acquire, net
    <2>2. CASE conn # "open"
      <3>1. /\ sent' = <<Msg("start", NoRequest)>> /\ inbox' = <<>> /\ serving' = NoRequest
            /\ asked' = asked
        BY <1>2, <2>2 DEF Acquire
      <3>2. \A i \in DOMAIN sent' : sent'[i].kind = "start"
        BY <3>1, MessagesAre, RequestsAre
      <3>3. DOMAIN inbox' = {}
        BY <3>1
      <3> QED
        BY <3>1, <3>2, <3>3, KnownKept
    <2> QED
      BY <2>1, <2>2
  <1>3. CASE inbox # <<>> /\ inbox' = Tail(inbox) /\ UNCHANGED <<asked, sent, serving>>
    BY <1>3, KnownRead
  <1>4. CASE Close
    <2>1. CASE conn = "open"
      <3>1. Msg("bye", NoRequest) \in Outgoing /\ Msg("bye", NoRequest).kind = "bye"
        BY MessagesAre, RequestsAre
      <3> QED
        BY <1>4, <2>1, <3>1, KnownSaid DEF Close
    <2> QED
      BY <1>1, <1>4, <2>1 DEF Close
  <1>5. CASE Part
    BY <1>1, <1>3, <1>5 DEF Part
  <1>6. ASSUME NEW u \in Users, NEW how, Cancelled(u, how) PROVE KnownInv'
    <2>1. UNCHANGED <<asked, inbox, serving>>
          /\ (sent' = sent \/ sent' = Append(sent, Msg("cancel", asked[u])))
      BY <1>6 DEF Cancelled
    <2>2. Asked(asked[u]) /\ Msg("cancel", asked[u]) \in Outgoing /\ Msg("cancel", asked[u]).req = asked[u]
      BY LastIsAsked, MessagesAre
    <2> QED
      BY <1>1, <2>1, <2>2, KnownSaid
  <1>7. CASE Synthesize
    <2>1. serving' = NoRequest /\ sent' = sent /\ asked' = asked
      BY <1>7 DEF Synthesize
    <2>2. serving # NoRequest /\ Asked(serving)
      BY <1>7 DEF Synthesize, KnownInv
    <2>3. \A i \in DOMAIN inbox' : inbox'[i].kind \in {"audio_start", "pcm"} => Asked(inbox'[i].req)
      <3>1. /\ DOMAIN inbox = 1..Len(inbox) /\ Len(inbox) \in Nat
            /\ DOMAIN inbox' = 1..(Len(inbox) + 2)
            /\ \A i \in 1..Len(inbox) : inbox'[i] = inbox[i]
            /\ inbox'[Len(inbox) + 1].req = serving /\ inbox'[Len(inbox) + 2].req = serving
        BY <1>7, Synthesized
      <3> QED
        BY <2>2, <3>1 DEF KnownInv
    <2> QED
      BY <2>1, <2>3, KnownKept DEF KnownInv
  <1>8. CASE Cut
    <2>1. DOMAIN sent' = {} /\ serving' = NoRequest /\ inbox' = inbox /\ asked' = asked
      BY <1>8 DEF Cut
    <2> QED
      BY <2>1, KnownKept DEF KnownInv
  <1>9. ASSUME NEW u \in Users, Turn(u) PROVE KnownInv'
    <2>1. CASE Opened(u) \/ Receive(u) \/ Drain(u)
      BY <1>3, <2>1 DEF Opened, Receive, Drain
    <2>2. CASE Drop(u) \/ DropCancelled(u) \/ Release(u) \/ Finish(u) \/ Disconnected(u) \/ GiveUp(u)
      BY <1>1, <2>2 DEF Drop, DropCancelled, Release, Finish, Disconnected, GiveUp, net
    <2>3. CASE TimeOut(u)
      BY <1>6, <2>3 DEF TimeOut
    <2> QED
      BY <1>2, <1>9, <2>1, <2>2, <2>3 DEF Turn
  <1>10. ASSUME NEW u \in Users, Begin(u) \/ Speak(u) \/ Interrupt(u) PROVE KnownInv'
    <2>1. CASE Begin(u)
      BY <1>1, <2>1 DEF Begin, net
    <2>2. CASE Speak(u)
      BY <2>2, KnownSpeak DEF Speak
    <2>3. CASE Interrupt(u)
      BY <1>6, <2>3 DEF Interrupt
    <2> QED
      BY <1>10, <2>1, <2>2, <2>3
  <1>11. CASE UNCHANGED vars
    BY <1>1, <1>11 DEF vars, net
  <1> QED
    BY <1>4, <1>5, <1>7, <1>8, <1>9, <1>10, <1>11, KnownTake DEF Next
-----------------------------------------------------------------------------
(* What is played is the audio that was asked for *)

LEMMA AudioInit == Init => AudioInv
  BY DEF Init, AudioInv

(* When the holder is not receiving, nobody is.                             *)
LEMMA NobodyReceives ==
  ASSUME LockInv', held' = "nobody" \/ phase'[held'] # "receiving"
  PROVE  AudioInv'
  BY UsersAre DEF LockInv, AudioInv, Holding

LEMMA AudioUntouched ==
  ASSUME AudioInv, UNCHANGED <<asked, started, sent, inbox, serving>>,
         \A u \in Users : phase'[u] = "receiving" => phase[u] = "receiving"
  PROVE  AudioInv'
  BY DEF AudioInv, OwnFrom, OnlyOne, NoSynthesis

LEMMA AudioSpeak ==
  ASSUME TypeOK, KnownInv, LockInv, LockInv', AudioInv, NEW u \in Streams, Speak(u)
  PROVE  AudioInv'
  <1>1. /\ asked'[u] = <<u, asked[u][2] + 1>> /\ asked'[u] \in Requests /\ u \in Users
    BY NextPhrase, UsersAre
  <1>2. asked[u][2] \in Nat /\ asked'[u][1] = u /\ asked'[u][2] = asked[u][2] + 1
    BY <1>1 DEF KnownInv
  <1>3. ~Asked(asked'[u])
    BY <1>2 DEF Asked
  <1>4. /\ started'[u] = FALSE /\ inbox' = inbox /\ phase'[u] = "receiving" /\ held' = u
    BY <1>1, Types, GoesIs DEF Speak, LockInv, Holding
  <1>5. \A v \in Users : phase'[v] = "receiving" => v = u
    BY <1>4 DEF LockInv, Holding
  <1>6. ASSUME NEW i \in DOMAIN inbox', inbox'[i] = Msg("audio_start", asked'[u]) PROVE FALSE
    <2>1. inbox[i].kind = "audio_start" /\ inbox[i].req = asked'[u]
      BY <1>1, <1>4, <1>6, MessagesAre
    <2> QED
      BY <1>3, <1>4, <2>1 DEF KnownInv
  <1>7. PICK m \in Outgoing : m = Msg("synthesize", asked'[u])
    BY <1>1, MessagesAre
  <1>8. /\ Len(sent) \in Nat /\ DOMAIN sent = 1..Len(sent) /\ DOMAIN Append(sent, m) = 1..(Len(sent) + 1)
        /\ \A j \in 1..Len(sent) : Append(sent, m)[j] = sent[j]
    BY Types, AppendIs
  <1>9. \A i \in DOMAIN sent : sent[i] # m
    <2>1. m.kind = "synthesize" /\ m.req = asked'[u]
      BY <1>1, <1>7, MessagesAre
    <2> QED
      BY <1>3, <2>1 DEF KnownInv
  <1>10. ASSUME NEW i \in DOMAIN sent', NEW j \in DOMAIN sent', sent'[i] = m, i < j PROVE FALSE
    <2>1. sent' = sent \/ sent' = Append(sent, m)
      BY <1>7 DEF Speak
    <2> QED
      BY <1>8, <1>9, <1>10, <2>1
  <1> QED
    BY <1>4, <1>5, <1>6, <1>7, <1>10 DEF AudioInv

LEMMA AudioReceive ==
  ASSUME TypeOK, LockInv, LockInv', AudioInv, NoForeignAudio, NEW u \in Users, Receive(u)
  PROVE  AudioInv' /\ NoForeignAudio'
  <1>1. /\ phase[u] = "receiving" /\ inbox # <<>> /\ inbox' = Tail(inbox)
        /\ UNCHANGED <<held, asked, sent, serving>>
    BY DEF Receive
  <1>2. PICK m \in Incoming : m = inbox[1] /\ m = Head(inbox)
    BY <1>1, Types, TailIs
  <1>3. /\ inbox \in Seq(Incoming) /\ Len(inbox) \in Nat \ {0} /\ DOMAIN inbox = 1..Len(inbox)
        /\ DOMAIN inbox' = 1..(Len(inbox) - 1)
        /\ \A i \in 1..(Len(inbox) - 1) : inbox'[i] = inbox[i + 1]
    BY <1>1, Types, TailIs
  <1>4. held = u /\ \A v \in Users : phase[v] = "receiving" => v = u
    BY <1>1 DEF LockInv, Holding
  <1>5. ASSUME OwnFrom(asked[u], 1), OnlyOne(asked[u]), UNCHANGED phase
        PROVE  AudioInv'
    <2>1. \A j \in DOMAIN inbox' : inbox'[j].kind = "pcm" => inbox'[j].req = asked'[u]
      BY <1>1, <1>3, <1>5 DEF OwnFrom
    <2>2. serving' \in {NoRequest, asked'[u]} /\ \A i \in DOMAIN sent' : sent'[i].kind # "synthesize"
      BY <1>1, <1>5 DEF OnlyOne, NoSynthesis
    <2> QED
      BY <1>4, <1>5, <2>1, <2>2 DEF AudioInv, OwnFrom, OnlyOne, NoSynthesis
  <1>6. CASE m.kind = "pcm" /\ started[u]
    <2>1. Play(u, m.req) /\ UNCHANGED phase
      BY <1>2, <1>6 DEF Receive
    <2>2. OwnFrom(asked[u], 1) /\ OnlyOne(asked[u])
      BY <1>1, <1>6 DEF AudioInv
    <2>3. m.req = asked[u]
      BY <1>2, <1>3, <1>6, <2>2 DEF OwnFrom
    <2> QED
      BY <1>5, <2>1, <2>2, <2>3 DEF NoForeignAudio, Play
  <1>7. CASE m.kind = "audio_start" /\ m.req = asked[u]
    <2>1. UNCHANGED <<phase, spoken>>
      BY <1>2, <1>7 DEF Receive
    <2>2. m = Msg("audio_start", asked[u]) /\ 1 \in DOMAIN inbox
      BY <1>3, <1>7, MessageFields
    <2>3. OwnFrom(asked[u], 1) /\ OnlyOne(asked[u])
      BY <1>1, <1>2, <2>2 DEF AudioInv
    <2> QED
      BY <1>5, <2>1, <2>3 DEF NoForeignAudio
  <1>8. CASE /\ ~(m.kind = "pcm" /\ started[u])
             /\ ~(m.kind = "audio_start" /\ m.req = asked[u])
    <2>1. spoken' = spoken /\ (Goes(u, "idle") \/ Goes(u, "breaking"))
      BY <1>2, <1>8 DEF Receive, Fails
    <2>2. phase'[held'] # "receiving"
      BY <1>1, <1>4, <2>1, GoesIs
    <2> QED
      BY <2>1, <2>2, NobodyReceives DEF NoForeignAudio
  <1> QED
    BY <1>6, <1>7, <1>8

(* A message that is not audio comes in; the queue of the server gets shorter. *)
LEMMA AudioTake ==
  ASSUME TypeOK, LockInv, AudioInv, Take
  PROVE  AudioInv'
  <1>1. /\ sent # <<>> /\ sent \in Seq(Outgoing) /\ inbox \in Seq(Incoming) /\ serving \in Requests
        /\ sent' = Tail(sent) /\ UNCHANGED <<asked, started, phase>>
    BY Types DEF Take
  <1>2. PICK m \in Outgoing : m = sent[1] /\ m = Head(sent)
    BY <1>1, TailIs
  <1>3. m.req \in Requests /\ m.kind \in {"start", "synthesize", "cancel", "bye"} /\ m = Msg(m.kind, m.req)
    BY MessageFields
  <1>4. /\ Len(sent) \in Nat \ {0} /\ DOMAIN sent = 1..Len(sent) /\ DOMAIN sent' = 1..(Len(sent) - 1)
        /\ \A i \in 1..(Len(sent) - 1) : sent'[i] = sent[i + 1]
    BY <1>1, TailIs
  <1> SUFFICES ASSUME NEW u \in Users, phase[u] = "receiving"
               PROVE  /\ started[u] => OwnFrom(asked[u], 1)' /\ OnlyOne(asked[u])'
                      /\ \A i \in DOMAIN inbox' : inbox'[i] = Msg("audio_start", asked[u]) =>
                            OwnFrom(asked[u], i)' /\ OnlyOne(asked[u])'
                      /\ \A i, j \in DOMAIN sent' : sent'[i] = Msg("synthesize", asked[u]) /\ i < j =>
                            sent'[j].kind # "synthesize"
    BY <1>1 DEF AudioInv
  <1>5. \A i, j \in DOMAIN sent' : sent'[i] = Msg("synthesize", asked[u]) /\ i < j =>
            sent'[j].kind # "synthesize"
    BY <1>4 DEF AudioInv
  <1>6. CASE m.kind = "synthesize"
    <2>1. PICK n \in Incoming : n = Msg("audio_start", m.req) /\ n.kind = "audio_start" /\ n.req = m.req
      BY <1>3, MessagesAre
    <2>2. serving' = m.req /\ inbox' = inbox \o <<n>>
      BY <1>2, <1>6, <2>1 DEF Take, Answers
    <2>3. /\ Len(inbox) \in Nat /\ DOMAIN inbox = 1..Len(inbox) /\ DOMAIN inbox' = 1..(Len(inbox) + 1)
          /\ \A i \in 1..Len(inbox) : inbox'[i] = inbox[i]
          /\ inbox'[Len(inbox) + 1] = n
      BY <1>1, <2>2, WithOne, AppendIs
    <2>4. ~NoSynthesis
      BY <1>2, <1>4, <1>6 DEF NoSynthesis
    <2>5. ~started[u] /\ \A i \in DOMAIN inbox : inbox[i] # Msg("audio_start", asked[u])
      BY <2>4 DEF AudioInv, OnlyOne
    <2>6. ASSUME NEW i \in DOMAIN inbox', inbox'[i] = Msg("audio_start", asked[u])
          PROVE  OwnFrom(asked[u], i)' /\ OnlyOne(asked[u])'
      <3>1. i = Len(inbox) + 1 /\ n = Msg("audio_start", asked[u])
        BY <2>3, <2>5, <2>6
      <3>2. m.req = asked[u]
        BY <2>1, <3>1, Types, MessagesAre
      <3>3. OwnFrom(asked[u], i)'
        BY <2>1, <2>3, <3>1 DEF OwnFrom
      <3>4. sent[1] = Msg("synthesize", asked[u]) /\ 1 \in DOMAIN sent
        BY <1>2, <1>3, <1>4, <1>6, <3>2
      <3>5. \A j \in DOMAIN sent' : sent'[j].kind # "synthesize"
        <4>1. ASSUME NEW j \in DOMAIN sent' PROVE sent'[j].kind # "synthesize"
          <5>1. j + 1 \in DOMAIN sent /\ 1 < j + 1 /\ sent'[j] = sent[j + 1]
            BY <1>4
          <5> QED
            BY <3>4, <5>1 DEF AudioInv
        <4> QED
          BY <4>1
      <3> QED
        BY <1>1, <2>2, <3>2, <3>3, <3>5 DEF OnlyOne, NoSynthesis
    <2> QED
      BY <1>5, <2>5, <2>6
  <1>7. CASE m.kind # "synthesize"
    <2>1. serving' \in {serving, NoRequest}
      BY <1>2, <1>3, <1>7 DEF Take
    <2>2. \/ inbox' = inbox \o <<>>
          \/ \E n \in Incoming : inbox' = inbox \o <<n>> /\ n.kind \notin {"audio_start", "pcm"}
      <3>1. \A k \in {"ready", "ended"} : Msg(k, NoRequest) \in Incoming /\ Msg(k, NoRequest).kind = k
        BY MessagesAre, RequestsAre
      <3>2. Msg("cancelled", m.req) \in Incoming /\ Msg("cancelled", m.req).kind = "cancelled"
        BY <1>3, MessagesAre
      <3>3. \/ inbox' = inbox \o <<>>
            \/ \E k \in {"ready", "ended"} : inbox' = inbox \o <<Msg(k, NoRequest)>>
            \/ inbox' = inbox \o <<Msg("cancelled", m.req)>>
        BY <1>2, <1>3, <1>7 DEF Take, Answers
      <3> QED
        BY <3>1, <3>2, <3>3
    <2>3. /\ DOMAIN inbox \subseteq DOMAIN inbox' /\ \A i \in DOMAIN inbox : inbox'[i] = inbox[i]
          /\ \A i \in DOMAIN inbox' \ DOMAIN inbox : inbox'[i].kind \notin {"audio_start", "pcm"}
      <3>1. CASE inbox' = inbox \o <<>>
        BY <1>1, <3>1, WithNothing
      <3>2. ASSUME NEW n \in Incoming, inbox' = inbox \o <<n>>, n.kind \notin {"audio_start", "pcm"}
            PROVE  /\ DOMAIN inbox \subseteq DOMAIN inbox' /\ \A i \in DOMAIN inbox : inbox'[i] = inbox[i]
                   /\ \A i \in DOMAIN inbox' \ DOMAIN inbox :
                         inbox'[i].kind \notin {"audio_start", "pcm"}
        <4>1. /\ Len(inbox) \in Nat /\ DOMAIN inbox = 1..Len(inbox) /\ DOMAIN inbox' = 1..(Len(inbox) + 1)
              /\ \A i \in 1..Len(inbox) : inbox'[i] = inbox[i]
              /\ inbox'[Len(inbox) + 1] = n
          BY <1>1, <3>2, WithOne, AppendIs
        <4> QED
          BY <3>2, <4>1
      <3> QED
        BY <2>2, <3>1, <3>2
    <2>4. ASSUME NEW i \in Nat, OwnFrom(asked[u], i) PROVE OwnFrom(asked[u], i)'
      BY <1>1, <2>3, <2>4 DEF OwnFrom
    <2>5. ASSUME OnlyOne(asked[u]) PROVE OnlyOne(asked[u])'
      BY <1>1, <1>4, <2>1, <2>5 DEF OnlyOne, NoSynthesis
    <2>6. ASSUME NEW i \in DOMAIN inbox', inbox'[i] = Msg("audio_start", asked[u])
          PROVE  i \in DOMAIN inbox /\ inbox[i] = Msg("audio_start", asked[u]) /\ i \in Nat
      <3>1. Msg("audio_start", asked[u]).kind = "audio_start"
        BY Types, MessagesAre
      <3> QED
        BY <1>1, <2>3, <2>6, <3>1
    <2> QED
      BY <1>5, <2>4, <2>5, <2>6 DEF AudioInv
  <1> QED
    BY <1>6, <1>7

LEMMA AudioSynthesize ==
  ASSUME TypeOK, AudioInv, Synthesize
  PROVE  AudioInv'
  <1>1. /\ serving # NoRequest /\ serving' = NoRequest /\ UNCHANGED <<asked, started, phase, sent>>
    BY DEF Synthesize
  <1>2. /\ DOMAIN inbox = 1..Len(inbox) /\ Len(inbox) \in Nat
        /\ DOMAIN inbox' = 1..(Len(inbox) + 2)
        /\ \A i \in 1..Len(inbox) : inbox'[i] = inbox[i]
        /\ inbox'[Len(inbox) + 1].kind = "pcm" /\ inbox'[Len(inbox) + 1].req = serving
        /\ inbox'[Len(inbox) + 2].kind = "audio_end"
    BY Synthesized
  <1>3. ASSUME NEW u \in Users, NEW i \in Nat, OwnFrom(asked[u], i), OnlyOne(asked[u])
        PROVE  OwnFrom(asked[u], i)' /\ OnlyOne(asked[u])'
    <2>1. serving = asked[u]
      BY <1>1, <1>3 DEF OnlyOne
    <2>2. \A j \in DOMAIN inbox' : i <= j /\ inbox'[j].kind = "pcm" => inbox'[j].req = asked[u]
      BY <1>2, <1>3, <2>1 DEF OwnFrom
    <2> QED
      BY <1>1, <1>3, <2>2 DEF OwnFrom, OnlyOne, NoSynthesis
  <1>4. ASSUME NEW u \in Users, NEW i \in DOMAIN inbox', inbox'[i] = Msg("audio_start", asked[u])
        PROVE  i \in DOMAIN inbox /\ inbox[i] = Msg("audio_start", asked[u]) /\ i \in Nat
    <2>1. Msg("audio_start", asked[u]).kind = "audio_start"
      BY Types, MessagesAre
    <2> QED
      BY <1>2, <1>4, <2>1
  <1> QED
    BY <1>1, <1>3, <1>4 DEF AudioInv

LEMMA AudioCut ==
  ASSUME AudioInv, Cut
  PROVE  AudioInv'
  <1>1. /\ UNCHANGED <<phase, asked, started, inbox>> /\ serving' = NoRequest /\ sent' = <<>>
    BY DEF Cut
  <1>2. DOMAIN sent' = {}
    BY <1>1
  <1> QED
    BY <1>1, <1>2 DEF AudioInv, OwnFrom, OnlyOne, NoSynthesis

LEMMA AudioStep ==
  ASSUME TypeOK, LockInv, KnownInv, AudioInv, NoForeignAudio, LockInv', [Next]_vars
  PROVE  AudioInv' /\ NoForeignAudio'
  <1>1. ASSUME NEW u \in Users, NEW p, Goes(u, p), p # "receiving", held' = u
        PROVE  AudioInv'
    <2>1. phase'[u] = p
      BY <1>1, GoesIs
    <2> QED
      BY <1>1, <2>1, NobodyReceives
  <1>2. ASSUME NEW u \in Users, phase[u] \in Holding PROVE held = u
    BY <1>2 DEF LockInv
  <1>3. ASSUME spoken' = spoken PROVE NoForeignAudio'
    BY <1>3 DEF NoForeignAudio
  <1>4. ASSUME NEW u \in Users, Begin(u) PROVE AudioInv' /\ spoken' = spoken
    BY <1>4, AudioUntouched, GoesIs DEF Begin, net
  <1>5. ASSUME NEW u \in Users, Acquire(u) PROVE AudioInv' /\ spoken' = spoken
    BY <1>1, <1>5 DEF Acquire, Use
  <1>6. ASSUME NEW u \in Users, Opened(u) PROVE AudioInv' /\ spoken' = spoken
    BY <1>1, <1>2, <1>6 DEF Opened, Use, Holding
  <1>7. ASSUME NEW u \in Users, Drop(u) \/ Release(u) PROVE AudioInv' /\ spoken' = spoken
    BY <1>7, NobodyReceives DEF Drop, Release, Free
  <1>8. ASSUME NEW u \in Users, DropCancelled(u) PROVE AudioInv' /\ spoken' = spoken
    BY <1>1, <1>2, <1>8 DEF DropCancelled, Holding
  <1>9. CASE Close
    BY <1>1, <1>3, <1>9, UsersAre DEF Close
  <1>10. CASE Part
    <2>1. held' = "aclose" /\ phase["aclose"] = "parting" /\ spoken' = spoken
      BY <1>2, <1>10, UsersAre DEF Part, Holding
    <2>2. phase'["aclose"] # "receiving"
      BY <1>10, <2>1, GoesIs, UsersAre DEF Part
    <2> QED
      BY <1>3, <2>1, <2>2, NobodyReceives
  <1>11. ASSUME NEW u \in Users, Finish(u) PROVE AudioInv' /\ spoken' = spoken
    BY <1>1, <1>2, <1>11 DEF Finish, Holding
  <1>12. ASSUME NEW u \in Users, Disconnected(u) PROVE AudioInv' /\ spoken' = spoken
    BY <1>1, <1>2, <1>12 DEF Disconnected, Holding
  <1>13. ASSUME NEW u \in Users, NEW how, Cancelled(u, how) PROVE AudioInv' /\ spoken' = spoken
    <2>1. CASE phase[u] = "waiting"
      BY <1>13, <2>1, AudioUntouched, GoesIs DEF Cancelled
    <2>2. CASE phase[u] # "waiting"
      BY <1>1, <1>2, <1>13, <2>2 DEF Cancelled, Holding
    <2> QED
      BY <2>1, <2>2
  <1>14. ASSUME NEW u \in Users, Drain(u) \/ GiveUp(u) PROVE AudioInv' /\ spoken' = spoken
    <2>1. phase[u] = "cancelling" /\ held' = u /\ spoken' = spoken
          /\ (Goes(u, After(u)) \/ UNCHANGED phase)
      BY <1>2, <1>14 DEF Drain, GiveUp, Holding
    <2>2. phase'[u] # "receiving"
      BY <2>1, GoesIs DEF After
    <2> QED
      BY <2>1, <2>2, NobodyReceives
  <1>15. ASSUME NEW u \in Users, Interrupt(u) \/ TimeOut(u) PROVE AudioInv' /\ spoken' = spoken
    BY <1>13, <1>15 DEF Interrupt, TimeOut
  <1>16. ASSUME NEW u \in Users, Turn(u) PROVE AudioInv' /\ NoForeignAudio'
    BY <1>3, <1>5, <1>6, <1>7, <1>8, <1>11, <1>12, <1>14, <1>15, <1>16, AudioReceive DEF Turn
  <1>17. ASSUME NEW u \in Users, Speak(u) PROVE AudioInv' /\ spoken' = spoken
    BY <1>17, AudioSpeak DEF Speak
  <1>18. CASE Take \/ Synthesize \/ Cut
    <2>1. spoken' = spoken
      BY <1>18 DEF Take, Synthesize, Cut
    <2> QED
      BY <1>3, <1>18, <2>1, AudioTake, AudioSynthesize, AudioCut
  <1>19. CASE UNCHANGED vars
    BY <1>3, <1>19, AudioUntouched DEF vars, net
  <1>20. CASE Next
    BY <1>3, <1>4, <1>9, <1>10, <1>15, <1>16, <1>17, <1>18, <1>20 DEF Next
  <1> QED
    BY <1>19, <1>20
-----------------------------------------------------------------------------
(* The invariant *)

LEMMA SpeechInvariant == Spec => []SpeechInv
  <1>1. Init => SpeechInv
    BY TypeInit, LockInit, KnownInit, AudioInit DEF SpeechInv, Init, NoForeignAudio
  <1>2. SpeechInv /\ [Next]_vars => SpeechInv'
    BY TypeStep, LockStep, KnownStep, AudioStep DEF SpeechInv
  <1> QED
    BY <1>1, <1>2, PTL DEF Spec

(* Every variable keeps its type.                                           *)
THEOREM TypeCorrect == Spec => []TypeOK
  <1>1. SpeechInv => TypeOK
    BY DEF SpeechInv
  <1> QED
    BY <1>1, SpeechInvariant, PTL

(* A lock that is taken has an owner who is still going to release it,      *)
(* unless he was cancelled twice while his connection failed to open.       *)
THEOREM OwnerIsAtWork == Spec => []LockHasOwner
  <1>1. SpeechInv => LockHasOwner
    BY DEF SpeechInv, LockInv, LockHasOwner, Holding
  <1> QED
    BY <1>1, SpeechInvariant, PTL

(* What is played in a phrase is the audio of that phrase, whatever an      *)
(* interrupted reply has left on the connection, and also when the server   *)
(* confirms a cancel that came too late.                                    *)
THEOREM NothingForeignIsPlayed == Spec => []NoForeignAudio
  <1>1. SpeechInv => NoForeignAudio
    BY DEF SpeechInv
  <1> QED
    BY <1>1, SpeechInvariant, PTL
-----------------------------------------------------------------------------
(* Who pays *)

LEMMA FailedIsFinite ==
  IsFiniteSet(Failed) /\ Cardinality(Failed) \in Nat
  <1>1. Failed \subseteq Streams /\ IsFiniteSet(Streams)
    BY SpeechAssumption DEF Failed
  <1> QED
    BY <1>1, FS_Subset, FS_CardinalityType

LEMMA FailedGrows ==
  /\ Failed' \subseteq Failed => Cardinality(Failed') <= Cardinality(Failed) /\ Cardinality(Failed') \in Nat
  /\ \A u : Failed' \subseteq Failed \cup {u} =>
        Cardinality(Failed') <= Cardinality(Failed) + 1 /\ Cardinality(Failed') \in Nat
  <1>1. IsFiniteSet(Failed) /\ Cardinality(Failed) \in Nat
    BY FailedIsFinite
  <1>2. ASSUME NEW T, NEW S, IsFiniteSet(S), T \subseteq S
        PROVE  Cardinality(T) <= Cardinality(S) /\ Cardinality(T) \in Nat
    BY <1>2, FS_Subset, FS_CardinalityType
  <1>3. ASSUME NEW u
        PROVE  /\ IsFiniteSet(Failed \cup {u})
               /\ Cardinality(Failed \cup {u}) \in Nat
               /\ Cardinality(Failed \cup {u}) <= Cardinality(Failed) + 1
    BY <1>1, FS_AddElement, FS_CardinalityType
  <1>4. ASSUME NEW u, Failed' \subseteq Failed \cup {u}
        PROVE  Cardinality(Failed') <= Cardinality(Failed) + 1 /\ Cardinality(Failed') \in Nat
    <2>1. Cardinality(Failed') <= Cardinality(Failed \cup {u}) /\ Cardinality(Failed') \in Nat
      BY <1>2, <1>3, <1>4
    <2>2. /\ Cardinality(Failed \cup {u}) \in Nat
          /\ Cardinality(Failed \cup {u}) <= Cardinality(Failed) + 1
      BY <1>3
    <2> QED
      BY <1>1, <2>1, <2>2
  <1> QED
    BY <1>1, <1>2, <1>4

LEMMA NobodyFails ==
  ASSUME UNCHANGED outcome
  PROVE  Failed' \subseteq Failed
  BY DEF Failed

LEMMA OneFails ==
  ASSUME TypeOK, NEW u \in Users, NEW o, Ends(u, o)
  PROVE  /\ Failed' \subseteq Failed \cup {u}
         /\ o # "failed" => Failed' \subseteq Failed
  BY EndsIs, UsersAre DEF Failed

(* No new failure, and no new debt.                                         *)
LEMMA NothingOwed ==
  ASSUME TypeOK, DebtInv, Failed' \subseteq Failed, Owed' => Owed, UNCHANGED <<late, faults>>
  PROVE  DebtInv'
  <1>1. Cardinality(Failed') <= Cardinality(Failed) /\ Cardinality(Failed') \in Nat /\ Cardinality(Failed) \in Nat
    BY FailedGrows, FailedIsFinite
  <1>2. late \in Nat /\ faults \in Nat
    BY Types, SpeechAssumption
  <1>3. CASE Owed
    <2>1. Cardinality(Failed) + 1 <= late + faults
      BY <1>3 DEF DebtInv
    <2> QED
      BY <1>1, <1>2, <2>1 DEF DebtInv
  <1>4. CASE ~Owed
    <2>1. Cardinality(Failed) + 0 <= late + faults /\ ~Owed'
      BY <1>4 DEF DebtInv
    <2> QED
      BY <1>1, <1>2, <2>1 DEF DebtInv
  <1> QED
    BY <1>3, <1>4

(* A reply that fails pays the debt.                                        *)
LEMMA DebtIsPaid ==
  ASSUME TypeOK, DebtInv, NEW u, Failed' \subseteq Failed \cup {u}, Owed, ~Owed',
         UNCHANGED <<late, faults>>
  PROVE  DebtInv'
  <1>1. Cardinality(Failed') <= Cardinality(Failed) + 1 /\ Cardinality(Failed') \in Nat /\ Cardinality(Failed) \in Nat
    BY FailedGrows, FailedIsFinite
  <1>2. late \in Nat /\ faults \in Nat
    BY Types, SpeechAssumption
  <1>3. Cardinality(Failed) + 1 <= late + faults
    BY DEF DebtInv
  <1> QED
    BY <1>1, <1>2, <1>3 DEF DebtInv

(* A timeout pays for the reply it makes fail, ...                          *)
LEMMA FailureIsPaid ==
  ASSUME TypeOK, DebtInv, NEW u, Failed' \subseteq Failed \cup {u}, Owed' => Owed,
         late' = late + 1, faults' = faults
  PROVE  DebtInv'
  <1>1. Cardinality(Failed') <= Cardinality(Failed) + 1 /\ Cardinality(Failed') \in Nat /\ Cardinality(Failed) \in Nat
    BY FailedGrows, FailedIsFinite
  <1>2. late \in Nat /\ faults \in Nat
    BY Types, SpeechAssumption
  <1>3. CASE Owed
    <2>1. Cardinality(Failed) + 1 <= late + faults
      BY <1>3 DEF DebtInv
    <2> QED
      BY <1>1, <1>2, <2>1 DEF DebtInv
  <1>4. CASE ~Owed
    <2>1. Cardinality(Failed) + 0 <= late + faults /\ ~Owed'
      BY <1>4 DEF DebtInv
    <2> QED
      BY <1>1, <1>2, <2>1 DEF DebtInv
  <1> QED
    BY <1>3, <1>4

(* ... and so does a broken connection for the next one.                    *)
LEMMA StrikeIsCounted ==
  ASSUME TypeOK, DebtInv, UNCHANGED outcome,
         \/ late' = late + 1 /\ faults' = faults
         \/ late' = late /\ faults' = faults + 1
  PROVE  DebtInv'
  <1>1. Cardinality(Failed') = Cardinality(Failed) /\ Cardinality(Failed) \in Nat
    BY FailedIsFinite DEF Failed
  <1>2. late \in Nat /\ faults \in Nat
    BY Types, SpeechAssumption
  <1>3. Cardinality(Failed) <= late + faults
    BY <1>1, <1>2 DEF DebtInv
  <1>4. late' + faults' = late + faults + 1
    BY <1>2
  <1> QED
    BY <1>1, <1>2, <1>3, <1>4 DEF DebtInv
-----------------------------------------------------------------------------
(* Short queues *)

LEMMA ShortTails ==
  ASSUME NEW a, NEW b, NEW c
  PROVE  /\ Head(<<a>>) = a /\ Tail(<<a>>) = <<>>
         /\ Head(<<a, b>>) = a /\ Tail(<<a, b>>) = <<b>>
         /\ Head(<<a, b, c>>) = a /\ Tail(<<a, b, c>>) = <<b, c>>
         /\ <<a>> # <<>> /\ <<a, b>> # <<>> /\ <<a, b, c>> # <<>>
  OBVIOUS

LEMMA OneLong ==
  ASSUME NEW S, NEW t \in Seq(S), NEW a \in S, Len(t) = 1, t[1] = a
  PROVE  t = <<a>>
  OBVIOUS

LEMMA TwoLong ==
  ASSUME NEW S, NEW t \in Seq(S), NEW a \in S, NEW b \in S, Len(t) = 2, t[1] = a, t[2] = b
  PROVE  t = <<a, b>>
  <1>1. <<a, b>> \in Seq(S) /\ Len(<<a, b>>) = 2 /\ <<a, b>>[1] = a /\ <<a, b>>[2] = b
    OBVIOUS
  <1>2. \A i \in 1..Len(t) : t[i] = <<a, b>>[i]
    <2>1. 1..Len(t) = {1, 2}
      OBVIOUS
    <2> QED
      BY <1>1, <2>1
  <1> QED
    BY <1>1, <1>2, SeqEqual

LEMMA ThreeLong ==
  ASSUME NEW S, NEW t \in Seq(S), NEW a \in S, NEW b \in S, NEW c \in S,
         Len(t) = 3, t[1] = a, t[2] = b, t[3] = c
  PROVE  t = <<a, b, c>>
  <1>1. /\ <<a, b, c>> \in Seq(S) /\ Len(<<a, b, c>>) = 3
        /\ <<a, b, c>>[1] = a /\ <<a, b, c>>[2] = b /\ <<a, b, c>>[3] = c
    OBVIOUS
  <1>2. \A i \in 1..Len(t) : t[i] = <<a, b, c>>[i]
    <2>1. 1..Len(t) = {1, 2, 3}
      OBVIOUS
    <2> QED
      BY <1>1, <2>1
  <1> QED
    BY <1>1, <1>2, SeqEqual

(* Nothing is owed while the state the holder sees does not change.         *)
LEMMA OthersMove ==
  ASSUME UNCHANGED <<held, asked, started, conn, sent, inbox, serving>>,
         held # "nobody" => phase'[held] = phase[held] /\ outcome'[held] = outcome[held]
  PROVE  Owed' => Owed
  <1>1. Doomed' <=> Doomed
    BY DEF Doomed
  <1>2. Place' = Place
    BY DEF Place
  <1>3. Quiet' <=> Quiet
    BY DEF Quiet, OnlyCancels
  <1>4. Opening' <=> Opening
    BY DEF Opening
  <1>5. held # "nobody" => (Talk' <=> Talk)
    BY DEF Talk, Conversation, Queued, Worked, Answered, OnlyCancels
  <1>6. Place = "talk" => held # "nobody"
    BY DEF Place
  <1>7. InStep' <=> InStep
    BY <1>2, <1>3, <1>4, <1>5, <1>6 DEF InStep
  <1> QED
    BY <1>1, <1>7 DEF Owed

(* Who closes the connection, and who has failed, owes nothing.             *)
LEMMA DoomedPays ==
  ASSUME NEW u \in Users, held' = u,
         phase'[u] \in {"breaking", "dropping", "parting"} \/ outcome'[u] = "failed"
  PROVE  ~Owed'
  BY UsersAre DEF Owed, Doomed

LEMMA NoConnection ==
  ASSUME conn' = "none"
  PROVE  ~Owed'
  BY DEF Owed

(* What a holder who neither has failed nor is about to close owes.         *)
LEMMA SoundHolder ==
  ASSUME LockInv, NEW u \in Users,
         phase[u] \in {"opening", "idle", "receiving", "cancelling", "releasing"},
         outcome[u] # "failed", ~Owed
  PROVE  /\ held = u
         /\ conn # "closed"
         /\ conn = "open" =>
               IF phase[u] \in {"receiving", "cancelling"} THEN Talk
               ELSE IF phase[u] = "opening" THEN Opening ELSE Quiet
  <1>1. held = u /\ held # "nobody"
    BY UsersAre DEF LockInv, Holding
  <1>2. ~Doomed
    BY <1>1 DEF Doomed
  <1>3. conn # "closed" /\ (conn = "open" => InStep)
    BY <1>2 DEF Owed
  <1> QED
    BY <1>1, <1>3 DEF InStep, Place, StepOf

(* What is enough for it to owe nothing after the step.                     *)
LEMMA StaysSound ==
  ASSUME NEW u \in Users, held' = u, conn' # "closed",
         conn' = "open" =>
            IF phase'[u] \in {"receiving", "cancelling"} THEN Talk'
            ELSE IF phase'[u] = "opening" THEN Opening' ELSE Quiet'
  PROVE  ~Owed'
  <1>1. held' # "nobody"
    BY UsersAre
  <1> QED
    BY <1>1 DEF Owed, InStep, Place, StepOf

LEMMA SoundOutcome ==
  ASSUME LockInv, NEW u \in Users,
         phase[u] \notin {"cancelling", "dropping", "breaking", "lost", "done"}
  PROVE  outcome[u] # "failed"
  BY DEF LockInv

LEMMA DebtBegin ==
  ASSUME TypeOK, LockInv, DebtInv, NEW u \in Users, Begin(u)
  PROVE  DebtInv'
  <1>1. held # "nobody" => phase'[held] = phase[held] /\ outcome'[held] = outcome[held]
    <2>1. phase[u] = "new" /\ Goes(u, "waiting") /\ outcome' = outcome
      BY DEF Begin
    <2> QED
      BY <2>1, GoesIs, Types DEF LockInv, Holding
  <1>2. Owed' => Owed
    BY <1>1, OthersMove DEF Begin, net
  <1> QED
    BY <1>2, NobodyFails, NothingOwed DEF Begin

LEMMA DebtAcquire ==
  ASSUME TypeOK, LockInv, DebtInv, NEW u \in Users, Acquire(u)
  PROVE  DebtInv'
  <1>1. held = "nobody" /\ held' = u /\ ~Doomed
    BY DEF Acquire, Doomed
  <1>2. CASE conn = "open"
    <2>1. phase'[u] \in {"releasing", "idle"} /\ UNCHANGED net
      BY <1>2, GoesIs DEF Acquire, Use
    <2>2. ASSUME ~Owed PROVE ~Owed'
      <3>1. Quiet
        BY <1>1, <1>2, <2>2 DEF Owed, InStep, Place
      <3>2. Quiet' /\ conn' = "open"
        BY <1>2, <2>1, <3>1 DEF Quiet, OnlyCancels, net
      <3> QED
        BY <1>1, <2>1, <3>2, StaysSound
    <2> QED
      BY <2>2, NobodyFails, NothingOwed DEF Acquire
  <1>3. CASE conn # "open"
    <2>1. Goes(u, "opening") /\ conn' = "open" /\ Opening'
      BY <1>3 DEF Acquire, Opening
    <2>2. phase'[u] = "opening"
      BY <2>1, GoesIs
    <2>3. ~Owed'
      BY <1>1, <2>1, <2>2, StaysSound
    <2> QED
      BY <2>3, NobodyFails, NothingOwed DEF Acquire
  <1> QED
    BY <1>2, <1>3

LEMMA DebtOpened ==
  ASSUME TypeOK, LockInv, DebtInv, NEW u \in Users, Opened(u)
  PROVE  DebtInv'
  <1>1. /\ phase[u] = "opening" /\ inbox # <<>> /\ inbox' = Tail(inbox)
        /\ UNCHANGED <<held, conn, sent, serving, outcome, late, faults>>
    BY DEF Opened
  <1>2. phase'[u] \in {"releasing", "idle"}
    BY GoesIs DEF Opened, Use
  <1>3. outcome[u] # "failed"
    BY <1>1, SoundOutcome
  <1>4. ASSUME ~Owed PROVE ~Owed'
    <2>1. held = u /\ conn # "closed" /\ (conn = "open" => Opening)
      BY <1>1, <1>3, <1>4, SoundHolder
    <2>2. ASSUME conn = "open" PROVE Quiet'
      <3>1. serving = NoRequest /\ sent = <<>> /\ inbox = <<Msg("ready", NoRequest)>>
        BY <1>1, <2>1, <2>2 DEF Opening
      <3>2. inbox' = <<>> /\ DOMAIN sent' = {}
        BY <1>1, <3>1, ShortTails
      <3> QED
        BY <1>1, <3>1, <3>2 DEF Quiet, OnlyCancels
    <2> QED
      BY <1>1, <1>2, <2>1, <2>2, StaysSound
  <1> QED
    BY <1>1, <1>4, NobodyFails, NothingOwed

LEMMA DebtDrop ==
  ASSUME TypeOK, DebtInv, NEW u \in Users, Drop(u) \/ DropCancelled(u)
  PROVE  DebtInv'
  BY NoConnection, NobodyFails, NothingOwed DEF Drop, DropCancelled

LEMMA DebtRelease ==
  ASSUME TypeOK, LockInv, DebtInv, NEW u \in Users, Release(u)
  PROVE  DebtInv'
  <1>1. UNCHANGED <<outcome, late, faults>>
    BY DEF Release
  <1>2. CASE phase[u] = "breaking"
    BY <1>1, <1>2, NoConnection, NobodyFails, NothingOwed DEF Release
  <1>3. CASE phase[u] = "releasing"
    <2>1. outcome[u] # "failed" /\ held' = "nobody" /\ UNCHANGED <<conn, sent, inbox, serving>>
      BY <1>3, SoundOutcome DEF Release, Free
    <2>2. ASSUME ~Owed PROVE ~Owed'
      <3>1. conn # "closed" /\ (conn = "open" => Quiet)
        BY <1>3, <2>1, <2>2, SoundHolder
      <3>2. conn = "open" => Quiet'
        BY <2>1, <3>1 DEF Quiet, OnlyCancels
      <3> QED
        BY <2>1, <3>1, <3>2 DEF Owed, InStep, Place
    <2> QED
      BY <1>1, <2>2, NobodyFails, NothingOwed
  <1> QED
    BY <1>2, <1>3 DEF Release

LEMMA DebtClose ==
  ASSUME TypeOK, LockInv, DebtInv, Close \/ Part
  PROVE  DebtInv'
  <1>1. UNCHANGED <<outcome, late, faults, conn>>
    BY DEF Close, Part
  <1>2. "aclose" \in Users /\ held' = "aclose"
    BY UsersAre DEF Close, Part, LockInv, Holding
  <1>3. conn = "none" \/ phase'["aclose"] \in {"parting", "breaking"}
    BY <1>2, GoesIs DEF Close, Part
  <1>4. ~Owed'
    BY <1>1, <1>2, <1>3, DoomedPays, NoConnection
  <1> QED
    BY <1>1, <1>4, NobodyFails, NothingOwed

LEMMA DebtSpeak ==
  ASSUME TypeOK, LockInv, KnownInv, DebtInv, NEW u \in Streams, Speak(u)
  PROVE  DebtInv'
  <1>1. /\ u \in Users /\ phase[u] = "idle" /\ Goes(u, "receiving")
        /\ UNCHANGED <<held, outcome, conn, inbox, serving, late, faults>>
    BY UsersAre DEF Speak
  <1>2. phase'[u] = "receiving" /\ started'[u] = FALSE
    BY <1>1, GoesIs, Types DEF Speak
  <1>3. outcome[u] # "failed"
    BY <1>1, SoundOutcome
  <1>4. asked'[u] = <<u, asked[u][2] + 1>> /\ asked'[u] \in Requests
    BY NextPhrase
  <1>5. ~Asked(asked'[u])
    BY <1>1, <1>4 DEF Asked, KnownInv
  <1>6. ASSUME ~Owed PROVE ~Owed'
    <2>1. held = u /\ conn # "closed" /\ (conn = "open" => Quiet)
      BY <1>1, <1>3, <1>6, SoundHolder
    <2>2. ASSUME conn = "open" PROVE Talk'
      <3>1. PICK m \in Outgoing : m = Msg("synthesize", asked'[u])
        BY <1>4, MessagesAre
      <3>2. sent' = Append(sent, m)
        BY <2>2, <3>1 DEF Speak
      <3>3. /\ Len(sent) \in Nat /\ DOMAIN sent = 1..Len(sent) /\ DOMAIN sent' = 1..(Len(sent) + 1)
            /\ Len(sent') = Len(sent) + 1
            /\ \A i \in 1..Len(sent) : sent'[i] = sent[i]
            /\ sent'[Len(sent) + 1] = m
        BY <3>2, Types, AppendIs
      <3>4. inbox' = <<>> /\ serving' = NoRequest /\ OnlyCancels
        BY <1>1, <2>1, <2>2 DEF Quiet
      <3>5. \A i \in DOMAIN sent' \ {Len(sent) + 1} : sent'[i].kind = "cancel" /\ sent'[i].req # asked'[u]
        <4>1. ASSUME NEW i \in DOMAIN sent PROVE sent[i].kind = "cancel" /\ sent[i].req # asked'[u]
          BY <1>5, <3>4 DEF OnlyCancels, KnownInv
        <4> QED
          BY <3>3, <4>1
      <3> DEFINE k == Len(sent) + 1
      <3>6. /\ k \in DOMAIN sent' /\ sent'[k] = m /\ k = Len(sent')
            /\ \A i \in DOMAIN sent' \ {k} : sent'[i].kind = "cancel"
            /\ \A i \in DOMAIN sent' : i < k => sent'[i].req # asked'[u]
        BY <3>3, <3>5
      <3> HIDE DEF k
      <3>7. PICK j \in DOMAIN sent' :
              /\ sent'[j] = m /\ j = Len(sent')
              /\ \A i \in DOMAIN sent' \ {j} : sent'[i].kind = "cancel"
              /\ \A i \in DOMAIN sent' : i < j => sent'[i].req # asked'[u]
        BY <3>6
      <3>8. held' = u
        BY <1>1, <2>1
      <3> QED
        BY <1>2, <3>1, <3>4, <3>7, <3>8 DEF Talk, Conversation, Queued
    <2> QED
      BY <1>1, <1>2, <2>1, <2>2, StaysSound
  <1> QED
    BY <1>1, <1>6, NobodyFails, NothingOwed

LEMMA DebtFinish ==
  ASSUME TypeOK, LockInv, DebtInv, NEW u \in Users, phase[u] = "idle", Goes(u, "releasing"),
         NEW how \in {"spoken", "interrupted"}, Ends(u, how),
         UNCHANGED <<held, conn, sent, inbox, serving, late, faults>>
  PROVE  DebtInv'
  <1>1. phase'[u] = "releasing" /\ outcome[u] # "failed"
    BY GoesIs, SoundOutcome
  <1>2. ASSUME ~Owed PROVE ~Owed'
    <2>1. held = u /\ conn # "closed" /\ (conn = "open" => Quiet)
      BY <1>1, <1>2, SoundHolder
    <2>2. conn = "open" => Quiet'
      BY <2>1 DEF Quiet, OnlyCancels
    <2> QED
      BY <1>1, <2>1, <2>2, StaysSound
  <1> QED
    BY <1>2, OneFails, NothingOwed

(* Received in a conversation that is in step, no message is a surprise.    *)
LEMMA DebtReceive ==
  ASSUME TypeOK, LockInv, DebtInv, NEW u \in Users, Receive(u)
  PROVE  DebtInv'
  <1>1. /\ phase[u] = "receiving" /\ inbox # <<>> /\ inbox' = Tail(inbox)
        /\ UNCHANGED <<held, asked, conn, sent, serving, late, faults>>
    BY DEF Receive
  <1>2. outcome[u] # "failed" /\ held = u /\ conn # "none"
    BY <1>1, SoundOutcome DEF LockInv, Holding
  <1>3. PICK r \in Requests : r = asked[u]
    BY Types
  <1>4. PICK start \in Incoming, pcm \in Incoming, end \in Incoming :
          /\ start = Msg("audio_start", r) /\ start.kind = "audio_start" /\ start.req = r
          /\ pcm = Msg("pcm", r) /\ pcm.kind = "pcm" /\ pcm.req = r
          /\ end = Msg("audio_end", r) /\ end.kind = "audio_end" /\ end.req = r
    BY MessagesAre
  <1>5. ASSUME Talk
        PROVE  /\ OnlyCancels
               /\ \/ /\ inbox = <<start>> /\ ~started[u] /\ serving = r
                     /\ \A i \in DOMAIN sent : sent[i].req # r
                  \/ inbox = <<start, pcm, end>> /\ ~started[u] /\ serving = NoRequest
                  \/ inbox = <<pcm, end>> /\ started[u] /\ serving = NoRequest
                  \/ inbox = <<end>> /\ started[u] /\ serving = NoRequest
    BY <1>1, <1>2, <1>3, <1>4, <1>5 DEF Talk, Conversation, Queued, Worked, Answered
  <1>6. ASSUME Talk
        PROVE  /\ outcome' = outcome
               /\ \/ phase'[u] = "receiving" /\ Talk'
                  \/ phase'[u] = "idle" /\ Quiet'
    <2>1. CASE Head(inbox) = start
      <3>1. phase' = phase /\ outcome' = outcome /\ started'[u] = TRUE
        BY <1>1, <1>3, <1>4, <2>1, Types DEF Receive
      <3>2. OnlyCancels'
        BY <1>1, <1>5, <1>6 DEF OnlyCancels
      <3>3. CASE inbox = <<start>> /\ serving = r /\ \A i \in DOMAIN sent : sent[i].req # r
        <4>1. inbox' = <<>>
          BY <1>1, <3>3, ShortTails
        <4>2. Worked(u)'
          BY <1>1, <1>3, <3>1, <3>2, <3>3, <4>1 DEF Worked
        <4>3. Talk'
          BY <1>1, <1>2, <4>2 DEF Talk, Conversation, Queued, Worked, Answered
        <4> QED
          BY <1>1, <3>1, <4>3
      <3>4. CASE inbox = <<start, pcm, end>> /\ serving = NoRequest
        <4>1. inbox' = <<pcm, end>>
          BY <1>1, <3>4, ShortTails
        <4>2. Answered(u)'
          BY <1>1, <1>3, <1>4, <3>1, <3>2, <3>4, <4>1 DEF Answered
        <4>3. Talk'
          BY <1>1, <1>2, <4>2 DEF Talk, Conversation, Queued, Worked, Answered
        <4> QED
          BY <1>1, <3>1, <4>3
      <3>5. CASE inbox = <<pcm, end>> \/ inbox = <<end>>
        BY <1>4, <2>1, <3>5, ShortTails
      <3> QED
        BY <1>5, <1>6, <3>3, <3>4, <3>5
    <2>2. CASE Head(inbox) # start
      <3>1. /\ started[u] /\ serving = NoRequest /\ OnlyCancels
            /\ (inbox = <<pcm, end>> \/ inbox = <<end>>)
        BY <1>5, <1>6, <2>2, ShortTails
      <3>2. OnlyCancels'
        BY <1>1, <3>1 DEF OnlyCancels
      <3>3. CASE inbox = <<pcm, end>>
        <4>1. Head(inbox) = pcm /\ inbox' = <<end>>
          BY <1>1, <3>3, ShortTails
        <4>2. phase' = phase /\ outcome' = outcome /\ started' = started
          BY <1>4, <3>1, <4>1 DEF Receive
        <4>3. Answered(u)'
          BY <1>1, <1>3, <1>4, <3>1, <3>2, <4>1, <4>2 DEF Answered
        <4>4. Talk'
          BY <1>1, <1>2, <4>3 DEF Talk, Conversation, Queued, Worked, Answered
        <4> QED
          BY <1>1, <4>2, <4>4
      <3>4. CASE inbox = <<end>>
        <4>1. Head(inbox) = end /\ inbox' = <<>>
          BY <1>1, <3>4, ShortTails
        <4>2. Goes(u, "idle") /\ outcome' = outcome
          BY <1>3, <1>4, <4>1 DEF Receive
        <4>3. Quiet'
          BY <1>1, <3>1, <3>2, <4>1 DEF Quiet
        <4> QED
          BY <4>2, <4>3, GoesIs
      <3> QED
        BY <3>1, <3>3, <3>4
    <2> QED
      BY <2>1, <2>2
  <1>7. Failed' \subseteq Failed \cup {u}
    <2>1. outcome' = outcome \/ Ends(u, "failed")
      BY DEF Receive, Fails
    <2> QED
      BY <2>1, NobodyFails, OneFails
  <1>8. CASE Owed
    <2>1. CASE outcome' = outcome
      BY <1>1, <1>8, <2>1, NobodyFails, NothingOwed
    <2>2. CASE outcome' # outcome
      <3>1. Goes(u, "breaking")
        BY <2>2 DEF Receive, Fails
      <3>2. ~Owed'
        BY <1>1, <1>2, <3>1, GoesIs, DoomedPays
      <3> QED
        BY <1>1, <1>7, <1>8, <3>2, DebtIsPaid
    <2> QED
      BY <2>1, <2>2
  <1>9. CASE ~Owed
    <2>1. conn = "open" /\ Talk
      BY <1>1, <1>2, <1>9, SoundHolder, Types
    <2>2. ~Owed'
      BY <1>1, <1>2, <1>6, <2>1, StaysSound
    <2> QED
      BY <1>1, <1>6, <2>1, <2>2, NobodyFails, NothingOwed
  <1> QED
    BY <1>8, <1>9

LEMMA DebtDisconnected ==
  ASSUME TypeOK, LockInv, DebtInv, NEW u \in Users, Disconnected(u)
  PROVE  DebtInv'
  <1>1. /\ conn = "closed" /\ phase[u] \in {"receiving", "opening"} /\ Ends(u, "failed")
        /\ UNCHANGED <<held, late, faults>>
    BY DEF Disconnected
  <1>2. outcome[u] # "failed" /\ held = u
    BY <1>1, SoundOutcome DEF LockInv, Holding
  <1>3. Owed
    BY <1>1, <1>2, SoundHolder
  <1>4. ~Owed'
    <2>1. outcome'[u] = "failed"
      BY <1>1, EndsIs
    <2> QED
      BY <1>1, <1>2, <2>1, DoomedPays
  <1> QED
    BY <1>1, <1>3, <1>4, OneFails, DebtIsPaid

(* The request of an interrupted phrase is cancelled behind it.             *)
LEMMA TalkIsCancelled ==
  ASSUME TypeOK, NEW u \in Users, held = u, phase[u] = "receiving", phase'[u] = "cancelling", Talk,
         sent' = Append(sent, Msg("cancel", asked[u])),
         UNCHANGED <<held, asked, started, inbox, serving>>
  PROVE  Talk'
  <1>1. PICK m \in Outgoing : m = Msg("cancel", asked[u]) /\ m.kind = "cancel"
    BY Types, MessagesAre
  <1>2. /\ Len(sent) \in Nat /\ DOMAIN sent = 1..Len(sent) /\ DOMAIN sent' = 1..(Len(sent) + 1)
        /\ \A i \in 1..Len(sent) : sent'[i] = sent[i]
        /\ sent'[Len(sent) + 1] = m
    BY <1>1, Types, AppendIs
  <1>3. OnlyCancels => OnlyCancels'
    BY <1>1, <1>2 DEF OnlyCancels
  <1>4. CASE Queued(u)
    <2>1. PICK k \in DOMAIN sent :
            /\ sent[k] = Msg("synthesize", asked[u])
            /\ \A i \in DOMAIN sent \ {k} : sent[i].kind = "cancel"
            /\ \A i \in DOMAIN sent : i < k => sent[i].req # asked[u]
      BY <1>4 DEF Queued
    <2>2. /\ k \in DOMAIN sent' /\ sent'[k] = Msg("synthesize", asked[u])
          /\ \A i \in DOMAIN sent' \ {k} : sent'[i].kind = "cancel"
          /\ \A i \in DOMAIN sent' : i < k => sent'[i].req # asked[u]
      BY <1>1, <1>2, <2>1
    <2>3. inbox' = <<>> /\ serving' = NoRequest
      BY <1>4 DEF Queued
    <2> QED
      BY <2>2, <2>3 DEF Talk, Conversation, Queued
  <1>5. CASE Worked(u)
    <2>1. /\ serving' = asked'[u] /\ inbox' \in {<<>>, <<Msg("audio_start", asked[u])>>} /\ OnlyCancels'
      BY <1>3, <1>5 DEF Worked
    <2> QED
      BY <2>1 DEF Talk, Conversation, Worked
  <1>6. CASE Answered(u)
    BY <1>3, <1>6 DEF Talk, Conversation, Answered
  <1> QED
    BY <1>4, <1>5, <1>6 DEF Talk, Conversation

LEMMA DebtCancelled ==
  ASSUME TypeOK, LockInv, DebtInv, NEW u \in Users, NEW how \in {"interrupted", "failed"},
         Cancelled(u, how),
         IF how = "failed" THEN late' = late + 1 ELSE late' = late
  PROVE  DebtInv'
  <1>1. /\ Ends(u, how) /\ UNCHANGED <<held, asked, started, conn, inbox, serving, faults>>
        /\ phase[u] \in {"waiting", "opening", "idle", "receiving"}
    BY DEF Cancelled
  <1>2. outcome[u] # "failed" /\ outcome'[u] = how /\ \A v \in Users \ {u} : outcome'[v] = outcome[v]
    BY <1>1, SoundOutcome, EndsIs
  <1>3. Owed' => Owed
    <2>1. CASE phase[u] = "waiting"
      <3>1. Goes(u, "done") /\ sent' = sent
        BY <2>1 DEF Cancelled
      <3>2. held # "nobody" => held \in Users \ {u}
        BY <2>1, Types DEF LockInv, Holding
      <3> QED
        BY <1>1, <1>2, <3>1, <3>2, GoesIs, OthersMove
    <2>2. CASE phase[u] # "waiting"
      <3>1. held = u /\ conn # "none"
        BY <1>1, <2>2 DEF LockInv, Holding
      <3>2. CASE how = "failed"
        BY <1>1, <1>2, <3>1, <3>2, DoomedPays
      <3>3. CASE how # "failed" /\ phase[u] = "opening"
        <4>1. phase'[u] = "dropping"
          BY <3>3, GoesIs DEF Cancelled
        <4> QED
          BY <1>1, <3>1, <4>1, DoomedPays
      <3>4. CASE how # "failed" /\ phase[u] = "idle"
        <4>1. phase'[u] = "releasing" /\ sent' = sent
          BY <3>4, GoesIs DEF Cancelled
        <4>2. ASSUME ~Owed PROVE ~Owed'
          <5>1. conn # "closed" /\ (conn = "open" => Quiet)
            BY <1>2, <3>4, <4>2, SoundHolder
          <5>2. conn = "open" => Quiet'
            BY <1>1, <4>1, <5>1 DEF Quiet, OnlyCancels
          <5> QED
            BY <1>1, <3>1, <4>1, <5>1, <5>2, StaysSound
        <4> QED
          BY <4>2
      <3>5. CASE how # "failed" /\ phase[u] = "receiving"
        <4>1. phase'[u] = "cancelling" /\ (conn = "open" => sent' = Append(sent, Msg("cancel", asked[u])))
          BY <3>5, GoesIs DEF Cancelled
        <4>2. ASSUME ~Owed PROVE ~Owed'
          <5>1. conn # "closed" /\ (conn = "open" => Talk)
            BY <1>2, <3>5, <4>2, SoundHolder
          <5>2. conn = "open" => Talk'
            BY <1>1, <3>1, <3>5, <4>1, <5>1, TalkIsCancelled
          <5> QED
            BY <1>1, <3>1, <4>1, <5>1, <5>2, StaysSound
        <4> QED
          BY <4>2
      <3> QED
        BY <1>1, <2>2, <3>2, <3>3, <3>4, <3>5
    <2> QED
      BY <2>1, <2>2
  <1>4. CASE how = "failed"
    BY <1>1, <1>3, <1>4, OneFails, FailureIsPaid
  <1>5. CASE how # "failed"
    BY <1>1, <1>3, <1>5, OneFails, NothingOwed
  <1> QED
    BY <1>4, <1>5

LEMMA DebtStrike ==
  ASSUME TypeOK, DebtInv, Cut \/ \E u \in Users : GiveUp(u)
  PROVE  DebtInv'
  BY StrikeIsCounted DEF Cut, GiveUp

LEMMA DebtDrain ==
  ASSUME TypeOK, LockInv, DebtInv, NEW u \in Users, Drain(u)
  PROVE  DebtInv'
  <1>1. /\ phase[u] = "cancelling" /\ inbox # <<>> /\ inbox' = Tail(inbox)
        /\ UNCHANGED <<held, asked, started, outcome, conn, sent, serving, late, faults>>
    BY DEF Drain
  <1>2. held = u /\ conn # "none"
    BY <1>1 DEF LockInv, Holding
  <1>3. PICK r \in Requests : r = asked[u]
    BY Types
  <1>4. PICK start \in Incoming, pcm \in Incoming, end \in Incoming, over \in Incoming :
          /\ start = Msg("audio_start", r) /\ start.kind = "audio_start" /\ start.req = r
          /\ pcm = Msg("pcm", r) /\ pcm.kind = "pcm" /\ pcm.req = r
          /\ end = Msg("audio_end", r) /\ end.kind = "audio_end" /\ end.req = r
          /\ over = Msg("cancelled", r) /\ over.kind = "cancelled" /\ over.req = r
    BY MessagesAre
  <1>5. ASSUME Talk
        PROVE  /\ OnlyCancels
               /\ \/ inbox = <<start>> /\ serving = r
                  \/ /\ serving = NoRequest
                     /\ inbox \in {<<start, pcm, end>>, <<pcm, end>>, <<end>>, <<start, over>>, <<over>>}
    BY <1>1, <1>2, <1>3, <1>4, <1>5 DEF Talk, Conversation, Queued, Worked, Answered
  <1>6. ASSUME Talk, outcome[u] # "failed"
        PROVE  \/ phase'[u] = "cancelling" /\ Talk'
               \/ phase'[u] = "releasing" /\ Quiet'
    <2>1. OnlyCancels'
      BY <1>1, <1>5, <1>6 DEF OnlyCancels
    <2>2. CASE inbox = <<start>> /\ serving = r
      <3>1. Head(inbox) = start /\ inbox' = <<>>
        BY <1>1, <2>2, ShortTails
      <3>2. phase' = phase
        BY <1>4, <3>1 DEF Drain
      <3> QED
        <4>1. held' = u /\ serving' = asked'[u] /\ phase'[u] = "cancelling"
          BY <1>1, <1>2, <1>3, <2>2, <3>2
        <4> QED
          BY <2>1, <3>1, <4>1 DEF Talk, Conversation, Worked
    <2>3. CASE serving = NoRequest /\ inbox \in {<<start, pcm, end>>, <<pcm, end>>, <<start, over>>}
      <3>1. Head(inbox) \in {start, pcm} /\ inbox' \in {<<pcm, end>>, <<end>>, <<over>>}
        <4>1. CASE inbox = <<start, pcm, end>>
          BY <1>1, <4>1, ShortTails
        <4>2. CASE inbox = <<pcm, end>>
          BY <1>1, <4>2, ShortTails
        <4>3. CASE inbox = <<start, over>>
          BY <1>1, <4>3, ShortTails
        <4> QED
          BY <2>3, <4>1, <4>2, <4>3
      <3>2. phase' = phase
        BY <1>4, <3>1 DEF Drain
      <3> QED
        <4>1. held' = u /\ serving' = NoRequest /\ asked'[u] = r /\ phase'[u] = "cancelling"
          BY <1>1, <1>2, <1>3, <2>3, <3>2
        <4> QED
          BY <1>4, <2>1, <3>1, <4>1 DEF Talk, Conversation, Answered
    <2>4. CASE serving = NoRequest /\ inbox \in {<<end>>, <<over>>}
      <3>1. Head(inbox) \in {end, over} /\ inbox' = <<>>
        BY <1>1, <2>4, ShortTails
      <3>2. phase'[u] = "releasing"
        BY <1>3, <1>4, <1>6, <3>1, GoesIs DEF Drain, After
      <3> QED
        BY <1>1, <2>1, <2>4, <3>1, <3>2 DEF Quiet
    <2> QED
      BY <1>5, <1>6, <2>2, <2>3, <2>4
  <1>7. Owed' => Owed
    <2>1. CASE outcome[u] = "failed"
      BY <1>1, <1>2, <2>1, DoomedPays
    <2>2. CASE outcome[u] # "failed"
      <3>1. ASSUME ~Owed PROVE ~Owed'
        <4>1. conn = "open" /\ Talk
          BY <1>1, <1>2, <2>2, <3>1, SoundHolder, Types
        <4> QED
          BY <1>1, <1>2, <1>6, <2>2, <4>1, StaysSound
      <3> QED
        BY <3>1
    <2> QED
      BY <2>1, <2>2
  <1> QED
    BY <1>1, <1>7, NobodyFails, NothingOwed

(* The server does not speak unless it is asked to.                         *)
LEMMA ServerWorks ==
  ASSUME UNCHANGED <<held, phase, outcome, conn, late, faults>>, TypeOK, DebtInv,
         ~Doomed /\ conn = "open" /\ InStep => InStep'
  PROVE  DebtInv'
  <1>1. Doomed' <=> Doomed
    BY DEF Doomed
  <1>2. Owed' => Owed
    BY <1>1 DEF Owed
  <1> QED
    BY <1>2, NobodyFails, NothingOwed

LEMMA DebtSynthesize ==
  ASSUME TypeOK, TypeOK', LockInv, DebtInv, Synthesize
  PROVE  DebtInv'
  <1>1. /\ serving # NoRequest /\ serving' = NoRequest
        /\ UNCHANGED <<held, phase, asked, started, outcome, conn, sent, late, faults>>
    BY DEF Synthesize
  <1>2. Place' = Place
    BY <1>1 DEF Place
  <1>3. ~Quiet /\ ~Opening
    BY <1>1 DEF Quiet, Opening
  <1>4. ASSUME Place = "talk", Talk PROVE Talk'
    <2>1. held \in Users
      BY <1>4, Types DEF Place
    <2>2. PICK r \in Requests : r = asked[held]
      BY <2>1, Types
    <2>3. PICK start \in Incoming, pcm \in Incoming, end \in Incoming :
            start = Msg("audio_start", r) /\ pcm = Msg("pcm", r) /\ end = Msg("audio_end", r)
      BY MessagesAre
    <2>4. Worked(held)
      BY <1>1, <1>4 DEF Talk, Conversation, Queued, Answered
    <2>5. /\ serving = r /\ OnlyCancels /\ inbox \in {<<>>, <<start>>}
          /\ phase[held] = "receiving" => (started[held] <=> inbox = <<>>)
      BY <2>2, <2>3, <2>4 DEF Worked
    <2>6. /\ DOMAIN inbox' = 1..(Len(inbox) + 2)
          /\ \A i \in 1..Len(inbox) : inbox'[i] = inbox[i]
          /\ inbox'[Len(inbox) + 1] = pcm /\ inbox'[Len(inbox) + 2] = end
      BY <2>3, <2>5, Synthesized
    <2>7. inbox' \in Seq(Incoming)
      BY TypesThen DEF TypeOKNext
    <2>8. OnlyCancels'
      BY <1>1, <2>5 DEF OnlyCancels
    <2>9. CASE inbox = <<>>
      <3>1. Len(inbox) = 0
        BY <2>9
      <3>2. Len(inbox') = 2 /\ inbox'[1] = pcm /\ inbox'[2] = end
        BY <2>6, <2>7, <3>1
      <3>3. inbox' = <<pcm, end>>
        BY <2>7, <3>2, TwoLong
      <3> QED
        BY <1>1, <2>2, <2>3, <2>5, <2>8, <2>9, <3>3 DEF Talk, Conversation, Answered
    <2>10. CASE inbox = <<start>>
      <3>1. Len(inbox) = 1 /\ inbox[1] = start /\ inbox # <<>>
        BY <2>10
      <3>2. Len(inbox') = 3 /\ inbox'[1] = start /\ inbox'[2] = pcm /\ inbox'[3] = end
        BY <2>6, <2>7, <3>1
      <3>3. inbox' = <<start, pcm, end>>
        BY <2>7, <3>2, ThreeLong
      <3> QED
        BY <1>1, <2>2, <2>3, <2>5, <2>8, <3>1, <3>3 DEF Talk, Conversation, Answered
    <2> QED
      BY <2>5, <2>9, <2>10
  <1>5. InStep => InStep'
    BY <1>2, <1>3, <1>4 DEF InStep
  <1> QED
    BY <1>1, <1>5, ServerWorks

(* A server that confirms only the cancel of a request it works on does not *)
(* bring a connection out of step.                                          *)
LEMMA DebtTake ==
  ASSUME ~LateCancelled, TypeOK, TypeOK', LockInv, KnownInv, DebtInv, Take
  PROVE  DebtInv'
  <1>1. /\ sent # <<>> /\ sent \in Seq(Outgoing) /\ inbox \in Seq(Incoming) /\ serving \in Requests
        /\ sent' = Tail(sent) /\ inbox' \in Seq(Incoming)
        /\ UNCHANGED <<held, phase, asked, started, outcome, conn, late, faults>>
    BY Types, TypesThen DEF Take, TypeOKNext
  <1>2. PICK m \in Outgoing : m = sent[1] /\ m = Head(sent)
    BY <1>1, TailIs
  <1>3. /\ m.req \in Requests /\ m.kind \in {"start", "synthesize", "cancel", "bye"} /\ m = Msg(m.kind, m.req)
        /\ 1 \in DOMAIN sent
    BY <1>1, MessageFields, TailIs
  <1>4. /\ Len(sent) \in Nat \ {0} /\ DOMAIN sent = 1..Len(sent) /\ DOMAIN sent' = 1..(Len(sent) - 1)
        /\ \A i \in 1..(Len(sent) - 1) : sent'[i] = sent[i + 1]
    BY <1>1, TailIs
  <1>5. OnlyCancels => m.kind = "cancel" /\ OnlyCancels'
    BY <1>2, <1>3, <1>4 DEF OnlyCancels
  <1>6. ASSUME m.kind = "cancel" PROVE m.req # NoRequest
    BY <1>2, <1>3, <1>6, UsersAre, RequestsAre DEF KnownInv, Asked
  <1>7. ASSUME m.kind = "cancel", serving # m.req PROVE serving' = serving /\ inbox' = inbox
    <2>1. serving' = serving /\ inbox' = inbox \o <<>>
      BY <1>2, <1>7 DEF Take, Answers
    <2> QED
      BY <1>1, <2>1, WithNothing
  <1>8. ASSUME Quiet PROVE Quiet'
    BY <1>5, <1>6, <1>7, <1>8 DEF Quiet
  <1>9. ASSUME Opening PROVE Opening'
    <2>1. serving = NoRequest /\ sent = <<Msg("start", NoRequest)>> /\ inbox = <<>>
      BY <1>1, <1>9 DEF Opening
    <2>2. PICK n \in Incoming : n = Msg("ready", NoRequest)
      BY MessagesAre, RequestsAre
    <2>3. m.kind = "start" /\ sent' = <<>>
      BY <1>1, <1>2, <2>1, ShortTails, MessagesAre, RequestsAre
    <2>4. serving' = serving /\ inbox' = inbox \o <<n>>
      BY <1>2, <2>2, <2>3 DEF Take, Answers
    <2>5. inbox' = <<n>>
      BY <2>1, <2>4
    <2> QED
      BY <2>1, <2>2, <2>3, <2>4, <2>5 DEF Opening
  <1>10. ASSUME Place = "talk", Talk PROVE Talk'
    <2>1. held \in Users
      BY <1>10, Types DEF Place
    <2>2. PICK u \in Users : u = held
      BY <2>1
    <2>3. PICK r \in Requests : r = asked[u] /\ asked'[u] = r /\ held' = u /\ r # NoRequest
      BY <1>1, <2>2, Types, LastIsAsked
    <2>4. PICK start \in Incoming, over \in Incoming : start = Msg("audio_start", r) /\ over = Msg("cancelled", r)
      BY MessagesAre
    <2>5. CASE Answered(u)
      <3>1. serving = NoRequest /\ OnlyCancels
        BY <2>5 DEF Answered
      <3>2. serving' = NoRequest /\ inbox' = inbox /\ OnlyCancels'
        BY <1>5, <1>6, <1>7, <3>1
      <3> QED
        BY <1>1, <2>3, <2>5, <3>2 DEF Talk, Conversation, Answered
    <2>6. CASE Worked(u)
      <3>1. /\ serving = r /\ m.kind = "cancel" /\ OnlyCancels' /\ inbox \in {<<>>, <<start>>}
            /\ phase[u] = "receiving" => /\ started[u] <=> inbox = <<>>
                                         /\ \A i \in DOMAIN sent : sent[i].req # r
        BY <1>5, <2>3, <2>4, <2>6 DEF Worked
      <3>2. CASE m.req = r
        <4>1. phase[u] # "receiving" /\ phase[u] = "cancelling"
          BY <1>2, <1>3, <1>10, <2>2, <3>1, <3>2 DEF Place, StepOf
        <4>2. serving' = NoRequest /\ inbox' = inbox \o <<over>>
          BY <1>2, <2>4, <3>1, <3>2 DEF Take, Answers
        <4>3. /\ Len(inbox) \in Nat /\ Len(inbox') = Len(inbox) + 1
              /\ \A i \in 1..Len(inbox) : inbox'[i] = inbox[i]
              /\ inbox'[Len(inbox) + 1] = over
          BY <1>1, <4>2, WithOne, AppendIs
        <4>4. CASE inbox = <<>>
          <5>1. Len(inbox) = 0
            BY <4>4
          <5>2. inbox' = <<over>>
            BY <1>1, <4>3, <5>1, OneLong
          <5> QED
            BY <1>1, <2>3, <2>4, <3>1, <4>1, <4>2, <5>2 DEF Talk, Conversation, Answered
        <4>5. CASE inbox = <<start>>
          <5>1. Len(inbox) = 1 /\ inbox[1] = start
            BY <4>5
          <5>2. Len(inbox') = 2 /\ inbox'[1] = start /\ inbox'[2] = over
            BY <4>3, <5>1
          <5>3. inbox' = <<start, over>>
            BY <1>1, <5>2, TwoLong
          <5> QED
            BY <1>1, <2>3, <2>4, <3>1, <4>1, <4>2, <5>3 DEF Talk, Conversation, Answered
        <4> QED
          BY <3>1, <4>4, <4>5
      <3>3. CASE m.req # r
        <4>1. serving' = r /\ inbox' = inbox
          BY <1>7, <3>1, <3>3
        <4>2. (\A i \in DOMAIN sent : sent[i].req # r) => (\A i \in DOMAIN sent' : sent'[i].req # r)
          BY <1>4
        <4> QED
          BY <1>1, <2>3, <2>4, <3>1, <4>1, <4>2 DEF Talk, Conversation, Worked
      <3> QED
        BY <3>2, <3>3
    <2>7. CASE Queued(u)
      <3>1. inbox = <<>> /\ serving = NoRequest /\ (phase[u] = "receiving" => ~started[u])
        BY <2>7 DEF Queued
      <3>2. PICK k \in DOMAIN sent :
              /\ sent[k] = Msg("synthesize", r)
              /\ \A i \in DOMAIN sent \ {k} : sent[i].kind = "cancel"
              /\ \A i \in DOMAIN sent : i < k => sent[i].req # r
              /\ phase[u] = "receiving" => k = Len(sent)
        BY <2>3, <2>7 DEF Queued
      <3>3. CASE k = 1
        <4>1. m.kind = "synthesize" /\ m.req = r
          BY <1>2, <3>2, <3>3, MessagesAre
        <4>2. serving' = r /\ inbox' = inbox \o <<start>>
          BY <1>2, <2>4, <4>1 DEF Take, Answers
        <4>3. inbox' = <<start>> /\ inbox' # <<>>
          BY <3>1, <4>2
        <4>4. OnlyCancels'
          BY <1>4, <3>2, <3>3 DEF OnlyCancels
        <4>5. ASSUME phase[u] = "receiving" PROVE DOMAIN sent' = {}
          <5>1. Len(sent) = 1
            BY <3>2, <3>3, <4>5
          <5> QED
            BY <1>4, <5>1
        <4> QED
          <5>1. \A i \in DOMAIN sent' : phase[u] = "receiving" => sent'[i].req # r
            BY <4>5
          <5>2. held' = u /\ asked'[u] = r /\ started'[u] = started[u] /\ phase'[u] = phase[u]
            BY <1>1, <2>3
          <5> QED
            BY <2>4, <3>1, <4>2, <4>3, <4>4, <5>1, <5>2 DEF Talk, Conversation, Worked
      <3>4. CASE k # 1
        <4>1. m.kind = "cancel" /\ m.req # NoRequest
          BY <1>2, <1>3, <1>4, <1>6, <3>2, <3>4
        <4>2. serving' = NoRequest /\ inbox' = <<>>
          BY <1>7, <3>1, <4>1
        <4>3. /\ k - 1 \in DOMAIN sent' /\ sent'[k - 1] = Msg("synthesize", r)
              /\ \A i \in DOMAIN sent' \ {k - 1} : sent'[i].kind = "cancel"
              /\ \A i \in DOMAIN sent' : i < k - 1 => sent'[i].req # r
              /\ phase[u] = "receiving" => k - 1 = Len(sent')
          <5>1. k \in 2..Len(sent) /\ sent'[k - 1] = sent[k]
            BY <1>4, <3>2, <3>4
          <5>2. Len(sent') = Len(sent) - 1
            BY <1>1, TailIs
          <5>3. \A i \in DOMAIN sent' : i + 1 \in DOMAIN sent /\ sent'[i] = sent[i + 1] /\ i \in Nat
            BY <1>4
          <5> QED
            BY <1>4, <3>2, <5>1, <5>2, <5>3
        <4>4. PICK j \in DOMAIN sent' :
                /\ sent'[j] = Msg("synthesize", r)
                /\ \A i \in DOMAIN sent' \ {j} : sent'[i].kind = "cancel"
                /\ \A i \in DOMAIN sent' : i < j => sent'[i].req # r
                /\ phase[u] = "receiving" => j = Len(sent')
          BY <4>3
        <4> QED
          BY <1>1, <2>3, <3>1, <4>2, <4>4 DEF Talk, Conversation, Queued
      <3> QED
        BY <3>3, <3>4
    <2> QED
      BY <1>10, <2>2, <2>5, <2>6, <2>7 DEF Talk, Conversation
  <1>11. Place' = Place
    BY <1>1 DEF Place
  <1>12. InStep => InStep'
    BY <1>8, <1>9, <1>10, <1>11 DEF InStep
  <1> QED
    BY <1>1, <1>12, ServerWorks DEF Take

LEMMA DebtInit == Init => DebtInv
  <1>1. SUFFICES ASSUME Init PROVE DebtInv
    OBVIOUS
  <1>2. Failed = {}
    BY <1>1, UsersAre DEF Init, Failed
  <1>3. Cardinality({}) = 0
    BY FS_EmptySet
  <1>4. ~Owed /\ late = 0 /\ faults = 0
    BY <1>1 DEF Init, Owed
  <1> QED
    BY <1>2, <1>3, <1>4 DEF DebtInv

LEMMA DebtStep ==
  ASSUME ~LateCancelled, TypeOK, TypeOK', LockInv, KnownInv, DebtInv, [Next]_vars
  PROVE  DebtInv'
  <1>1. CASE UNCHANGED vars
    <2>1. Owed' => Owed
      BY <1>1, OthersMove DEF vars, net
    <2> QED
      BY <1>1, <2>1, NobodyFails, NothingOwed DEF vars
  <1>2. ASSUME NEW u \in Users, Finish(u) PROVE DebtInv'
    BY <1>2, DebtFinish DEF Finish, net
  <1>3. ASSUME NEW u \in Users, Interrupt(u) \/ TimeOut(u) PROVE DebtInv'
    <2>1. CASE Interrupt(u)
      BY <2>1, DebtCancelled DEF Interrupt
    <2>2. CASE TimeOut(u)
      BY <2>2, DebtCancelled DEF TimeOut
    <2> QED
      BY <1>3, <2>1, <2>2
  <1>4. ASSUME NEW u \in Users, Speak(u) PROVE DebtInv'
    <2>1. u \in Streams
      BY <1>4 DEF Speak
    <2> QED
      BY <1>4, <2>1, DebtSpeak
  <1>5. ASSUME NEW u \in Users, Turn(u) PROVE DebtInv'
    BY <1>2, <1>3, <1>5, DebtAcquire, DebtOpened, DebtDrop, DebtRelease, DebtReceive,
       DebtDisconnected,
       DebtDrain, DebtStrike DEF Turn
  <1>6. CASE Next
    BY <1>3, <1>4, <1>5, <1>6, DebtBegin, DebtClose, DebtTake, DebtSynthesize, DebtStrike DEF Next
  <1> QED
    BY <1>1, <1>6

(* A timeout or a broken connection costs one reply at most, with a server  *)
(* that confirms only the cancel of a request it still works on.  With one  *)
(* that confirms every cancel it is not so: an answer nobody waits for is   *)
(* handed on to the next reply, and no timeout has struck.                  *)
THEOREM FaultsCostOneReply ==
  ASSUME ~LateCancelled
  PROVE  Spec => []OneReplyPerFault
  <1>1. Init => DebtInv
    BY DebtInit
  <1>2. SpeechInv /\ SpeechInv' /\ DebtInv /\ [Next]_vars => DebtInv'
    BY DebtStep DEF SpeechInv
  <1>3. SpeechInv /\ DebtInv => OneReplyPerFault
    <2>1. SUFFICES ASSUME SpeechInv, DebtInv PROVE OneReplyPerFault
      OBVIOUS
    <2>2. late \in Nat /\ faults \in Nat /\ Cardinality(Failed) \in Nat
      BY <2>1, Types, FailedIsFinite, SpeechAssumption DEF SpeechInv
    <2>3. Cardinality(Failed) <= late + faults
      BY <2>1, <2>2 DEF DebtInv
    <2> QED
      BY <2>3 DEF OneReplyPerFault, Failed
  <1> QED
    BY <1>1, <1>2, <1>3, SpeechInvariant, PTL DEF Spec

-----------------------------------------------------------------------------
(* VoiceCall: the call the voice is for *)

Statuses == {"created", "connecting", "connected", "reconnecting", "failed", "ended"}
Ending == {"disconnected", "failed"}
Published == Active \cup Ending
SomeCall == Calls \cup {0}
AgentPhases == {"none", "dispatched", "starting", "warming", "telling", "serving", "failing", "leaving", "gone"}

RowType == [status : Statuses \cup {"none"}, gone : BOOLEAN]
UpdateType == [at : {"idle", "delete", "read", "write"}, want : Statuses, gone : BOOLEAN,
               seen : Statuses]
PageType == [state : Active \cup {"idle"}, call : SomeCall, creating : BOOLEAN,
             closing : {"no", "native", "end", "wait"}, ends : SomeCall, listening : BOOLEAN]
ServiceType == [alive : BOOLEAN, doomed : BOOLEAN, stopping : BOOLEAN, reported : BOOLEAN,
                call : SomeCall, at : {"off", "joining", "waiting", "live"}, ready : BOOLEAN]
EventType == [status : Published, call : SomeCall]
ReportType == [status : Published \cup {"ended"}, call : Calls]

TableTypes ==
    /\ row \in [Calls -> RowType]
    /\ req \in [Calls -> [Writers -> UpdateType]]
    /\ joined \subseteq Calls
    /\ agent \in [Calls -> AgentPhases]
    /\ excused \subseteq Calls
    /\ mishaps \in Nat
PhoneTypes ==
    /\ page \in PageType
    /\ pending \in SomeCall
    /\ intents \in Seq(Calls)
    /\ svc \in ServiceType
    /\ stray \in BOOLEAN
    /\ current \in [status : Active \cup Terminal, call : SomeCall]
    /\ events \in Seq(EventType)
    /\ reports \in Seq(ReportType)
CallTypeInv == TableTypes /\ PhoneTypes

(* A call is known to nobody before it has a row, and an event that says   *)
(* a call is up says which.                                                 *)
Begun(c) == row[c].status # "none"
TableKnown ==
    /\ \A c \in Calls : agent[c] # "none" => Begun(c)
    /\ \A c \in Calls, w \in Writers : req[c][w].at # "idle" => Begun(c)
Mentions(p, s, cur, ints, evs, reps) ==
    /\ \A c \in Calls : c \in {p.call, p.ends, s.call, cur.call} => Begun(c)
    /\ \A c \in Range(ints) : Begun(c)
    /\ \A e \in Range(evs) : /\ e.call # 0 => Begun(e.call)
                             /\ e.status \in Active => e.call # 0
    /\ \A r \in Range(reps) : Begun(r.call)
PhoneKnown == Mentions(page, svc, current, intents, events, reports)
PageKnown ==
    /\ page.creating => \E c \in Calls : ~Begun(c)
    /\ page.state # "idle" /\ ~page.creating => page.call # 0
Known == TableKnown /\ PhoneKnown /\ PageKnown

(* The phone is in no room but that of its service; a service that is in    *)
(* none has reported the end of its call, is about to be destroyed, and     *)
(* takes no other call before that.                                         *)
ServiceInv ==
    /\ joined \subseteq {svc.call}
    /\ ~svc.alive => svc = NoService
    /\ svc.alive => svc.call # 0
    /\ svc.at = "off" => joined = {}
    /\ svc.at # "off" => ~svc.doomed /\ ~svc.stopping /\ ~svc.reported
    /\ svc.alive /\ svc.at = "off" => svc.doomed /\ svc.stopping /\ svc.reported
    /\ stray => svc.alive

(* What is left to do for a call, one after the other: it is about to start *)
(* (and nothing may come in between), the service has not reported its end, *)
(* the page is closing it, its end is reported, its row is being updated.   *)
StartPending(c) ==
    /\ intents # <<>> /\ Head(intents) = c
    /\ page.call = c /\ page.closing = "no"
    /\ svc.at = "off" /\ events = <<>> /\ ~stray

Updating(c) == \E w \in {"app", "page"} : req[c][w].at # "idle" /\ req[c][w].want = "ended"
Reporting(c) == \E r \in Range(reports) : r.call = c /\ r.status \in Ending \cup {"ended"}
Unreported(c) == svc.call = c /\ svc.alive /\ ~svc.reported
Hanging(c) == page.ends = c /\ page.closing \in {"native", "end"}
Debt(c) ==
    \/ row[c].status = "ended" \/ Updating(c)
    \/ Reporting(c) \/ Unreported(c) \/ Hanging(c) \/ StartPending(c)

(* Until its row is ended, a call no fault has hit always has one of these. *)
CallDebtInv == \A c \in Calls \ excused : Begun(c) => Debt(c)
-----------------------------------------------------------------------------
LEMMA InitTypes == ASSUME CallInit PROVE CallTypeInv
  <1>1. TableTypes
    BY DEF CallInit, TableTypes, RowType, UpdateType, NoUpdate, Statuses, AgentPhases
  <1>2. page \in PageType /\ svc \in ServiceType
    BY DEF CallInit, PageType, ServiceType, FreshPage, NoService, SomeCall
  <1>3. current \in [status : Active \cup Terminal, call : SomeCall]
    BY DEF CallInit, Idle, Terminal, SomeCall
  <1>4. pending \in SomeCall /\ stray \in BOOLEAN
    BY DEF CallInit, SomeCall
  <1>5. intents \in Seq(Calls) /\ events \in Seq(EventType) /\ reports \in Seq(ReportType)
    BY DEF CallInit
  <1>. QED
    BY <1>1, <1>2, <1>3, <1>4, <1>5 DEF CallTypeInv, PhoneTypes

(* What a published state does to the service, the events and the reports. *)
LEMMA PublishTypes ==
    ASSUME NEW s \in ServiceType, NEW status \in Published, NEW c \in SomeCall,
           PhoneTypes, Publish(s, status, c)
    PROVE  /\ svc' \in ServiceType
           /\ current' = [status |-> status, call |-> c]
           /\ current' \in [status : Active \cup Terminal, call : SomeCall]
           /\ events' = Append(events, current') /\ events' \in Seq(EventType)
           /\ reports' \in Seq(ReportType)
  <1>1. current' = [status |-> status, call |-> c] /\ current' \in EventType
    BY DEF Publish, EventType
  <1>2. current' \in [status : Active \cup Terminal, call : SomeCall]
    BY <1>1 DEF Published, Ending, Terminal
  <1>3. events' = Append(events, current') /\ events' \in Seq(EventType)
    BY <1>1 DEF Publish, PhoneTypes
  <1>4. c # 0 => current' \in ReportType
    BY <1>1 DEF ReportType, SomeCall
  <1>5. reports' \in Seq(ReportType)
    BY <1>4 DEF Publish, PhoneTypes
  <1>6. svc' \in ServiceType
    BY DEF Publish, ServiceType
  <1>. QED
    BY <1>1, <1>2, <1>3, <1>5, <1>6

LEMMA StopTypes ==
    ASSUME PhoneTypes, NEW status \in Ending, Stop(status)
    PROVE  /\ svc' \in ServiceType
           /\ current' \in [status : Active \cup Terminal, call : SomeCall]
           /\ events' \in Seq(EventType)
           /\ reports' \in Seq(ReportType)
  <1>. DEFINE s == [Torn(svc) EXCEPT !.stopping = TRUE, !.doomed = TRUE]
  <1>1. s \in ServiceType /\ svc.call \in SomeCall /\ status \in Published
    BY DEF PhoneTypes, ServiceType, Torn, Published
  <1>2. Publish(s, status, svc.call)
    BY DEF Stop
  <1>. HIDE DEF s
  <1>. QED
    BY <1>1, <1>2, PublishTypes

(* Faults are only counted. *)
LEMMA FaultTypes ==
    ASSUME TableTypes, NEW c \in Calls, Fault(c)
    PROVE  excused' \subseteq Calls /\ mishaps' \in Nat
  BY DEF Fault, TableTypes

LEMMA UpdateTypes ==
    ASSUME TableTypes, NEW c \in Calls, NEW w \in Writers, NEW want \in Statuses
    PROVE  /\ Update(c, w, want) \in [Calls -> [Writers -> UpdateType]]
           /\ End(c, w) \in [Calls -> [Writers -> UpdateType]]
  <1>1. \A at \in {"read", "delete"}, s \in Statuses :
           [NoUpdate EXCEPT !.at = at, !.want = s] \in UpdateType
    BY DEF NoUpdate, UpdateType, Statuses
  <1>2. "ended" \in Statuses
    BY DEF Statuses
  <1>. QED
    BY <1>1, <1>2 DEF Update, End, TableTypes

LEMMA RowTypes ==
    ASSUME TableTypes, Known, NEW c \in Calls, NEW w \in Writers,
           Serve(c, w) \/ LoseRequest(c, w)
    PROVE  TableTypes'
  <1>1. req[c][w] \in UpdateType /\ row[c] \in RowType
    BY DEF TableTypes
  <1>2. CASE DeleteRoom(c, w)
    <2>1. [req[c][w] EXCEPT !.at = "read", !.gone = row[c].gone \/ Exists(c)] \in UpdateType
      BY <1>1 DEF UpdateType, RowType, Exists
    <2>. DEFINE u == [req[c][w] EXCEPT !.at = "read", !.gone = row[c].gone \/ Exists(c)]
    <2>2. req' = [req EXCEPT ![c][w] = u]
      BY <1>2 DEF DeleteRoom, TableTypes
    <2>. HIDE DEF u
    <2>3. req' \in [Calls -> [Writers -> UpdateType]]
      BY <2>1, <2>2 DEF TableTypes, u
    <2>. QED
      BY <1>2, <2>3 DEF DeleteRoom, TableTypes
  <1>3. CASE ReadRow(c, w)
    <2>. DEFINE u == [req[c][w] EXCEPT !.at = "write", !.seen = row[c].status,
                                       !.gone = @ \/ row[c].gone]
    <2>1. row[c].status \in Statuses
      BY <1>1, <1>3 DEF ReadRow, Known, TableKnown, Begun, RowType
    <2>2. u \in UpdateType
      BY <1>1, <2>1 DEF UpdateType, RowType
    <2>3. req' = [req EXCEPT ![c][w] = u]
      BY <1>3 DEF ReadRow, TableTypes
    <2>. HIDE DEF u
    <2>4. req' \in [Calls -> [Writers -> UpdateType]]
      BY <2>2, <2>3 DEF TableTypes
    <2>. QED
      BY <1>3, <2>4 DEF ReadRow, TableTypes, phone
  <1>4. CASE WriteRow(c, w)
    <2>1. Moved(req[c][w].seen, req[c][w].want) \in Statuses
      BY <1>1 DEF Moved, UpdateType
    <2>2. [status |-> Moved(req[c][w].seen, req[c][w].want), gone |-> req[c][w].gone] \in RowType
      BY <1>1, <2>1 DEF RowType, UpdateType
    <2>3. NoUpdate \in UpdateType
      BY DEF NoUpdate, UpdateType, Statuses
    <2>. QED
      BY <1>4, <2>2, <2>3 DEF WriteRow, TableTypes
  <1>5. CASE LoseRequest(c, w)
    <2>1. NoUpdate \in UpdateType
      BY DEF NoUpdate, UpdateType, Statuses
    <2>. QED
      BY <1>5, <2>1, FaultTypes DEF LoseRequest, TableTypes
  <1>. QED
    BY <1>2, <1>3, <1>4, <1>5 DEF Serve

LEMMA AgentTypes ==
    ASSUME TableTypes, NEW c \in Calls,
           Agent(c) \/ AgentFails(c) \/ AgentDies(c)
    PROVE  TableTypes'
  <1>. USE DEF AgentDoes, AgentPhases
  <1>w. {"agent", "exit", "app", "page"} = Writers
    BY DEF Writers
  <1>1. CASE AgentStarts(c)
    <2>1. req' \in [Calls -> [Writers -> UpdateType]]
      BY <1>1, <1>w, UpdateTypes DEF AgentStarts, Statuses
    <2>. QED
      BY <1>1, <2>1 DEF AgentStarts, TableTypes
  <1>2. CASE AgentJoins(c)
    BY <1>2 DEF AgentJoins, TableTypes, server
  <1>3. CASE AgentReady(c)
    <2>1. req' \in [Calls -> [Writers -> UpdateType]]
      BY <1>3, <1>w, UpdateTypes DEF AgentReady, Statuses
    <2>. QED
      BY <1>3, <2>1 DEF AgentReady, TableTypes
  <1>4. CASE AgentServes(c)
    BY <1>4 DEF AgentServes, TableTypes, server
  <1>5. CASE AgentLeaves(c)
    <2>1. req' \in [Calls -> [Writers -> UpdateType]]
      BY <1>5, <1>w, UpdateTypes DEF AgentLeaves, Statuses
    <2>. QED
      BY <1>5, <2>1 DEF AgentLeaves, TableTypes
  <1>6. CASE AgentGone(c)
    BY <1>6 DEF AgentGone, TableTypes, server
  <1>7. CASE AgentFails(c)
    <2>1. req' \in [Calls -> [Writers -> UpdateType]]
      BY <1>7, <1>w, UpdateTypes DEF AgentFails, Statuses
    <2>. QED
      BY <1>7, <2>1, FaultTypes DEF AgentFails, TableTypes
  <1>8. CASE AgentDies(c)
    <2>1. NoUpdate \in UpdateType
      BY DEF NoUpdate, UpdateType, Statuses
    <2>2. req' \in [Calls -> [Writers -> UpdateType]]
      BY <1>8, <2>1, <1>w DEF AgentDies, TableTypes
    <2>. QED
      BY <1>8, <2>2, FaultTypes DEF AgentDies, TableTypes
  <1>. QED
    BY <1>1, <1>2, <1>3, <1>4, <1>5, <1>6, <1>7, <1>8 DEF Agent

(* Rows and agents leave the phone alone, but for the answer of the agent. *)
LEMMA RoomTypes ==
    ASSUME PhoneTypes, NEW c \in Calls,
           \/ Agent(c) \/ AgentFails(c) \/ AgentDies(c)
           \/ \E w \in Writers : Serve(c, w) \/ LoseRequest(c, w)
    PROVE  PhoneTypes'
  <1>1. CASE AgentReady(c)
    <2>1. svc' \in ServiceType
      BY <1>1 DEF AgentReady, PhoneTypes, ServiceType
    <2>. QED
      BY <1>1, <2>1 DEF AgentReady, PhoneTypes
  <1>2. CASE ~AgentReady(c)
    <2>1. UNCHANGED <<page, phone>>
      BY <1>2
         DEF Agent, AgentStarts, AgentJoins, AgentServes, AgentLeaves,
             AgentGone, AgentFails,
                  AgentDies, Serve, DeleteRoom, ReadRow, WriteRow,
                  LoseRequest
    <2>. QED
      BY <2>1 DEF phone, PhoneTypes
  <1>. QED
    BY <1>1, <1>2

LEMMA ServiceTypes ==
    ASSUME CallTypeInv, ServiceInv,
           Service \/ LoseRoom \/ Reconnecting \/ HangUp \/ Report
    PROVE  CallTypeInv'
  <1>. USE DEF CallTypeInv
  <1>0. svc.at # "off" => svc.call \in Calls
    BY DEF PhoneTypes, ServiceInv, ServiceType, SomeCall, NoService
  <1>s. \A st \in Ending : Stop(st) => joined' \subseteq Calls
    BY DEF Stop, TableTypes
  <1>1. CASE StartCall
    <2>. DEFINE c == Head(intents)
                s == [NoService EXCEPT !.alive = TRUE, !.call = c, !.at = "joining"]
    <2>1. c \in Calls /\ intents' \in Seq(Calls)
      BY <1>1 DEF StartCall, PhoneTypes
    <2>2. s \in ServiceType
      BY <2>1 DEF ServiceType, NoService, SomeCall
    <2>3. Publish(s, "connecting", c) /\ "connecting" \in Published /\ c \in SomeCall
      BY <1>1, <2>1 DEF StartCall, Published, Active, SomeCall
    <2>. HIDE DEF s, c
    <2>4. /\ svc' \in ServiceType /\ current' \in [status : Active \cup Terminal, call : SomeCall]
          /\ events' \in Seq(EventType) /\ reports' \in Seq(ReportType)
      BY <2>2, <2>3, PublishTypes
    <2>5. TableTypes'
      BY <1>0, <1>1 DEF StartCall, TableTypes, server
    <2>6. stray' \in BOOLEAN
      BY <1>1 DEF StartCall, PhoneTypes, Waits
    <2>. QED
      BY <1>1, <2>1, <2>4, <2>5, <2>6 DEF StartCall, PhoneTypes
  <1>2. CASE Join
    <2>1. svc' \in ServiceType
      BY <1>2 DEF Join, PhoneTypes, ServiceType
    <2>2. agent' \in [Calls -> AgentPhases] /\ joined' \subseteq Calls
      BY <1>0, <1>2 DEF Join, TableTypes, AgentPhases
    <2>. QED
      BY <1>2, <2>1, <2>2 DEF Join, TableTypes, PhoneTypes, server
  <1>3. CASE GoLive
    <2>. DEFINE s == [svc EXCEPT !.at = "live"]
    <2>1. s \in ServiceType /\ svc.call \in SomeCall /\ "connected" \in Published
      BY DEF PhoneTypes, ServiceType, Published, Active
    <2>2. Publish(s, "connected", svc.call)
      BY <1>3 DEF GoLive
    <2>. HIDE DEF s
    <2>3. /\ svc' \in ServiceType /\ current' \in [status : Active \cup Terminal, call : SomeCall]
          /\ events' \in Seq(EventType) /\ reports' \in Seq(ReportType)
      BY <2>1, <2>2, PublishTypes
    <2>. QED
      BY <1>3, <2>3 DEF GoLive, TableTypes, PhoneTypes, server
  <1>4. CASE GiveUpCall
    BY <1>4, <1>s, StopTypes DEF GiveUpCall, TableTypes, PhoneTypes, server, Ending
  <1>5. CASE LoseRoom
    BY <1>0, <1>5, <1>s, StopTypes, FaultTypes
       DEF LoseRoom, TableTypes, PhoneTypes, server, Ending
  <1>6. CASE Reconnecting
    <2>1. svc \in ServiceType /\ svc.call \in SomeCall /\ "reconnecting" \in Published
      BY DEF PhoneTypes, ServiceType, Published, Active
    <2>2. /\ svc' \in ServiceType /\ current' \in [status : Active \cup Terminal, call : SomeCall]
          /\ events' \in Seq(EventType) /\ reports' \in Seq(ReportType)
      BY <1>6, <2>1, PublishTypes DEF Reconnecting
    <2>. QED
      BY <1>0, <1>6, <2>2, FaultTypes DEF Reconnecting, TableTypes, PhoneTypes, server
  <1>7. CASE StrayFails
    <2>1. svc.call \in Calls
      BY <1>7 DEF StrayFails, ServiceInv, PhoneTypes, ServiceType, SomeCall
    <2>. QED
      BY <1>7, <1>s, <2>1, StopTypes
         DEF StrayFails, TableTypes, PhoneTypes, server, Ending
  <1>8. CASE HangUp
    BY <1>8, <1>s, StopTypes
       DEF HangUp, TableTypes, PhoneTypes, server, Ending, Waits
  <1>9. CASE Destroy
    BY <1>9
       DEF Destroy, TableTypes, PhoneTypes, server, NoService, ServiceType, SomeCall
  <1>10. CASE Report
    <2>. DEFINE r == Head(reports)
                e == [status |-> "ended", call |-> r.call]
    <2>1. r \in ReportType /\ Tail(reports) \in Seq(ReportType)
      BY <1>10 DEF Report, PhoneTypes
    <2>2. e \in ReportType
      BY <2>1 DEF ReportType
    <2>3. reports' \in Seq(ReportType)
      BY <1>10, <2>1, <2>2 DEF Report
    <2>4. r.call \in Calls /\ "app" \in Writers /\ "ended" \in Statuses
      BY <2>1 DEF ReportType, Writers, Statuses
    <2>5. r.status \notin {"ended", "disconnected"} => r.status \in Statuses
      BY <2>1 DEF ReportType, Published, Ending, Active, Statuses
    <2>6. req' \in [Calls -> [Writers -> UpdateType]]
      BY <1>10, <2>4, <2>5, UpdateTypes DEF Report
    <2>. QED
      BY <1>10, <2>3, <2>6 DEF Report, TableTypes, PhoneTypes
  <1>. QED
    BY <1>1, <1>2, <1>3, <1>4, <1>5, <1>6, <1>7, <1>8, <1>9, <1>10 DEF Service

(* Calls are created in their order: there is a first that is not yet.     *)
LEMMA UpcomingIsNew ==
    ASSUME \E c \in Calls : ~Begun(c)
    PROVE  Upcoming \in Calls /\ ~Begun(Upcoming)
  <1>. DEFINE New == {c \in Calls : ~Begun(c)}
              Less == {p \in Nat \X Nat : p[1] < p[2]}
  <1>1. New \subseteq Nat /\ New # {}
    BY VoiceAssumption DEF VoiceAssumption
  <1>2. IsWellFoundedOn(Less, Nat)
    BY NatLessThanWellFounded DEF OpToRel
  <1>3. \E x \in New : \A y \in New : ~ (<<y, x>> \in Less)
    <2>. HIDE DEF New, Less
    <2>. QED
      BY <1>1, <1>2, WFMin
  <1>4. PICK k \in New : \A y \in New : ~ (y < k)
    BY <1>1, <1>3
  <1>5. k \in Calls /\ row[k].status = "none" /\ \A j \in Calls : j < k => row[j].status # "none"
    BY <1>4 DEF Begun
  <1>. QED
    BY <1>5 DEF Upcoming, Begun

LEMMA ClosingTypes ==
    ASSUME NEW p \in PageType, NEW how \in {"native", "end"}
    PROVE  Closing(p, how) \in PageType
  BY DEF Closing, PageType

LEMMA ReactsTypes ==
    ASSUME NEW p \in PageType, NEW e \in EventType
    PROVE  Reacts(p, e) \in PageType
  <1>. DEFINE q == IF e.call # 0 THEN [p EXCEPT !.call = e.call] ELSE p
  <1>1. q \in PageType
    BY DEF EventType, PageType, SomeCall
  <1>2. e.status \in Active => [q EXCEPT !.state = e.status] \in PageType
    BY <1>1 DEF PageType
  <1>3. Closing(q, "end") \in PageType
    BY <1>1, ClosingTypes
  <1>4. Reacts(p, e) \in {[q EXCEPT !.state = e.status], Closing(q, "end"), q}
        /\ (Reacts(p, e) = [q EXCEPT !.state = e.status] => e.status \in Active \/ Reacts(p, e) \in PageType)
    <2>. HIDE DEF q
    <2>1. CASE e.status \in Active
      BY <2>1 DEF Reacts, q
    <2>2. CASE e.status \notin Active /\ (e.status = "failed" \/ (e.status = "disconnected" /\ p.state # "idle"))
      BY <1>3, <2>2 DEF Reacts, q
    <2>3. CASE e.status \notin Active /\ ~(e.status = "failed" \/ (e.status = "disconnected" /\ p.state # "idle"))
      BY <1>1, <2>3 DEF Reacts, q
    <2>. QED
      BY <2>1, <2>2, <2>3
  <1>. QED
    BY <1>1, <1>2, <1>3, <1>4

LEMMA PageTypes ==
    ASSUME CallTypeInv, Known, ServiceInv,
           Click \/ CloseCall \/ Page \/ Kill
    PROVE  CallTypeInv'
  <1>. USE DEF CallTypeInv
  <1>1. FreshPage \in PageType /\ Closed(page) \in PageType
    BY DEF FreshPage, Closed, PhoneTypes, PageType, SomeCall
  <1>2. CASE Click
    <2>1. page' \in PageType
      BY <1>2 DEF Click, PhoneTypes, PageType, Active
    <2>. QED
      BY <1>2, <2>1 DEF Click, TableTypes, PhoneTypes, server, phone
  <1>3. CASE CloseCall
    <2>1. page' \in PageType
      BY <1>3, ClosingTypes DEF CloseCall, PhoneTypes
    <2>2. page.creating => Upcoming \in Calls
      BY UpcomingIsNew DEF Known, PageKnown
    <2>3. page.state = "connecting" /\ ~page.creating => page.call \in Calls
      BY DEF PhoneTypes, PageType, SomeCall, Known, PageKnown
    <2>4. excused' \subseteq Calls /\ mishaps' \in Nat
      BY <1>3, <2>2, <2>3, FaultTypes DEF CloseCall, Fault, TableTypes
    <2>. QED
      BY <1>3, <2>1, <2>4 DEF CloseCall, TableTypes, PhoneTypes, server, phone
  <1>4. CASE SessionCreated
    <2>1. Upcoming \in Calls
      BY <1>4, UpcomingIsNew DEF SessionCreated, Known, PageKnown
    <2>2. page' \in PageType
      BY <1>4, <2>1 DEF SessionCreated, PhoneTypes, PageType, SomeCall
    <2>3. pending' \in SomeCall /\ intents' \in Seq(Calls)
      BY <1>4, <2>1 DEF SessionCreated, ConnectCall, PhoneTypes, SomeCall
    <2>4. Range(intents) \subseteq Calls
      BY DEF PhoneTypes, Range
    <2>5. row' \in [Calls -> RowType] /\ excused' \subseteq Calls
      BY <1>4, <2>1, <2>4 DEF SessionCreated, TableTypes, RowType, Statuses
    <2>. QED
      BY <1>4, <2>2, <2>3, <2>5 DEF SessionCreated, TableTypes, PhoneTypes
  <1>5. CASE CloseNative
    <2>1. page' \in PageType /\ pending' \in SomeCall
      BY <1>5 DEF CloseNative, PhoneTypes, PageType, SomeCall
    <2>2. CASE svc.alive
      <3>1. CASE svc.stopping
        BY <1>5, <2>1, <2>2, <3>1 DEF CloseNative, TableTypes, PhoneTypes, server
      <3>2. CASE ~svc.stopping
        <4>1. Stop("disconnected") /\ UNCHANGED intents /\ stray' \in BOOLEAN
          BY <1>5, <2>2, <3>2 DEF CloseNative, PhoneTypes, Waits
        <4>2. joined' \subseteq Calls
          BY <4>1 DEF Stop, TableTypes
        <4>. QED
          BY <1>5, <2>1, <4>1, <4>2, StopTypes
             DEF CloseNative, TableTypes, PhoneTypes, server, Ending
      <3>. QED
        BY <3>1, <3>2
    <2>3. CASE ~svc.alive
      <3>1. svc \in ServiceType /\ current.call \in SomeCall /\ "disconnected" \in Published
        BY DEF PhoneTypes, Published, Ending
      <3>2. Publish(svc, "disconnected", current.call) /\ intents' = <<>> /\ UNCHANGED <<joined, stray>>
        BY <1>5, <2>3 DEF CloseNative
      <3>. QED
        BY <1>5, <2>1, <3>1, <3>2, PublishTypes
           DEF CloseNative, TableTypes, PhoneTypes, server
    <2>. QED
      BY <2>2, <2>3
  <1>6. CASE CloseSession
    <2>1. CASE page.ends = 0
      BY <1>1, <1>6, <2>1 DEF CloseSession, TableTypes, PhoneTypes, phone
    <2>2. CASE page.ends # 0
      <3>1. page.ends \in Calls
        BY <2>2 DEF PhoneTypes, PageType, SomeCall
      <3>2. req' \in [Calls -> [Writers -> UpdateType]]
        BY <1>6, <2>2, <3>1, UpdateTypes DEF CloseSession, Writers, Statuses
      <3>3. page' \in PageType
        BY <1>6, <2>2 DEF CloseSession, PhoneTypes, PageType
      <3>. QED
        BY <1>6, <3>2, <3>3 DEF CloseSession, TableTypes, PhoneTypes, phone
    <2>. QED
      BY <2>1, <2>2
  <1>7. CASE CloseDone
    BY <1>1, <1>7 DEF CloseDone, TableTypes, PhoneTypes, server, phone
  <1>8. CASE Deliver
    <2>. DEFINE e == Head(events)
                told == IF page.listening THEN Reacts(page, e) ELSE page
    <2>1. e \in EventType /\ events' \in Seq(EventType)
      BY <1>8 DEF Deliver, PhoneTypes
    <2>2. told \in PageType
      BY <2>1, ReactsTypes DEF PhoneTypes
    <2>3. Closing(told, "native") \in PageType
      BY <2>2, ClosingTypes
    <2>4. page' \in PageType
      BY <1>8, <2>2, <2>3 DEF Deliver
    <2>5. pending' \in SomeCall
      BY <1>8 DEF Deliver, PhoneTypes, SomeCall
    <2>. QED
      BY <1>8, <2>1, <2>4, <2>5 DEF Deliver, TableTypes, PhoneTypes, server
  <1>9. CASE Kill
    <2>1. NoUpdate \in UpdateType
      BY DEF NoUpdate, UpdateType, Statuses
    <2>2. req' \in [Calls -> [Writers -> UpdateType]]
      <3>1. \A c \in Calls, w \in Writers : req[c][w] \in UpdateType
        BY DEF TableTypes
      <3>. QED
        BY <1>9, <2>1, <3>1 DEF Kill
    <2>2a. mishaps' \in Nat /\ excused' \subseteq Calls /\ joined' \subseteq Calls
      <3>1. mishaps' = mishaps + 1 /\ joined' = {}
        BY <1>9 DEF Kill
      <3>2. excused' = excused \cup {c \in Calls : row[c].status \notin {"none", "ended"}}
        BY <1>9 DEF Kill
      <3>3. excused' \subseteq Calls
        BY <3>2 DEF TableTypes
      <3>. QED
        BY <3>1, <3>3 DEF TableTypes
    <2>2b. TableTypes'
      BY <1>9, <2>2, <2>2a DEF Kill, TableTypes
    <2>3. NoService \in ServiceType
      BY DEF NoService, ServiceType, SomeCall
    <2>4. Idle \in [status : Active \cup Terminal, call : SomeCall]
      BY DEF Idle, Terminal, SomeCall
    <2>. QED
      <3>1. intents' \in Seq(Calls) /\ events' \in Seq(EventType) /\ reports' \in Seq(ReportType)
        BY <1>9 DEF Kill
      <3>2. pending' \in SomeCall /\ stray' \in BOOLEAN
        BY <1>9 DEF Kill, SomeCall
      <3>. QED
        BY <1>1, <1>9, <2>2b, <2>3, <2>4, <3>1, <3>2 DEF Kill, PhoneTypes
  <1>. QED
    BY <1>2, <1>3, <1>4, <1>5, <1>6, <1>7, <1>8, <1>9 DEF Page

LEMMA NextTypes ==
    ASSUME CallTypeInv, Known, ServiceInv, [CallNext]_callVars
    PROVE  CallTypeInv'
  <1>1. ASSUME NEW c \in Calls, Agent(c) \/ AgentFails(c) \/ AgentDies(c)
        PROVE  CallTypeInv'
    BY <1>1, AgentTypes, RoomTypes DEF CallTypeInv
  <1>2. ASSUME NEW c \in Calls, NEW w \in Writers, Serve(c, w) \/ LoseRequest(c, w)
        PROVE  CallTypeInv'
    BY <1>2, RowTypes, RoomTypes DEF CallTypeInv
  <1>3. CASE UNCHANGED callVars
    BY <1>3 DEF callVars, server, phone, CallTypeInv, TableTypes, PhoneTypes
  <1>. QED
    BY <1>1, <1>2, <1>3, ServiceTypes, PageTypes DEF CallNext

(*---------------------------- the service ---------------------------------*)
LEMMA InitService == ASSUME CallInit PROVE ServiceInv /\ MicIsVisible
  BY DEF CallInit, ServiceInv, MicIsVisible, NoService

(* To stop is to report the end of the call, if nobody has, and to leave.   *)
LEMMA StopDoes ==
    ASSUME PhoneTypes, ServiceInv, svc.alive, NEW status \in Ending, Stop(status)
    PROVE  /\ svc' = [svc EXCEPT !.at = "off", !.ready = FALSE, !.stopping = TRUE,
                                 !.doomed = TRUE, !.reported = TRUE]
           /\ joined' = {}
           /\ current' = [status |-> status, call |-> svc.call]
           /\ events' = Append(events, current')
           /\ reports' = IF svc.reported THEN reports ELSE Append(reports, current')
  <1>. DEFINE s == [Torn(svc) EXCEPT !.stopping = TRUE, !.doomed = TRUE]
  <1>1. s = [svc EXCEPT !.at = "off", !.ready = FALSE, !.stopping = TRUE, !.doomed = TRUE]
    BY DEF Torn, PhoneTypes, ServiceType
  <1>2. s \in ServiceType /\ s.alive /\ s.reported = svc.reported
    BY <1>1 DEF PhoneTypes, ServiceType
  <1>3. Publish(s, status, svc.call) /\ joined' = joined \ {svc.call}
    BY DEF Stop
  <1>4. svc.call # 0
    BY DEF ServiceInv
  <1>. HIDE DEF s
  <1>5. current' = [status |-> status, call |-> svc.call] /\ events' = Append(events, current')
    BY <1>3 DEF Publish
  <1>6. reports' = IF svc.reported THEN reports ELSE Append(reports, current')
    BY <1>2, <1>3, <1>4 DEF Publish, Ending
  <1>7. svc' = [s EXCEPT !.reported = TRUE]
    BY <1>2, <1>3, <1>4 DEF Publish, Ending, ServiceType
  <1>8. svc' = [svc EXCEPT !.at = "off", !.ready = FALSE, !.stopping = TRUE, !.doomed = TRUE,
                           !.reported = TRUE]
    BY <1>1, <1>7 DEF PhoneTypes, ServiceType
  <1>9. joined' = {}
    BY <1>3 DEF ServiceInv
  <1>. QED
    BY <1>5, <1>6, <1>8, <1>9

(* What is not an end only reports.                                         *)
LEMMA PublishDoes ==
    ASSUME NEW s \in ServiceType, NEW status \in Active, NEW c, Publish(s, status, c)
    PROVE  /\ svc' = s
           /\ current' = [status |-> status, call |-> c]
           /\ events' = Append(events, current')
           /\ reports' \in {reports, Append(reports, current')}
  <1>1. status \notin {"disconnected", "failed"}
    BY DEF Active
  <1>2. svc' = [s EXCEPT !.reported = s.reported]
    BY <1>1 DEF Publish, ServiceType
  <1>. QED
    BY <1>1, <1>2 DEF Publish, ServiceType

(* A service that is not there has nothing to report.                       *)
LEMMA PublishUnreported ==
    ASSUME NEW status, NEW c, svc = NoService, Publish(svc, status, c)
    PROVE  svc' = svc /\ reports' = reports
  <1>1. svc \in ServiceType /\ ~svc.alive
    BY DEF NoService, ServiceType, SomeCall
  <1>2. svc' = [svc EXCEPT !.reported = svc.reported]
    BY <1>1 DEF Publish, ServiceType
  <1>3. svc' = svc
    BY <1>1, <1>2 DEF ServiceType
  <1>4. reports' = reports
    BY <1>1 DEF Publish
  <1>. QED
    BY <1>3, <1>4

LEMMA StopService ==
    ASSUME PhoneTypes, ServiceInv, svc.alive, NEW status \in Ending, Stop(status),
           stray' => stray \/ svc.alive
    PROVE  ServiceInv' /\ MicIsVisible'
  BY StopDoes DEF ServiceInv, MicIsVisible, PhoneTypes, ServiceType

LEMMA NextService ==
    ASSUME CallTypeInv, Known, ServiceInv, MicIsVisible,
           [CallNext]_callVars
    PROVE  ServiceInv' /\ MicIsVisible'
  <1>. USE DEF CallTypeInv
  <1>a. svc \in ServiceType /\ (svc.at # "off" => svc.alive)
    BY DEF PhoneTypes, ServiceInv, NoService
  <1>1. ASSUME NEW c \in Calls, AgentReady(c) PROVE ServiceInv' /\ MicIsVisible'
    <2>1. UNCHANGED <<joined, stray, current>>
      BY <1>1 DEF AgentReady
    <2>2. svc' = svc \/ (svc.at = "waiting" /\ svc' = [svc EXCEPT !.ready = TRUE])
      BY <1>1 DEF AgentReady
    <2>3. CASE svc' = svc
      BY <2>1, <2>3 DEF ServiceInv, MicIsVisible
    <2>4. CASE svc.at = "waiting" /\ svc' = [svc EXCEPT !.ready = TRUE]
      BY <1>a, <2>1, <2>4 DEF ServiceInv, MicIsVisible, ServiceType
    <2>. QED
      BY <2>2, <2>3, <2>4
  <1>2. ASSUME NEW c \in Calls, NEW w \in Writers, DeleteRoom(c, w)
        PROVE  ServiceInv' /\ MicIsVisible'
    BY <1>2 DEF DeleteRoom, ServiceInv, MicIsVisible, phone
  <1>3. ASSUME NEW c \in Calls,
               \/ AgentStarts(c) \/ AgentJoins(c) \/ AgentServes(c) \/ AgentLeaves(c) \/ AgentGone(c)
               \/ AgentFails(c) \/ AgentDies(c)
               \/ \E w \in Writers : ReadRow(c, w) \/ WriteRow(c, w) \/ LoseRequest(c, w)
        PROVE  ServiceInv' /\ MicIsVisible'
    <2>1. UNCHANGED <<joined, phone>>
      BY <1>3
         DEF AgentStarts, AgentJoins, AgentServes, AgentLeaves, AgentGone,
             AgentFails, AgentDies,
                  ReadRow, WriteRow, LoseRequest
    <2>. QED
      BY <2>1 DEF phone, ServiceInv, MicIsVisible
  <1>4. CASE StartCall
    <2>. DEFINE c == Head(intents)
                s == [NoService EXCEPT !.alive = TRUE, !.call = c, !.at = "joining"]
    <2>1. c \in Calls /\ c # 0
      BY <1>4, VoiceAssumption DEF StartCall, PhoneTypes, VoiceAssumption
    <2>2. s \in ServiceType /\ "connecting" \in Active
      BY <2>1 DEF ServiceType, NoService, SomeCall, Active
    <2>3. Publish(s, "connecting", c)
      BY <1>4 DEF StartCall
    <2>4. svc' = s
      <3>. HIDE DEF s
      <3>. QED
        BY <2>2, <2>3, PublishDoes
    <2>5. joined' = {}
      BY <1>4 DEF StartCall, ServiceInv
    <2>. QED
      BY <2>1, <2>4, <2>5 DEF ServiceInv, MicIsVisible, NoService
  <1>5. CASE Join
    BY <1>5, <1>a DEF Join, ServiceInv, MicIsVisible, ServiceType
  <1>6. CASE GoLive
    <2>. DEFINE s == [svc EXCEPT !.at = "live"]
    <2>1. s \in ServiceType /\ "connected" \in Active /\ Publish(s, "connected", svc.call)
      BY <1>6, <1>a DEF GoLive, ServiceType, Active
    <2>2. svc' = s /\ current' = [status |-> "connected", call |-> svc.call]
      <3>. HIDE DEF s
      <3>. QED
        BY <2>1, PublishDoes
    <2>. QED
      BY <1>6, <1>a, <2>1, <2>2 DEF GoLive, ServiceInv, MicIsVisible, ServiceType
  <1>7. CASE GiveUpCall \/ LoseRoom
    <2>1. svc.alive /\ Stop("failed") /\ "failed" \in Ending /\ UNCHANGED stray
      BY <1>7, <1>a DEF GiveUpCall, LoseRoom, Ending
    <2>. QED
      BY <2>1, StopService
  <1>8. CASE Reconnecting
    <2>1. "reconnecting" \in Active /\ Publish(svc, "reconnecting", svc.call)
      BY <1>8 DEF Reconnecting, Active
    <2>2. svc' = svc /\ current' = [status |-> "reconnecting", call |-> svc.call]
      BY <1>a, <2>1, PublishDoes
    <2>. QED
      BY <1>8, <2>1, <2>2 DEF Reconnecting, ServiceInv, MicIsVisible
  <1>9. CASE StrayFails
    <2>1. svc.alive /\ Stop("failed") /\ "failed" \in Ending /\ ~stray'
      BY <1>9 DEF StrayFails, ServiceInv, Ending
    <2>. QED
      BY <2>1, StopService
  <1>10. CASE HangUp
    <2>1. svc.alive /\ Stop("disconnected") /\ "disconnected" \in Ending
      BY <1>10 DEF HangUp, Ending
    <2>. QED
      BY <2>1, StopService
  <1>11. CASE Destroy
    <2>1. svc.at = "off"
      BY <1>11 DEF Destroy, ServiceInv
    <2>. QED
      BY <1>11, <2>1 DEF Destroy, ServiceInv, MicIsVisible, NoService
  <1>12. CASE \/ Report \/ Click \/ CloseCall \/ SessionCreated
              \/ CloseSession \/ CloseDone \/ Deliver
    <2>1. UNCHANGED <<joined, svc, stray, current>>
      BY <1>12
         DEF Report, Click, CloseCall, SessionCreated, CloseSession,
             CloseDone, Deliver, phone
    <2>. QED
      BY <2>1 DEF ServiceInv, MicIsVisible
  <1>13. CASE CloseNative
    <2>1. CASE svc.alive /\ svc.stopping
      BY <1>13, <2>1 DEF CloseNative, ServiceInv, MicIsVisible
    <2>2. CASE svc.alive /\ ~svc.stopping
      <3>1. Stop("disconnected") /\ "disconnected" \in Ending
        BY <1>13, <2>2 DEF CloseNative, Ending
      <3>. QED
        BY <2>2, <3>1, StopService
    <2>3. CASE ~svc.alive
      <3>1. svc = NoService /\ Publish(svc, "disconnected", current.call) /\ UNCHANGED <<joined, stray>>
        BY <1>13, <2>3 DEF CloseNative, ServiceInv
      <3>2. svc' = NoService
        BY <3>1, PublishUnreported
      <3>. QED
        BY <3>1, <3>2 DEF ServiceInv, MicIsVisible, NoService
    <2>. QED
      BY <2>1, <2>2, <2>3
  <1>14. CASE Kill
    BY <1>14 DEF Kill, ServiceInv, MicIsVisible, NoService
  <1>15. CASE UNCHANGED callVars
    BY <1>15 DEF callVars, phone, ServiceInv, MicIsVisible
  <1>. QED
    BY <1>1, <1>2, <1>3, <1>4, <1>5, <1>6, <1>7, <1>8, <1>9, <1>10, <1>11, <1>12, <1>13, <1>14,
       <1>15
       DEF CallNext, Agent, Serve, Service, Page

(*--------------------- calls that are in the table ------------------------*)
LEMMA AppendRange ==
    ASSUME NEW S, NEW s \in Seq(S), NEW e \in S
    PROVE  Range(Append(s, e)) = Range(s) \cup {e}
  BY DEF Range

LEMMA RangeIn == ASSUME NEW S, NEW s \in Seq(S) PROVE \A x \in Range(s) : x \in S
  BY DEF Range

LEMMA TailRange ==
    ASSUME NEW S, NEW s \in Seq(S), s # <<>>
    PROVE  Head(s) \in Range(s) /\ Range(s) = Range(Tail(s)) \cup {Head(s)}
  <1>1. Head(s) \in Range(s)
    BY DEF Range
  <1>2. \A i \in DOMAIN Tail(s) : Tail(s)[i] = s[i + 1] /\ i + 1 \in DOMAIN s
    OBVIOUS
  <1>3. \A i \in DOMAIN s : i = 1 \/ (i - 1 \in DOMAIN Tail(s) /\ s[i] = Tail(s)[i - 1])
    OBVIOUS
  <1>4. Range(Tail(s)) \subseteq Range(s)
    BY <1>2 DEF Range
  <1>5. ASSUME NEW x \in Range(s) PROVE x \in Range(Tail(s)) \cup {Head(s)}
    <2>1. PICK i \in DOMAIN s : x = s[i]
      BY DEF Range
    <2>2. i = 1 => x = Head(s)
      BY <2>1
    <2>. QED
      BY <1>3, <2>1, <2>2 DEF Range
  <1>. QED
    BY <1>1, <1>4, <1>5

LEMMA PushRange ==
    ASSUME NEW S, NEW s \in Seq(S), s # <<>>, NEW e \in S
    PROVE  Range(<<e>> \o Tail(s)) = Range(Tail(s)) \cup {e}
  <1>1. Tail(s) \in Seq(S)
    OBVIOUS
  <1>. DEFINE t == Tail(s)
              u == <<e>> \o t
  <1>2. Len(u) = Len(t) + 1 /\ u[1] = e /\ u \in Seq(S)
    BY <1>1
  <1>3. \A i \in DOMAIN t : u[i + 1] = t[i] /\ i + 1 \in DOMAIN u
    BY <1>1
  <1>4. \A i \in DOMAIN u : i = 1 \/ (i - 1 \in DOMAIN t /\ u[i] = t[i - 1])
    BY <1>1
  <1>. HIDE DEF t, u
  <1>5. Range(t) \cup {e} \subseteq Range(u)
    BY <1>1, <1>2, <1>3 DEF Range
  <1>6. Range(u) \subseteq Range(t) \cup {e}
    BY <1>2, <1>4 DEF Range
  <1>. QED
    BY <1>5, <1>6 DEF t, u

(* A row that is in the table stays there.                                  *)
LEMMA RowsStay ==
    ASSUME CallTypeInv, Known, [CallNext]_callVars
    PROVE  /\ \A c \in Calls : Begun(c) => Begun(c)'
           /\ ~SessionCreated => \A c \in Calls : Begun(c)' => Begun(c)
  <1>1. CASE \E c \in Calls, w \in Writers : WriteRow(c, w)
    <2>1. PICK c \in Calls, w \in Writers : WriteRow(c, w)
      BY <1>1
    <2>2. Moved(req[c][w].seen, req[c][w].want) # "none"
      BY DEF CallTypeInv, TableTypes, UpdateType, Statuses, Moved
    <2>3. Begun(c)
      BY <2>1 DEF WriteRow, Known, TableKnown
    <2>4. \A d \in Calls : row'[d].status = IF d = c THEN Moved(req[c][w].seen, req[c][w].want)
                                             ELSE row[d].status
      BY <2>1 DEF WriteRow, CallTypeInv, TableTypes
    <2>. QED
      BY <2>2, <2>3, <2>4 DEF Begun
  <1>2. CASE SessionCreated
    <2>1. \A d \in Calls : row'[d].status \in {row[d].status, "created"}
      BY <1>2 DEF SessionCreated, CallTypeInv, TableTypes
    <2>. QED
      BY <1>2, <2>1 DEF Begun
  <1>3. CASE ~SessionCreated /\ ~ \E c \in Calls, w \in Writers : WriteRow(c, w)
    <2>2. \A c \in Calls : Agent(c) \/ AgentFails(c) \/ AgentDies(c) => UNCHANGED row
      BY DEF Agent, AgentStarts, AgentJoins, AgentReady, AgentServes,
             AgentLeaves, AgentGone,
             AgentFails, AgentDies, server
    <2>3. \A c \in Calls, w \in Writers : Serve(c, w) \/ LoseRequest(c, w) => UNCHANGED row
      BY <1>3 DEF Serve, DeleteRoom, ReadRow, LoseRequest
    <2>4. Service \/ LoseRoom \/ Reconnecting \/ HangUp \/ Report => UNCHANGED row
      BY DEF Service, StartCall, Join, GoLive, GiveUpCall, LoseRoom,
             Reconnecting, StrayFails, HangUp,
             Destroy, Report, server
    <2>5. Click \/ CloseCall \/ Page \/ Kill => UNCHANGED row
      BY <1>3
         DEF Click, CloseCall, Page, CloseNative, CloseSession, CloseDone,
             Deliver, Kill, server
    <2>1. UNCHANGED row
      BY <2>2, <2>3, <2>4, <2>5 DEF CallNext, callVars, server
    <2>. QED
      BY <2>1 DEF Begun
  <1>. QED
    BY <1>1, <1>2, <1>3

LEMMA PublishMentions ==
    ASSUME NEW s \in ServiceType, NEW status \in Published, NEW c \in SomeCall,
           PhoneTypes, PhoneKnown, Publish(s, status, c),
           c # 0 => Begun(c), status \in Active => c # 0, s.call # 0 => Begun(s.call)
    PROVE  /\ svc'.call = s.call
           /\ current'.call # 0 => Begun(current'.call)
           /\ \A e \in Range(events') : (e.call # 0 => Begun(e.call)) /\ (e.status \in Active => e.call # 0)
           /\ \A r \in Range(reports') : Begun(r.call)
  <1>1. /\ current' = [status |-> status, call |-> c]
        /\ events' = Append(events, current')
        /\ reports' \in {reports, Append(reports, current')} /\ (c = 0 => reports' = reports)
    BY DEF Publish
  <1>2. svc'.call = s.call
    BY DEF Publish, ServiceType
  <1>3. current' \in EventType
    BY <1>1 DEF EventType
  <1>4. Range(events') = Range(events) \cup {current'}
    BY <1>1, <1>3, AppendRange DEF PhoneTypes
  <1>5. c # 0 => current' \in ReportType
    BY <1>1 DEF ReportType, SomeCall
  <1>6. Range(reports') \subseteq Range(reports) \cup {current'} /\ (c = 0 => reports' = reports)
    <2>1. CASE reports' = reports
      BY <1>1, <2>1
    <2>2. CASE c # 0 /\ reports' = Append(reports, current')
      <3>1. Range(reports') = Range(reports) \cup {current'}
        BY <1>5, <2>2, AppendRange DEF PhoneTypes
      <3>. QED
        BY <2>2, <3>1
    <2>. QED
      BY <1>1, <2>1, <2>2
  <1>7. \A e \in Range(events) : (e.call # 0 => Begun(e.call)) /\ (e.status \in Active => e.call # 0)
    <2>1. Mentions(page, svc, current, intents, events, reports)
      BY DEF PhoneKnown
    <2>2. ASSUME NEW e \in Range(events)
          PROVE  (e.call # 0 => Begun(e.call)) /\ (e.status \in Active => e.call # 0)
      BY <2>1, Zenon DEF Mentions
    <2>. QED
      BY <2>2
  <1>8. \A r \in Range(reports) : Begun(r.call)
    BY DEF PhoneKnown, Mentions
  <1>9. (current'.call # 0 => Begun(current'.call)) /\ (current'.status \in Active => current'.call # 0)
    BY <1>1
  <1>10. \A r \in Range(reports') : Begun(r.call)
    <2>1. CASE c = 0
      BY <1>6, <1>8, <2>1
    <2>2. CASE c # 0
      BY <1>1, <1>6, <1>8, <1>9, <2>2
    <2>. QED
      BY <2>1, <2>2
  <1>. QED
    BY <1>2, <1>4, <1>7, <1>9, <1>10

(* Nothing but a session that is created mentions a call that is new.       *)
LEMMA StopMentions ==
    ASSUME CallTypeInv, Known, ServiceInv, NEW status \in Ending,
           Stop(status), UNCHANGED intents,
           NEW p, p.call \in {page.call, 0}, p.ends \in {page.call, page.ends, 0}
    PROVE  Mentions(p, svc', current', intents', events', reports')
  <1>. DEFINE s == [Torn(svc) EXCEPT !.stopping = TRUE, !.doomed = TRUE]
  <1>1. s \in ServiceType /\ svc.call \in SomeCall /\ status \in Published /\ s.call = svc.call
    BY DEF CallTypeInv, PhoneTypes, ServiceType, Torn, Published
  <1>2. Publish(s, status, svc.call) /\ status \notin Active
    BY DEF Stop, Ending, Active
  <1>3. svc.call # 0 => Begun(svc.call)
    BY DEF Known, PhoneKnown, Mentions, CallTypeInv, PhoneTypes, ServiceType, SomeCall
  <1>. HIDE DEF s
  <1>4. /\ svc'.call = s.call
        /\ current'.call # 0 => Begun(current'.call)
        /\ \A e \in Range(events') : (e.call # 0 => Begun(e.call)) /\ (e.status \in Active => e.call # 0)
        /\ \A r \in Range(reports') : Begun(r.call)
    BY <1>1, <1>2, <1>3, PublishMentions DEF CallTypeInv, Known
  <1>. QED
    BY <1>1, <1>4, VoiceAssumption DEF Known, PhoneKnown, Mentions, VoiceAssumption

LEMMA ClosingMentions ==
    ASSUME NEW p \in PageType, NEW how \in {"native", "end"}
    PROVE  /\ Closing(p, how).call = p.call
           /\ Closing(p, how).ends \in {p.call, p.ends}
           /\ Closing(p, how).state = p.state
           /\ Closing(p, how).creating = p.creating
  BY DEF Closing, PageType

LEMMA ReactsMentions ==
    ASSUME NEW p \in PageType, NEW e \in EventType
    PROVE  /\ Reacts(p, e).call = IF e.call # 0 THEN e.call ELSE p.call
           /\ Reacts(p, e).ends \in {p.call, p.ends, e.call}
           /\ Reacts(p, e).state = IF e.status \in Active THEN e.status ELSE p.state
           /\ Reacts(p, e).creating = p.creating
  <1>. DEFINE q == IF e.call # 0 THEN [p EXCEPT !.call = e.call] ELSE p
  <1>1. /\ q \in PageType /\ q.call = (IF e.call # 0 THEN e.call ELSE p.call)
        /\ q.ends = p.ends /\ q.state = p.state /\ q.creating = p.creating
    BY DEF EventType, PageType, SomeCall
  <1>. HIDE DEF q
  <1>2. CASE e.status \in Active
    <2>1. Reacts(p, e) = [q EXCEPT !.state = e.status]
      BY <1>2 DEF Reacts, q, Active
    <2>. QED
      BY <1>1, <1>2, <2>1 DEF PageType
  <1>3. CASE e.status \notin Active
    <2>1. Reacts(p, e) \in {Closing(q, "end"), q}
      BY <1>3 DEF Reacts, q
    <2>2. CASE Reacts(p, e) = q
      BY <1>1, <1>3, <2>2
    <2>3. CASE Reacts(p, e) = Closing(q, "end")
      <3>1. /\ Closing(q, "end").call = q.call /\ Closing(q, "end").ends \in {q.call, q.ends}
            /\ Closing(q, "end").state = q.state /\ Closing(q, "end").creating = q.creating
        BY <1>1, ClosingMentions
      <3>. QED
        BY <1>1, <1>3, <2>3, <3>1
    <2>. QED
      BY <2>1, <2>2, <2>3
  <1>. QED
    BY <1>2, <1>3

(* What the page comes to of itself: calls it knows, or those of an event.  *)
LEMMA DeliverMentions ==
    ASSUME CallTypeInv, Known, Deliver
    PROVE  /\ Head(events) \in EventType /\ Head(events) \in Range(events)
           /\ events' = Tail(events) /\ Range(events') \subseteq Range(events)
           /\ page'.call \in {page.call, Head(events).call}
           /\ page'.ends \in {page.call, page.ends, Head(events).call}
           /\ page'.creating = page.creating
           /\ page'.state # "idle" /\ ~page'.creating => page'.call # 0
  <1>. DEFINE e == Head(events)
              told == IF page.listening THEN Reacts(page, e) ELSE page
  <1>1. /\ e \in EventType /\ e \in Range(events)
        /\ events' = Tail(events) /\ Range(events') \subseteq Range(events)
    BY TailRange DEF Deliver, CallTypeInv, PhoneTypes
  <1>2. /\ told.call \in {page.call, e.call} /\ told.ends \in {page.call, page.ends, e.call}
        /\ told.creating = page.creating
    BY <1>1, ReactsMentions DEF CallTypeInv, PhoneTypes
  <1>3. told.state # "idle" /\ ~told.creating => told.call # 0
    <2>1. e.status \in Active => e.call # 0
      BY <1>1 DEF Known, PhoneKnown, Mentions
    <2>2. page.state # "idle" /\ ~page.creating => page.call # 0
      BY DEF Known, PageKnown
    <2>. QED
      BY <1>1, <2>1, <2>2, ReactsMentions DEF CallTypeInv, PhoneTypes
  <1>4. told \in PageType
    BY <1>1, ReactsTypes DEF CallTypeInv, PhoneTypes
  <1>5. page' \in {told, Closing(told, "native")}
    BY DEF Deliver
  <1>. HIDE DEF told, e
  <1>6. /\ page'.call = told.call /\ page'.ends \in {told.call, told.ends}
        /\ page'.state = told.state /\ page'.creating = told.creating
    BY <1>4, <1>5, ClosingMentions
  <1>7. page'.call \in {page.call, e.call} /\ page'.ends \in {page.call, page.ends, e.call}
    BY <1>2, <1>6
  <1>. QED
    BY <1>1, <1>2, <1>3, <1>6, <1>7 DEF e

(* No step but the creation of a session mentions a call that is new.       *)
LEMMA NextMentions ==
    ASSUME CallTypeInv, Known, ServiceInv, [CallNext]_callVars,
           ~SessionCreated
    PROVE  Mentions(page', svc', current', intents', events', reports')
  <1>. DEFINE Goal == Mentions(page', svc', current', intents', events', reports')
  <1>a. /\ svc \in ServiceType /\ svc.call \in SomeCall /\ current.call \in SomeCall
        /\ page \in PageType /\ page.call \in SomeCall /\ page.ends \in SomeCall
    BY DEF CallTypeInv, PhoneTypes, ServiceType, PageType
  <1>b. Mentions(page, svc, current, intents, events, reports)
    BY DEF Known, PhoneKnown
  <1>c. \A c \in SomeCall : c \in {page.call, page.ends, svc.call, current.call} => c = 0 \/ Begun(c)
    BY <1>b DEF Mentions, SomeCall
  <1>d. 0 \notin Calls
    BY VoiceAssumption DEF VoiceAssumption
  <1>e. svc.at # "off" => svc.call # 0
    BY DEF ServiceInv, NoService
  <1>f. Stop("failed") \/ Stop("disconnected") => \E st \in Ending : Stop(st)
    BY DEF Ending
  <1>1. ASSUME UNCHANGED <<current, intents, events, reports>>, svc'.call = svc.call,
               page'.call \in {page.call, 0}, page'.ends \in {page.call, page.ends, 0}
        PROVE  Goal
    BY <1>1, <1>b, <1>d DEF Mentions
  <1>2. ASSUME NEW st \in Ending, Stop(st), UNCHANGED intents,
               page'.call \in {page.call, 0}, page'.ends \in {page.call, page.ends, 0}
        PROVE  Goal
    BY <1>2, StopMentions
  <1>3. ASSUME NEW s \in ServiceType, NEW st \in Active, NEW c \in Calls, Begun(c), s.call = c,
               Publish(s, st, c), Range(intents') \subseteq Range(intents), UNCHANGED page
        PROVE  Goal
    <2>1. st \in Published /\ c \in SomeCall /\ c # 0
      BY <1>3, <1>d DEF Published, SomeCall
    <2>2. /\ svc'.call = s.call
          /\ current'.call # 0 => Begun(current'.call)
          /\ \A e \in Range(events') : (e.call # 0 => Begun(e.call)) /\ (e.status \in Active => e.call # 0)
          /\ \A r \in Range(reports') : Begun(r.call)
      BY <1>3, <2>1, PublishMentions DEF CallTypeInv, Known
    <2>. QED
      BY <1>3, <1>b, <1>d, <2>2 DEF Mentions
  <1>4. ASSUME NEW c \in Calls, \/ Agent(c) \/ AgentFails(c) \/ AgentDies(c)
                                \/ \E w \in Writers : Serve(c, w) \/ LoseRequest(c, w)
        PROVE  Goal
    <2>1. CASE AgentReady(c)
      <3>1. svc'.call = svc.call
        BY <1>a, <2>1 DEF AgentReady, ServiceType
      <3>. QED
        BY <1>1, <2>1, <3>1 DEF AgentReady
    <2>2. CASE ~AgentReady(c)
      <3>1. UNCHANGED <<page, phone>>
        BY <1>4, <2>2
           DEF Agent, AgentStarts, AgentJoins, AgentServes, AgentLeaves,
               AgentGone, AgentFails,
                    AgentDies, Serve, DeleteRoom, ReadRow, WriteRow,
                    LoseRequest
      <3>. QED
        BY <1>1, <3>1 DEF phone
    <2>. QED
      BY <2>1, <2>2
  <1>5. CASE StartCall
    <2>. DEFINE c == Head(intents)
                s == [NoService EXCEPT !.alive = TRUE, !.call = c, !.at = "joining"]
    <2>1. c \in Calls /\ c \in Range(intents) /\ Range(intents') \subseteq Range(intents)
      BY <1>5, TailRange DEF StartCall, CallTypeInv, PhoneTypes
    <2>2. s \in ServiceType /\ s.call = c /\ "connecting" \in Active /\ Begun(c)
      BY <1>b, <2>1 DEF ServiceType, NoService, SomeCall, Active, Mentions
    <2>3. Publish(s, "connecting", c) /\ UNCHANGED page
      BY <1>5 DEF StartCall
    <2>. HIDE DEF s, c
    <2>. QED
      BY <1>3, <2>1, <2>2, <2>3
  <1>6. CASE Join
    <2>1. svc'.call = svc.call
      BY <1>6, <1>a DEF Join, ServiceType
    <2>. QED
      BY <1>1, <1>6, <2>1 DEF Join
  <1>7. CASE GoLive
    <2>. DEFINE s == [svc EXCEPT !.at = "live"]
    <2>1. s \in ServiceType /\ s.call = svc.call /\ "connected" \in Active
      BY <1>a DEF ServiceType, Active
    <2>2. Publish(s, "connected", svc.call) /\ UNCHANGED <<page, intents>>
      BY <1>7 DEF GoLive
    <2>3. svc.call \in Calls /\ Begun(svc.call)
      BY <1>7, <1>a, <1>c, <1>e DEF GoLive, SomeCall
    <2>. HIDE DEF s
    <2>. QED
      BY <1>3, <2>1, <2>2, <2>3
  <1>8. CASE Reconnecting
    <2>1. svc.call \in Calls /\ Begun(svc.call) /\ "reconnecting" \in Active
      BY <1>8, <1>a, <1>c, <1>e DEF Reconnecting, SomeCall, Active
    <2>2. Publish(svc, "reconnecting", svc.call) /\ UNCHANGED <<page, intents>>
      BY <1>8 DEF Reconnecting
    <2>. QED
      BY <1>3, <1>a, <2>1, <2>2
  <1>9. CASE GiveUpCall \/ LoseRoom \/ StrayFails \/ HangUp
    <2>1. (Stop("failed") \/ Stop("disconnected")) /\ UNCHANGED <<page, intents>>
      BY <1>9 DEF GiveUpCall, LoseRoom, StrayFails, HangUp
    <2>. QED
      BY <1>2, <1>f, <2>1
  <1>10. CASE Destroy
    BY <1>10, <1>b, <1>d DEF Destroy, NoService, Mentions
  <1>11. CASE Report
    <2>. DEFINE e == [status |-> "ended", call |-> Head(reports).call]
    <2>1. /\ Head(reports) \in ReportType /\ reports \in Seq(ReportType) /\ reports # <<>>
          /\ e \in ReportType
      <3>1. reports \in Seq(ReportType) /\ reports # <<>>
        BY <1>11 DEF Report, CallTypeInv, PhoneTypes
      <3>2. Head(reports) \in ReportType
        BY <3>1
      <3>. QED
        BY <3>1, <3>2 DEF ReportType
    <2>2. Head(reports) \in Range(reports) /\ Range(Tail(reports)) \subseteq Range(reports)
      BY <2>1, TailRange
    <2>3. Range(<<e>> \o Tail(reports)) = Range(Tail(reports)) \cup {e}
      <3>. HIDE DEF e
      <3>. QED
        BY <2>1, PushRange
    <2>4. \A r \in Range(reports') : r \in Range(reports) \/ r = e
      BY <1>11, <2>2, <2>3 DEF Report
    <2>5. UNCHANGED <<page, svc, current, intents, events>>
      BY <1>11 DEF Report
    <2>6. \A r \in Range(reports) : Begun(r.call)
      BY <1>b DEF Mentions
    <2>7. \A r \in Range(reports') : Begun(r.call)
      BY <2>2, <2>4, <2>6
    <2>. QED
      BY <1>b, <2>5, <2>7 DEF Mentions
  <1>12. CASE Click \/ CloseCall \/ CloseSession \/ CloseDone
    <2>1. UNCHANGED phone
      BY <1>12 DEF Click, CloseCall, CloseSession, CloseDone
    <2>2. page'.call \in {page.call, 0} /\ page'.ends \in {page.call, page.ends, 0}
      <3>1. CASE Click \/ (CloseSession /\ page.ends # 0)
        BY <1>a, <3>1 DEF Click, CloseSession, PageType
      <3>2. CASE CloseCall
        BY <1>a, <3>2, ClosingMentions DEF CloseCall
      <3>3. CASE CloseDone \/ (CloseSession /\ page.ends = 0)
        BY <3>3 DEF CloseDone, CloseSession, Closed, FreshPage
      <3>. QED
        BY <1>12, <3>1, <3>2, <3>3
    <2>. QED
      BY <1>1, <2>1, <2>2 DEF phone
  <1>13. CASE CloseNative
    <2>1. page'.call = page.call /\ page'.ends = page.ends
      BY <1>13, <1>a DEF CloseNative, PageType
    <2>2. CASE svc.alive /\ svc.stopping
      BY <1>1, <1>13, <2>1, <2>2 DEF CloseNative
    <2>3. CASE svc.alive /\ ~svc.stopping
      BY <1>2, <1>13, <1>f, <2>1, <2>3 DEF CloseNative
    <2>4. CASE ~svc.alive
      <3>1. Publish(svc, "disconnected", current.call) /\ intents' = <<>>
        BY <1>13, <2>4 DEF CloseNative
      <3>2. "disconnected" \in Published /\ "disconnected" \notin Active
        BY DEF Published, Ending, Active
      <3>3. /\ svc'.call = svc.call
            /\ current'.call # 0 => Begun(current'.call)
            /\ \A e \in Range(events') : (e.call # 0 => Begun(e.call)) /\ (e.status \in Active => e.call # 0)
            /\ \A r \in Range(reports') : Begun(r.call)
        BY <1>a, <1>c, <3>1, <3>2, PublishMentions DEF CallTypeInv, Known
      <3>4. Range(intents') = {}
        BY <3>1 DEF Range
      <3>. QED
        BY <1>b, <1>d, <2>1, <3>3, <3>4 DEF Mentions
    <2>. QED
      BY <2>2, <2>3, <2>4
  <1>14. CASE Deliver
    <2>1. Head(events).call # 0 => Begun(Head(events).call)
      <3>1. Head(events) \in Range(events)
        BY <1>14, DeliverMentions
      <3>. QED
        BY <1>b, <3>1, Zenon DEF Mentions
    <2>2. UNCHANGED <<intents, svc, current, reports>>
      BY <1>14 DEF Deliver
    <2>. QED
      BY <1>14, <1>b, <1>d, <2>1, <2>2, DeliverMentions DEF Mentions
  <1>15. CASE Kill
    <2>1. Range(intents') = {} /\ Range(events') = {} /\ Range(reports') = {}
      BY <1>15 DEF Kill, Range
    <2>. QED
      BY <1>15, <1>d, <2>1 DEF Kill, FreshPage, NoService, Idle, Mentions
  <1>16. CASE UNCHANGED callVars
    BY <1>1, <1>16 DEF callVars, phone
  <1>17. CASE \E c \in Calls : \/ Agent(c) \/ AgentFails(c) \/ AgentDies(c)
                              \/ \E w \in Writers : Serve(c, w) \/ LoseRequest(c, w)
    BY <1>4, <1>17
  <1>18. CASE Service \/ LoseRoom \/ Reconnecting \/ HangUp \/ Report
    BY <1>5, <1>6, <1>7, <1>8, <1>9, <1>10, <1>11, <1>18 DEF Service
  <1>19. CASE Click \/ CloseCall \/ Page \/ Kill
    BY <1>12, <1>13, <1>14, <1>15, <1>19 DEF Page
  <1>. QED
    BY <1>16, <1>17, <1>18, <1>19 DEF CallNext

(* A call whose row is being updated, or that has an agent, is in the table. *)
LEMMA UpdateAt ==
    ASSUME TableTypes, NEW d \in Calls, NEW v \in Writers, NEW want, NEW c \in Calls,
           NEW w \in Writers,
           req' = Update(d, v, want) \/ req' = End(d, v), req'[c][w].at # "idle"
    PROVE  req[c][w].at # "idle" \/ c = d
  BY DEF TableTypes, Update, End

LEMMA NextTableKnown ==
    ASSUME CallTypeInv, Known, ServiceInv, [CallNext]_callVars,
           NEW c \in Calls
    PROVE  /\ agent'[c] # "none" => Begun(c)
           /\ \A w \in Writers : req'[c][w].at # "idle" => Begun(c)
  <1>a. /\ agent \in [Calls -> AgentPhases] /\ req \in [Calls -> [Writers -> UpdateType]] /\ TableTypes
        /\ {"app", "page", "agent", "exit"} = Writers
    BY DEF CallTypeInv, TableTypes, Writers
  <1>b. \A d \in Calls : agent[d] # "none" => Begun(d)
    BY DEF Known, TableKnown
  <1>c. \A d \in Calls, w \in Writers : req[d][w].at # "idle" => Begun(d)
    BY DEF Known, TableKnown
  <1>1. ASSUME NEW d \in Calls, Agent(d) \/ AgentFails(d) \/ AgentDies(d)
        PROVE  /\ agent'[c] # "none" => Begun(c)
               /\ \A w \in Writers : req'[c][w].at # "idle" => Begun(c)
    <2>1. agent[d] # "none"
      BY <1>1
         DEF Agent, AgentStarts, AgentJoins, AgentReady, AgentServes,
             AgentLeaves, AgentGone,
                  AgentFails, AgentDies, AgentDoes
    <2>2. \A e \in Calls : e # d => agent'[e] = agent[e]
      BY <1>1, <1>a
         DEF Agent, AgentStarts, AgentJoins, AgentReady, AgentServes,
             AgentLeaves, AgentGone,
                  AgentFails, AgentDies, AgentDoes
    <2>3. \A w \in Writers : req'[c][w].at # "idle" => req[c][w].at # "idle" \/ c = d
      <3>1. CASE \/ AgentStarts(d) \/ AgentReady(d) \/ AgentFails(d)
                 \/ AgentLeaves(d)
        <4>1. \E v \in Writers, want \in {"connecting", "connected", "failed", "ended"} :
                 req' = Update(d, v, want)
          BY <1>a, <3>1 DEF AgentStarts, AgentReady, AgentFails, AgentLeaves
        <4>. QED
          BY <1>a, <4>1, UpdateAt
      <3>2. CASE AgentJoins(d) \/ AgentServes(d) \/ AgentGone(d)
        BY <3>2 DEF AgentJoins, AgentServes, AgentGone, server
      <3>3. CASE AgentDies(d)
        BY <1>a, <3>3 DEF AgentDies
      <3>. QED
        BY <1>1, <3>1, <3>2, <3>3 DEF Agent
    <2>. QED
      BY <1>b, <1>c, <2>1, <2>2, <2>3
  <1>2. ASSUME NEW d \in Calls, NEW v \in Writers, Serve(d, v) \/ LoseRequest(d, v)
        PROVE  /\ agent'[c] # "none" => Begun(c)
               /\ \A w \in Writers : req'[c][w].at # "idle" => Begun(c)
    <2>1. UNCHANGED agent /\ req[d][v].at # "idle"
      BY <1>2 DEF Serve, DeleteRoom, ReadRow, WriteRow, LoseRequest
    <2>2. \A w \in Writers : req'[c][w].at # "idle" => req[c][w].at # "idle" \/ c = d
      BY <1>2, <1>a DEF Serve, DeleteRoom, ReadRow, WriteRow, LoseRequest
    <2>. QED
      BY <1>b, <1>c, <2>1, <2>2
  <1>3. CASE Join
    <2>1. svc.call \in Calls /\ Begun(svc.call)
      BY <1>3
         DEF Join, ServiceInv, NoService, CallTypeInv, PhoneTypes, ServiceType, SomeCall,
             Known, PhoneKnown, Mentions
    <2>2. UNCHANGED req
      BY <1>3 DEF Join, server
    <2>3. \A d \in Calls : d # svc.call => agent'[d] = agent[d]
      BY <1>3, <1>a DEF Join
    <2>. QED
      BY <1>b, <1>c, <2>1, <2>2, <2>3
  <1>4. CASE Report
    <2>. DEFINE d == Head(reports).call
    <2>1. Head(reports) \in Range(reports) /\ Head(reports) \in ReportType
      BY <1>4, TailRange DEF Report, CallTypeInv, PhoneTypes
    <2>2. d \in Calls /\ Begun(d)
      BY <2>1 DEF ReportType, Known, PhoneKnown, Mentions
    <2>3. UNCHANGED agent
      BY <1>4 DEF Report
    <2>4. \/ req' = End(d, "app") \/ req' = Update(d, "app", "ended")
          \/ req' = Update(d, "app", Head(reports).status)
      BY <1>4 DEF Report
    <2>. HIDE DEF d
    <2>5. ASSUME NEW w \in Writers, req'[c][w].at # "idle"
          PROVE  req[c][w].at # "idle" \/ c = d
      <3>1. "app" \in Writers
        BY <1>a
      <3>2. CASE req' = End(d, "app")
        BY <1>a, <2>2, <2>5, <3>1, <3>2, UpdateAt
      <3>3. CASE req' = Update(d, "app", "ended")
        BY <1>a, <2>2, <2>5, <3>1, <3>3, UpdateAt
      <3>4. CASE req' = Update(d, "app", Head(reports).status)
        BY <1>a, <2>2, <2>5, <3>1, <3>4, UpdateAt
      <3>. QED
        BY <2>4, <3>2, <3>3, <3>4
    <2>. QED
      BY <1>b, <1>c, <2>2, <2>3, <2>5
  <1>5. CASE CloseSession /\ page.ends # 0
    <2>. DEFINE d == page.ends
    <2>1. d \in Calls /\ Begun(d)
      BY <1>5 DEF CallTypeInv, PhoneTypes, PageType, SomeCall, Known, PhoneKnown, Mentions
    <2>2. req' = End(d, "page") /\ UNCHANGED agent
      BY <1>5 DEF CloseSession
    <2>. HIDE DEF d
    <2>3. \A w \in Writers : req'[c][w].at # "idle" => req[c][w].at # "idle" \/ c = d
      <3>. SUFFICES ASSUME NEW w \in Writers, req'[c][w].at # "idle", req[c][w].at = "idle"
                    PROVE  c = d
        OBVIOUS
      <3>1. req' = Update(d, "page", "ended") \/ req' = End(d, "page")
        BY <2>2
      <3>2. "page" \in Writers
        BY <1>a
      <3>. QED
        BY <1>a, <2>1, <3>1, <3>2, UpdateAt
    <2>. QED
      BY <1>b, <1>c, <2>1, <2>2, <2>3
  <1>6. CASE Kill
    <2>1. \A w \in Writers : req'[c][w] \in {NoUpdate, req[c][w]}
      <3>1. req' = [d \in Calls |-> [w \in Writers |-> IF w \in {"app", "page"} THEN NoUpdate ELSE req[d][w]]]
        BY <1>6 DEF Kill
      <3>2. \A w \in Writers : req'[c][w] = IF w \in {"app", "page"} THEN NoUpdate ELSE req[c][w]
        BY <3>1
      <3>. QED
        BY <3>2
    <2>2. UNCHANGED agent
      BY <1>6 DEF Kill
    <2>. QED
      BY <1>b, <1>c, <2>1, <2>2 DEF NoUpdate
  <1>7. ASSUME UNCHANGED <<req, agent>>
        PROVE  /\ agent'[c] # "none" => Begun(c)
               /\ \A w \in Writers : req'[c][w].at # "idle" => Begun(c)
    BY <1>7, <1>b, <1>c
  <1>8. CASE \/ StartCall \/ GoLive \/ GiveUpCall \/ LoseRoom \/ Reconnecting
             \/ StrayFails \/ HangUp \/ Destroy
    BY <1>7, <1>8
       DEF StartCall, GoLive, GiveUpCall, LoseRoom, Reconnecting,
           StrayFails, HangUp, Destroy, server
  <1>9. CASE \/ Click \/ CloseCall \/ SessionCreated \/ CloseNative
             \/ CloseDone \/ Deliver
    BY <1>7, <1>9
       DEF Click, CloseCall, SessionCreated, CloseNative, CloseDone,
           Deliver, server
  <1>10. CASE CloseSession /\ page.ends = 0
    BY <1>7, <1>10 DEF CloseSession
  <1>11. CASE UNCHANGED callVars
    BY <1>7, <1>11 DEF callVars, server
  <1>. QED
    BY <1>1, <1>2, <1>3, <1>4, <1>5, <1>6, <1>8, <1>9, <1>10, <1>11
       DEF CallNext, Service, Page

LEMMA InitKnown == ASSUME CallInit PROVE Known
  <1>1. TableKnown
    BY DEF CallInit, TableKnown, NoUpdate
  <1>2. 0 \notin Calls
    BY VoiceAssumption DEF VoiceAssumption
  <1>3. Range(intents) = {} /\ Range(events) = {} /\ Range(reports) = {}
    BY DEF CallInit, Range
  <1>4. PhoneKnown
    BY <1>2, <1>3 DEF CallInit, PhoneKnown, Mentions, FreshPage, NoService, Idle
  <1>5. PageKnown
    BY DEF CallInit, PageKnown, FreshPage
  <1>. QED
    BY <1>1, <1>4, <1>5 DEF Known

LEMMA NextPageKnown ==
    ASSUME CallTypeInv, Known, ServiceInv, [CallNext]_callVars
    PROVE  PageKnown'
  <1>a. page \in PageType /\ PageKnown
    BY DEF CallTypeInv, PhoneTypes, Known
  <1>1. page'.state # "idle" /\ ~page'.creating => page'.call # 0
    <2>1. ASSUME page'.state = page.state, page'.creating = page.creating, page'.call = page.call
          PROVE  page'.state # "idle" /\ ~page'.creating => page'.call # 0
      BY <1>a, <2>1 DEF PageKnown
    <2>2. CASE Click
      BY <1>a, <2>2 DEF Click, PageType
    <2>3. CASE SessionCreated
      <3>1. Upcoming # 0
        BY <2>3, UpcomingIsNew, VoiceAssumption
           DEF SessionCreated, Known, PageKnown, VoiceAssumption
      <3>. QED
        BY <1>a, <2>3, <3>1 DEF SessionCreated, PageType
    <2>4. CASE CloseCall
      BY <1>a, <2>1, <2>4, ClosingMentions DEF CloseCall
    <2>5. CASE CloseNative
      BY <1>a, <2>1, <2>5 DEF CloseNative, PageType
    <2>6. CASE CloseSession /\ page.ends # 0
      BY <1>a, <2>1, <2>6 DEF CloseSession, PageType
    <2>7. CASE CloseDone \/ Kill \/ (CloseSession /\ page.ends = 0)
      <3>1. page' \in {FreshPage, Closed(page)}
        BY <2>7 DEF CloseDone, Kill, CloseSession
      <3>2. FreshPage.state = "idle" /\ Closed(page).state = "idle"
        BY DEF Closed, FreshPage
      <3>. QED
        BY <3>1, <3>2
    <2>8. CASE Deliver
      BY <2>8, DeliverMentions
    <2>9. CASE UNCHANGED page
      BY <2>1, <2>9
    <2>. QED
      <3>1. \A c \in Calls : Agent(c) \/ AgentFails(c) \/ AgentDies(c) => UNCHANGED page
        BY DEF Agent, AgentStarts, AgentJoins, AgentReady, AgentServes,
               AgentLeaves, AgentGone,
               AgentFails, AgentDies
      <3>2. \A c \in Calls, w \in Writers : Serve(c, w) \/ LoseRequest(c, w) => UNCHANGED page
        BY DEF Serve, DeleteRoom, ReadRow, WriteRow, LoseRequest
      <3>3. Service \/ LoseRoom \/ Reconnecting \/ HangUp \/ Report => UNCHANGED page
        BY DEF Service, StartCall, Join, GoLive, GiveUpCall, LoseRoom,
               Reconnecting, StrayFails, HangUp,
               Destroy, Report
      <3>. QED
        BY <2>2, <2>3, <2>4, <2>5, <2>6, <2>7, <2>8, <2>9, <3>1, <3>2, <3>3
           DEF CallNext, Page, callVars
  <1>2. page'.creating => \E c \in Calls : ~Begun(c)'
    <2>1. CASE SessionCreated
      BY <1>a, <2>1 DEF SessionCreated, PageType
    <2>2. CASE ~SessionCreated
      <3>1. page'.creating => page.creating \/ Click
        <4>1. CASE CloseCall
          BY <1>a, <4>1, ClosingMentions DEF CloseCall
        <4>2. CASE CloseNative \/ CloseSession \/ CloseDone
          BY <1>a, <4>2
             DEF CloseNative, CloseSession, CloseDone, Closed, FreshPage,
                 PageType
        <4>3. CASE Kill
          BY <4>3 DEF Kill, FreshPage
        <4>4. CASE Deliver
          BY <4>4, DeliverMentions
        <4>5. \A c \in Calls : Agent(c) \/ AgentFails(c) \/ AgentDies(c) => UNCHANGED page
          BY DEF Agent, AgentStarts, AgentJoins, AgentReady, AgentServes,
                 AgentLeaves, AgentGone,
                 AgentFails, AgentDies
        <4>6. \A c \in Calls, w \in Writers : Serve(c, w) \/ LoseRequest(c, w) => UNCHANGED page
          BY DEF Serve, DeleteRoom, ReadRow, WriteRow, LoseRequest
        <4>7. Service \/ LoseRoom \/ Reconnecting \/ HangUp \/ Report => UNCHANGED page
          BY DEF Service, StartCall, Join, GoLive, GiveUpCall, LoseRoom,
                 Reconnecting, StrayFails, HangUp,
                 Destroy, Report
        <4>. QED
          BY <2>2, <4>1, <4>2, <4>3, <4>4, <4>5, <4>6, <4>7 DEF CallNext, Page, callVars
      <3>2. page'.creating => \E c \in Calls : ~Begun(c)
        BY <3>1, <1>a DEF Click, PageKnown, Begun
      <3>. QED
        BY <2>2, <3>2, RowsStay
    <2>. QED
      BY <2>1, <2>2
  <1>. QED
    BY <1>1, <1>2 DEF PageKnown

LEMMA NextKnown ==
    ASSUME CallTypeInv, Known, ServiceInv, [CallNext]_callVars
    PROVE  Known'
  <1>a. \A c \in Calls : Begun(c) => Begun(c)'
    BY RowsStay
  <1>1. TableKnown'
    BY <1>a, NextTableKnown DEF TableKnown
  <1>2. PhoneKnown'
    <2>1. CallTypeInv'
      BY NextTypes
    <2>2. CASE ~SessionCreated
      <3>1. Mentions(page', svc', current', intents', events', reports')
        BY <2>2, NextMentions
      <3>2. \A i \in Range(intents') : i \in Calls
        BY <2>1, RangeIn DEF CallTypeInv, PhoneTypes
      <3>3. \A e \in Range(events') : e.call # 0 => e.call \in Calls
        <4>1. \A e \in Range(events') : e \in EventType
          BY <2>1, RangeIn DEF CallTypeInv, PhoneTypes
        <4>. QED
          BY <4>1 DEF EventType, SomeCall
      <3>4. \A r \in Range(reports') : r.call \in Calls
        <4>1. \A r \in Range(reports') : r \in ReportType
          BY <2>1, RangeIn DEF CallTypeInv, PhoneTypes
        <4>. QED
          BY <4>1 DEF ReportType
      <3>. QED
        BY <1>a, <3>1, <3>2, <3>3, <3>4 DEF PhoneKnown, Mentions
    <2>3. CASE SessionCreated
      <3>1. PICK n \in Calls : n = Upcoming
        BY <2>3, UpcomingIsNew DEF SessionCreated, Known, PageKnown
      <3>2. row' = [row EXCEPT ![n].status = "created"] /\ page' = [page EXCEPT !.creating = FALSE, !.call = n]
            /\ intents' = Append(intents, n) /\ UNCHANGED <<svc, current, events, reports>>
        BY <2>3, <3>1 DEF SessionCreated, ConnectCall
      <3>3. Begun(n)'
        BY <3>1, <3>2 DEF Begun, CallTypeInv, TableTypes, RowType
      <3>4. Range(intents') = Range(intents) \cup {n} /\ Range(intents) \subseteq Calls
        BY <3>1, <3>2, AppendRange, RangeIn DEF CallTypeInv, PhoneTypes
      <3>5. page'.call = n /\ page'.ends = page.ends
        BY <3>2 DEF CallTypeInv, PhoneTypes, PageType
      <3>6. \A e \in Range(events') : e.call # 0 => e.call \in Calls
        <4>1. \A e \in Range(events') : e \in EventType
          BY <2>1, RangeIn DEF CallTypeInv, PhoneTypes
        <4>. QED
          BY <4>1 DEF EventType, SomeCall
      <3>7. \A r \in Range(reports') : r.call \in Calls
        <4>1. \A r \in Range(reports') : r \in ReportType
          BY <2>1, RangeIn DEF CallTypeInv, PhoneTypes
        <4>. QED
          BY <4>1 DEF ReportType
      <3>. QED
        BY <1>a, <3>2, <3>3, <3>4, <3>5, <3>6, <3>7 DEF PhoneKnown, Mentions, Known
    <2>. QED
      BY <2>2, <2>3
  <1>. QED
    BY <1>1, <1>2, NextPageKnown DEF Known

(*------------------- what is left to do for a call ------------------------*)
LEMMA ExcusesStay == ASSUME [CallNext]_callVars PROVE excused \subseteq excused'
  <1>1. \A c \in Calls : Agent(c) \/ AgentFails(c) \/ AgentDies(c) => excused \subseteq excused'
    BY DEF Agent, AgentStarts, AgentJoins, AgentReady, AgentServes,
           AgentLeaves, AgentGone,
           AgentFails, AgentDies, Fault
  <1>2. \A c \in Calls, w \in Writers : Serve(c, w) \/ LoseRequest(c, w) => excused \subseteq excused'
    BY DEF Serve, DeleteRoom, ReadRow, WriteRow, LoseRequest, Fault
  <1>3. Service \/ LoseRoom \/ Reconnecting \/ HangUp \/ Report => excused \subseteq excused'
    BY DEF Service, StartCall, Join, GoLive, GiveUpCall, LoseRoom,
           Reconnecting, StrayFails, HangUp,
           Destroy, Report, Fault
  <1>4. Click \/ CloseCall \/ Page => excused \subseteq excused'
    BY DEF Click, CloseCall, Page, SessionCreated, CloseNative,
           CloseSession, CloseDone, Deliver, Fault
  <1>5. Kill => excused \subseteq excused'
    BY DEF Kill
  <1>. QED
    BY <1>1, <1>2, <1>3, <1>4, <1>5 DEF CallNext, callVars

LEMMA EndedIsFinal ==
    ASSUME NEW s \in Statuses, NEW want \in Statuses
    PROVE  Moved("ended", want) = "ended" /\ Moved(s, "ended") = "ended"
  BY DEF Moved, Moves, Statuses, Active

LEMMA RoomDebt ==
    ASSUME CallTypeInv, Known, ServiceInv, NEW c \in Calls, c \notin excused',
           Debt(c),
           NEW d \in Calls,
           \/ Agent(d) \/ AgentFails(d) \/ AgentDies(d)
           \/ \E w \in Writers : Serve(d, w) \/ LoseRequest(d, w)
    PROVE  Debt(c)'
  <1>a. /\ row \in [Calls -> RowType] /\ req \in [Calls -> [Writers -> UpdateType]]
        /\ {"app", "page", "agent", "exit"} = Writers
    BY DEF CallTypeInv, TableTypes, Writers
  <1>1. UNCHANGED <<page, intents, stray, events, reports>>
    BY DEF Agent, AgentStarts, AgentJoins, AgentReady, AgentServes,
           AgentLeaves, AgentGone,
           AgentFails, AgentDies, Serve, DeleteRoom, ReadRow,
           WriteRow, LoseRequest, phone
  <1>2. /\ svc'.call = svc.call /\ svc'.alive = svc.alive /\ svc'.reported = svc.reported
        /\ svc'.at = svc.at
    <2>1. CASE AgentReady(d)
      BY <2>1 DEF AgentReady, CallTypeInv, PhoneTypes, ServiceType
    <2>2. CASE ~AgentReady(d)
      BY <2>2
         DEF Agent, AgentStarts, AgentJoins, AgentServes, AgentLeaves,
             AgentGone,
              AgentFails, AgentDies, Serve, DeleteRoom, ReadRow,
              WriteRow, LoseRequest, phone
    <2>. QED
      BY <2>1, <2>2
  <1>3. /\ Reporting(c) => Reporting(c)'
        /\ Unreported(c) => Unreported(c)'
        /\ Hanging(c) => Hanging(c)'
        /\ StartPending(c) => StartPending(c)'
    BY <1>1, <1>2 DEF Reporting, Unreported, Hanging, StartPending
  <1>4. row[c].status = "ended" \/ Updating(c) => (row[c].status = "ended" \/ Updating(c))'
    <2>1. CASE Agent(d) \/ AgentFails(d) \/ AgentDies(d)
      <3>1. UNCHANGED row
        BY <2>1
           DEF Agent, AgentStarts, AgentJoins, AgentReady, AgentServes,
               AgentLeaves, AgentGone,
               AgentFails, AgentDies, server
      <3>2. \A w \in {"app", "page"} : req'[c][w] = req[c][w]
        <4>1. CASE AgentDies(d)
          BY <1>a, <4>1 DEF AgentDies
        <4>2. CASE AgentJoins(d) \/ AgentServes(d) \/ AgentGone(d)
          BY <4>2 DEF AgentJoins, AgentServes, AgentGone, server
        <4>3. CASE \/ AgentStarts(d) \/ AgentReady(d) \/ AgentFails(d)
                   \/ AgentLeaves(d)
          <5>1. \E v \in {"agent", "exit"}, want \in {"connecting", "connected", "failed", "ended"} :
                   req' = Update(d, v, want)
            BY <4>3 DEF AgentStarts, AgentReady, AgentFails, AgentLeaves
          <5>. QED
            BY <1>a, <5>1 DEF Update
        <4>. QED
          BY <2>1, <4>1, <4>2, <4>3 DEF Agent
      <3>. QED
        BY <3>1, <3>2 DEF Updating
    <2>2. CASE \E w \in Writers : DeleteRoom(d, w) \/ ReadRow(d, w)
      <3>1. UNCHANGED row
        BY <2>2 DEF DeleteRoom, ReadRow
      <3>2. \A w \in {"app", "page"} : /\ req'[c][w].want = req[c][w].want
                                       /\ req[c][w].at # "idle" => req'[c][w].at # "idle"
        <4>1. PICK v \in Writers : DeleteRoom(d, v) \/ ReadRow(d, v)
          BY <2>2
        <4>2. \A w \in Writers : c # d \/ w # v => req'[c][w] = req[c][w]
          BY <1>a, <4>1 DEF DeleteRoom, ReadRow
        <4>3. CASE c = d /\ DeleteRoom(d, v)
          <5>1. req'[c][v] = [req[c][v] EXCEPT !.at = "read", !.gone = row[c].gone \/ Exists(c)]
            BY <1>a, <4>3 DEF DeleteRoom
          <5>2. req[c][v] \in UpdateType
            BY <1>a
          <5>3. req'[c][v].want = req[c][v].want /\ req'[c][v].at # "idle"
            BY <5>1, <5>2 DEF UpdateType
          <5>. QED
            BY <1>a, <4>2, <5>3
        <4>4. CASE c = d /\ ReadRow(d, v)
          <5>1. req'[c][v] = [req[c][v] EXCEPT !.at = "write", !.seen = row[c].status,
                                               !.gone = @ \/ row[c].gone]
            BY <1>a, <4>4 DEF ReadRow
          <5>2. req[c][v] \in UpdateType
            BY <1>a
          <5>3. req'[c][v].want = req[c][v].want /\ req'[c][v].at # "idle"
            BY <5>1, <5>2 DEF UpdateType
          <5>. QED
            BY <1>a, <4>2, <5>3
        <4>. QED
          BY <1>a, <4>1, <4>2, <4>3, <4>4
      <3>. QED
        BY <3>1, <3>2 DEF Updating
    <2>3. ASSUME NEW w \in Writers, WriteRow(d, w)
          PROVE  row[c].status = "ended" \/ Updating(c) => (row[c].status = "ended" \/ Updating(c))'
      <3>1. CASE c # d
        <4>1. row'[c] = row[c] /\ req'[c] = req[c]
          BY <1>a, <2>3, <3>1 DEF WriteRow
        <4>. QED
          BY <4>1 DEF Updating
      <3>2. CASE c = d
        <4>1. req[c][w].seen = row[c].status
          BY <2>3, <3>2 DEF WriteRow
        <4>2. row'[c].status = Moved(row[c].status, req[c][w].want)
          BY <1>a, <2>3, <3>2, <4>1 DEF WriteRow
        <4>3. row[c].status \in Statuses /\ req[c][w].want \in Statuses
          BY <1>a, <4>1 DEF UpdateType
        <4>4. row[c].status = "ended" \/ req[c][w].want = "ended" => row'[c].status = "ended"
          BY <4>2, <4>3, EndedIsFinal
        <4>5. \A v \in Writers : v # w => req'[c][v] = req[c][v]
          BY <1>a, <2>3, <3>2 DEF WriteRow
        <4>. QED
          BY <1>a, <4>4, <4>5 DEF Updating
      <3>. QED
        BY <3>1, <3>2
    <2>4. CASE \E w \in Writers : LoseRequest(d, w)
      <3>1. UNCHANGED row /\ c # d
        BY <2>4 DEF LoseRequest, Fault
      <3>2. req'[c] = req[c]
        BY <1>a, <2>4, <3>1 DEF LoseRequest
      <3>. QED
        BY <3>1, <3>2 DEF Updating
    <2>. QED
      BY <2>1, <2>2, <2>3, <2>4 DEF Serve
  <1>. QED
    BY <1>3, <1>4 DEF Debt

(* To stop reports the end of the call of the service.                      *)
LEMMA StopDebt ==
    ASSUME CallTypeInv, Known, ServiceInv, svc.alive, NEW status \in Ending, Stop(status),
           UNCHANGED server,
           page'.ends = page.ends, page.closing \in {"native", "end"} => page'.closing \in {"native", "end"},
           NEW c \in Calls, Debt(c), ~StartPending(c)
    PROVE  Debt(c)'
  <1>1. /\ current' = [status |-> status, call |-> svc.call]
        /\ reports' = IF svc.reported THEN reports ELSE Append(reports, current')
    BY StopDoes DEF CallTypeInv
  <1>2. ~svc.reported => current' \in ReportType
    <2>1. svc.call \in Calls
      BY DEF ServiceInv, CallTypeInv, PhoneTypes, ServiceType, SomeCall
    <2>. QED
      BY <1>1, <2>1 DEF ReportType, Published, Ending
  <1>3. Range(reports) \subseteq Range(reports') /\ (~svc.reported => current' \in Range(reports'))
    BY <1>1, <1>2, AppendRange DEF CallTypeInv, PhoneTypes
  <1>4. Reporting(c) \/ Unreported(c) => Reporting(c)'
    BY <1>1, <1>3 DEF Reporting, Unreported, Ending
  <1>5. Updating(c) => Updating(c)'
    BY DEF Updating, server
  <1>. QED
    BY <1>4, <1>5 DEF Debt, Hanging, server

LEMMA ReportsGrow ==
    ASSUME NEW s \in Seq(ReportType), NEW e \in ReportType, NEW t, t \in {s, Append(s, e)}
    PROVE  Range(s) \subseteq Range(t)
  <1>1. CASE t = s
    BY <1>1
  <1>2. CASE t = Append(s, e)
    <2>1. Range(t) = Range(s) \cup {e}
      BY <1>2, AppendRange
    <2>. QED
      BY <2>1
  <1>. QED
    BY <1>1, <1>2

LEMMA ServiceDebt ==
    ASSUME CallTypeInv, Known, ServiceInv, NEW c \in Calls, c \notin excused',
           Debt(c),
           Service \/ LoseRoom \/ Reconnecting \/ HangUp \/ Report
    PROVE  Debt(c)'
  <1>a. svc \in ServiceType /\ (svc.at # "off" => svc.alive)
    BY DEF CallTypeInv, PhoneTypes, ServiceInv, NoService
  <1>1. ASSUME UNCHANGED <<server, page, intents, stray, events, reports>>,
               svc'.call = svc.call,
               svc'.alive = svc.alive, svc'.reported = svc.reported, svc.at = "off" => svc'.at = "off"
        PROVE  Debt(c)'
    BY <1>1 DEF Debt, Updating, Reporting, Unreported, Hanging, StartPending, server
  <1>2. CASE StartCall
    <2>. DEFINE s == [NoService EXCEPT !.alive = TRUE, !.call = Head(intents), !.at = "joining"]
    <2>1. Head(intents) \in Calls
      BY <1>2 DEF StartCall, CallTypeInv, PhoneTypes
    <2>2. s \in ServiceType /\ s.alive /\ ~s.reported /\ s.call = Head(intents) /\ "connecting" \in Active
      BY <2>1 DEF ServiceType, NoService, SomeCall, Active
    <2>3. Publish(s, "connecting", Head(intents)) /\ UNCHANGED <<server, page>>
      BY <1>2 DEF StartCall
    <2>. HIDE DEF s
    <2>4. /\ svc' = s /\ current' = [status |-> "connecting", call |-> Head(intents)]
          /\ reports' \in {reports, Append(reports, current')}
      BY <2>2, <2>3, PublishDoes
    <2>5. Range(reports) \subseteq Range(reports')
      <3>1. current' \in ReportType
        BY <2>1, <2>2, <2>4 DEF ReportType, Published
      <3>. QED
        BY <2>4, <3>1, ReportsGrow DEF CallTypeInv, PhoneTypes
    <2>6. ~Unreported(c)
      BY <1>2, <1>a DEF StartCall, Unreported, ServiceInv
    <2>7. StartPending(c) => Unreported(c)'
      BY <2>2, <2>4 DEF StartPending, Unreported
    <2>. QED
      BY <2>3, <2>5, <2>6, <2>7 DEF Debt, Updating, Reporting, Hanging, server
  <1>3. CASE Join
    <2>1. svc' = [svc EXCEPT !.at = "waiting"] /\ svc.at # "off"
      BY <1>3 DEF Join
    <2>2. svc'.call = svc.call /\ svc'.alive = svc.alive /\ svc'.reported = svc.reported
      BY <1>a, <2>1 DEF ServiceType
    <2>. QED
      BY <1>1, <1>3, <2>1, <2>2 DEF Join
  <1>4. CASE GoLive \/ Reconnecting
    <2>1. PICK s \in ServiceType, st \in Active :
             /\ Publish(s, st, svc.call) /\ s.call = svc.call /\ s.alive = svc.alive
             /\ s.reported = svc.reported /\ svc.at # "off" /\ UNCHANGED <<server, page>>
      <3>1. [svc EXCEPT !.at = "live"] \in ServiceType /\ "connected" \in Active /\ "reconnecting" \in Active
        BY <1>a DEF ServiceType, Active
      <3>2. /\ [svc EXCEPT !.at = "live"].call = svc.call /\ [svc EXCEPT !.at = "live"].alive = svc.alive
            /\ [svc EXCEPT !.at = "live"].reported = svc.reported
        BY <1>a DEF ServiceType
      <3>. QED
        BY <1>4, <1>a, <3>1, <3>2 DEF GoLive, Reconnecting
    <2>2. /\ svc' = s /\ current' = [status |-> st, call |-> svc.call]
          /\ reports' \in {reports, Append(reports, current')}
      BY <2>1, PublishDoes
    <2>3. Range(reports) \subseteq Range(reports')
      <3>1. svc.call \in Calls
        BY <1>a, <2>1 DEF ServiceInv, ServiceType, SomeCall
      <3>2. current' \in ReportType
        BY <2>2, <3>1 DEF ReportType, Published
      <3>. QED
        BY <2>2, <3>2, ReportsGrow DEF CallTypeInv, PhoneTypes
    <2>4. ~StartPending(c)
      BY <2>1 DEF StartPending
    <2>. QED
      BY <2>1, <2>2, <2>3, <2>4 DEF Debt, Updating, Reporting, Unreported, Hanging, server
  <1>5. CASE GiveUpCall \/ LoseRoom \/ StrayFails \/ HangUp
    <2>1. svc.alive
      BY <1>5, <1>a DEF GiveUpCall, LoseRoom, StrayFails, HangUp, ServiceInv
    <2>2. ~StartPending(c)
      BY <1>5, <2>1
         DEF GiveUpCall, LoseRoom, StrayFails, HangUp, StartPending, ServiceInv
    <2>3. \E status \in Ending : Stop(status)
      BY <1>5 DEF GiveUpCall, LoseRoom, StrayFails, HangUp, Ending
    <2>4. UNCHANGED <<server, page>>
      BY <1>5 DEF GiveUpCall, LoseRoom, StrayFails, HangUp
    <2>. QED
      BY <2>1, <2>2, <2>3, <2>4, StopDebt
  <1>6. CASE Destroy
    <2>1. ~Unreported(c)
      BY <1>6, <1>a DEF Destroy, Unreported, ServiceInv
    <2>2. UNCHANGED <<server, page, intents, stray, events, reports>> /\ svc'.at = "off"
      BY <1>6 DEF Destroy, NoService
    <2>. QED
      BY <2>1, <2>2 DEF Debt, Updating, Reporting, Hanging, StartPending, server
  <1>7. CASE Report
    <2>. DEFINE r == Head(reports)
                e == [status |-> "ended", call |-> r.call]
    <2>1. reports \in Seq(ReportType) /\ reports # <<>>
      BY <1>7 DEF Report, CallTypeInv, PhoneTypes
    <2>2. r \in ReportType /\ Range(reports) = Range(Tail(reports)) \cup {r}
      BY <2>1, TailRange
    <2>3. e \in ReportType /\ r.call \in Calls
      BY <2>2 DEF ReportType
    <2>4. Range(<<e>> \o Tail(reports)) = Range(Tail(reports)) \cup {e}
      <3>. HIDE DEF e
      <3>. QED
        BY <2>1, <2>3, PushRange
    <2>5. UNCHANGED <<row, page, svc, intents, stray, events>>
      BY <1>7 DEF Report
    <2>6. \A d \in Calls : req[d]["app"].at = "idle"
      BY <1>7 DEF Report, Busy
    <2>7. Updating(c) => Updating(c)'
      <3>1. req'[c]["page"] = req[c]["page"]
        BY <1>7, <2>3 DEF Report, End, Update, CallTypeInv, TableTypes, Writers
      <3>. QED
        BY <2>6, <3>1 DEF Updating
    <2>8. Reporting(c) => Reporting(c)' \/ Updating(c)'
      <3>1. CASE \E x \in Range(Tail(reports)) : x.call = c /\ x.status \in Ending \cup {"ended"}
        <4>1. Range(Tail(reports)) \subseteq Range(reports')
          BY <1>7, <2>4 DEF Report
        <4>. QED
          BY <3>1, <4>1 DEF Reporting
      <3>2. CASE r.call = c /\ r.status = "failed"
        <4>1. reports' = <<e>> \o Tail(reports)
          BY <1>7, <3>2 DEF Report
        <4>2. e.call = c /\ e.status = "ended"
          BY <3>2
        <4>. HIDE DEF e
        <4>. QED
          BY <2>4, <4>1, <4>2 DEF Reporting
      <3>3. CASE r.call = c /\ r.status \in {"ended", "disconnected"}
        <4>0. r.status = "ended" \/ r.status = "disconnected"
          BY <3>3
        <4>1. req' = End(c, "app") \/ req' = Update(c, "app", "ended")
          <5>1. CASE r.status = "ended"
            BY <1>7, <3>3, <5>1 DEF Report
          <5>2. CASE r.status = "disconnected"
            BY <1>7, <3>3, <5>2 DEF Report
          <5>. QED
            BY <4>0, <5>1, <5>2
        <4>2. req'[c]["app"].at \in {"delete", "read"} /\ req'[c]["app"].want = "ended"
          <5>1. "app" \in Writers /\ req \in [Calls -> [Writers -> UpdateType]]
            BY DEF CallTypeInv, TableTypes, Writers
          <5>2. \E u \in {[NoUpdate EXCEPT !.at = "delete", !.want = "ended"],
                          [NoUpdate EXCEPT !.at = "read", !.want = "ended"]} : req'[c]["app"] = u
            BY <4>1, <5>1 DEF End, Update
          <5>. QED
            BY <5>2 DEF NoUpdate
        <4>. QED
          BY <4>2 DEF Updating
      <3>. QED
        BY <2>2, <3>1, <3>2, <3>3 DEF Reporting, Ending
    <2>. QED
      BY <2>5, <2>7, <2>8 DEF Debt, Unreported, Hanging, StartPending
  <1>. QED
    BY <1>2, <1>3, <1>4, <1>5, <1>6, <1>7 DEF Service

(* A page that closes a call goes on with that.                             *)
LEMMA ReactsClosing ==
    ASSUME NEW p \in PageType, NEW e \in EventType, p.closing # "no"
    PROVE  Reacts(p, e).closing = p.closing /\ Reacts(p, e).ends = p.ends
  <1>. DEFINE q == IF e.call # 0 THEN [p EXCEPT !.call = e.call] ELSE p
  <1>1. q \in PageType /\ q.ends = p.ends /\ q.closing = p.closing
    BY DEF EventType, PageType, SomeCall
  <1>. HIDE DEF q
  <1>2. CASE e.status \in Active
    <2>1. Reacts(p, e) = [q EXCEPT !.state = e.status]
      BY <1>2 DEF Reacts, q, Active
    <2>. QED
      BY <1>1, <1>2, <2>1 DEF PageType
  <1>3. CASE e.status \notin Active
    <2>1. Reacts(p, e) \in {Closing(q, "end"), q}
      BY <1>3 DEF Reacts, q
    <2>2. Closing(q, "end") = q
      BY <1>1 DEF Closing
    <2>. QED
      BY <1>1, <2>1, <2>2
  <1>. QED
    BY <1>2, <1>3

LEMMA PageDebt ==
    ASSUME CallTypeInv, Known, ServiceInv, NEW c \in Calls, c \notin excused',
           Begun(c), Debt(c),
           Click \/ CloseCall \/ Page \/ Kill
    PROVE  Debt(c)'
  <1>a. page \in PageType /\ c # 0
    BY VoiceAssumption DEF CallTypeInv, PhoneTypes, VoiceAssumption
  <1>1. CASE Click
    <2>1. /\ page'.call = page.call /\ page'.ends = page.ends /\ page'.closing = page.closing
          /\ UNCHANGED <<row, req, intents, svc, stray, events, reports>>
      BY <1>1, <1>a DEF Click, PageType, phone, server
    <2>. QED
      BY <2>1 DEF Debt, Updating, Reporting, Unreported, Hanging, StartPending
  <1>2. CASE CloseCall
    <2>1. /\ page'.ends = page.call /\ page'.closing = "native" /\ page.closing = "no"
          /\ UNCHANGED <<row, req, svc, reports>>
      BY <1>2, <1>a DEF CloseCall, Closing, PageType, phone, server
    <2>. QED
      BY <2>1 DEF Debt, Updating, Reporting, Unreported, Hanging, StartPending
  <1>3. CASE SessionCreated
    <2>1. PICK n \in Calls : n = Upcoming /\ ~Begun(n)
      BY <1>3, UpcomingIsNew DEF SessionCreated, Known, PageKnown
    <2>2. /\ row' = [row EXCEPT ![n].status = "created"]
          /\ page' = [page EXCEPT !.creating = FALSE, !.call = n]
          /\ UNCHANGED <<req, svc, reports>>
      BY <1>3, <2>1 DEF SessionCreated
    <2>3. c \notin Range(intents) \/ intents = <<>>
      BY <1>3 DEF SessionCreated
    <2>4. intents # <<>> => Head(intents) \in Range(intents)
      BY TailRange DEF CallTypeInv, PhoneTypes
    <2>5. ~StartPending(c)
      BY <2>3, <2>4 DEF StartPending
    <2>6. row'[c] = row[c] /\ page'.ends = page.ends /\ page'.closing = page.closing
      BY <1>a, <2>1, <2>2 DEF Begun, PageType, CallTypeInv, TableTypes
    <2>. QED
      BY <2>2, <2>5, <2>6 DEF Debt, Updating, Reporting, Unreported, Hanging
  <1>4. CASE CloseNative
    <2>1. page'.ends = page.ends /\ page'.closing = "end" /\ ~StartPending(c) /\ UNCHANGED server
      BY <1>4, <1>a DEF CloseNative, PageType, StartPending
    <2>2. CASE svc.alive /\ svc.stopping
      <3>1. UNCHANGED <<svc, reports>>
        BY <1>4, <2>2 DEF CloseNative
      <3>. QED
        BY <2>1, <3>1 DEF Debt, Updating, Reporting, Unreported, Hanging, server
    <2>3. CASE svc.alive /\ ~svc.stopping
      <3>1. Stop("disconnected") /\ "disconnected" \in Ending
        BY <1>4, <2>3 DEF CloseNative, Ending
      <3>. QED
        BY <2>1, <2>3, <3>1, StopDebt
    <2>4. CASE ~svc.alive
      <3>1. Publish(svc, "disconnected", current.call) /\ svc = NoService
        BY <1>4, <2>4 DEF CloseNative, ServiceInv
      <3>2. UNCHANGED <<svc, reports>>
        BY <3>1, PublishUnreported
      <3>. QED
        BY <2>1, <3>2 DEF Debt, Updating, Reporting, Unreported, Hanging, server
    <2>. QED
      BY <2>2, <2>3, <2>4
  <1>5. CASE CloseSession
    <2>1. UNCHANGED <<row, phone>> /\ ~StartPending(c)
      BY <1>5 DEF CloseSession, StartPending
    <2>2. CASE page.ends = 0
      <3>1. UNCHANGED req /\ ~Hanging(c)
        BY <1>5, <1>a, <2>2 DEF CloseSession, Hanging
      <3>. QED
        BY <2>1, <3>1 DEF Debt, Updating, Reporting, Unreported, phone
    <2>3. CASE page.ends # 0
      <3>1. PICK d \in Calls : d = page.ends
        BY <2>3 DEF CallTypeInv, PhoneTypes, PageType, SomeCall
      <3>2. req' = End(d, "page")
        BY <1>5, <2>3, <3>1 DEF CloseSession
      <3>3. "page" \in Writers /\ "app" \in Writers /\ req \in [Calls -> [Writers -> UpdateType]]
        BY DEF CallTypeInv, TableTypes, Writers
      <3>4. req'[d]["page"].at # "idle" /\ req'[d]["page"].want = "ended"
        <4>1. req'[d]["page"] = [NoUpdate EXCEPT !.at = "delete", !.want = "ended"]
          BY <3>2, <3>3 DEF End
        <4>. QED
          BY <4>1 DEF NoUpdate
      <3>5. c # d => req'[c] = req[c]
        BY <3>2, <3>3 DEF End
      <3>6. Updating(c) \/ Hanging(c) => Updating(c)'
        BY <3>1, <3>4, <3>5 DEF Updating, Hanging
      <3>. QED
        BY <2>1, <3>6 DEF Debt, Reporting, Unreported, phone
    <2>. QED
      BY <2>2, <2>3
  <1>6. CASE CloseDone
    <2>1. ~Hanging(c) /\ ~StartPending(c) /\ UNCHANGED <<server, phone>>
      BY <1>6 DEF CloseDone, Hanging, StartPending
    <2>. QED
      BY <2>1 DEF Debt, Updating, Reporting, Unreported, server, phone
  <1>7. CASE Deliver
    <2>1. ~StartPending(c) /\ UNCHANGED <<server, svc, reports>>
      BY <1>7 DEF Deliver, StartPending
    <2>2. Hanging(c) => Hanging(c)'
      <3>. DEFINE told == IF page.listening THEN Reacts(page, Head(events)) ELSE page
      <3>1. page.closing # "no" => told.closing = page.closing /\ told.ends = page.ends
        BY <1>7, <1>a, DeliverMentions, ReactsClosing
      <3>2. page' \in {told, Closing(told, "native")}
        BY <1>7 DEF Deliver
      <3>. HIDE DEF told
      <3>3. page.closing # "no" => page' = told
        BY <3>1, <3>2 DEF Closing
      <3>. QED
        BY <3>1, <3>3 DEF Hanging
    <2>. QED
      BY <2>1, <2>2 DEF Debt, Updating, Reporting, Unreported, server
  <1>8. CASE Kill
    <2>1. row[c].status = "ended" /\ UNCHANGED row
      BY <1>8 DEF Kill, Begun
    <2>. QED
      BY <2>1 DEF Debt
  <1>. QED
    BY <1>1, <1>2, <1>3, <1>4, <1>5, <1>6, <1>7, <1>8 DEF Page

(* The call of a new session is about to start, unless another is in the way. *)
LEMMA NewDebt ==
    ASSUME CallTypeInv, Known, ServiceInv, SessionCreated,
           NEW c \in Calls, c \notin excused',
           ~Begun(c), Begun(c)'
    PROVE  Debt(c)'
  <1>1. PICK n \in Calls : n = Upcoming
    BY UpcomingIsNew DEF SessionCreated, Known, PageKnown
  <1>2. /\ row' = [row EXCEPT ![n].status = "created"]
        /\ page' = [page EXCEPT !.creating = FALSE, !.call = n]
        /\ intents' = Append(intents, n) /\ UNCHANGED <<svc, stray, events>>
    BY <1>1 DEF SessionCreated, ConnectCall
  <1>3. c = n
    BY <1>2 DEF Begun, CallTypeInv, TableTypes
  <1>4. svc.at = "off" /\ intents = <<>> /\ page.closing = "no"
    BY <1>1, <1>3 DEF SessionCreated
  <1>5. Head(intents') = n /\ intents' # <<>>
    BY <1>2, <1>4
  <1>6. page'.call = n /\ page'.closing = "no"
    BY <1>2, <1>4 DEF CallTypeInv, PhoneTypes, PageType
  <1>7. events = <<>> /\ ~stray
    BY DEF SessionCreated, Settled
  <1>. QED
    BY <1>2, <1>3, <1>4, <1>5, <1>6, <1>7 DEF Debt, StartPending

LEMMA NextDebt ==
    ASSUME CallTypeInv, Known, ServiceInv, CallDebtInv, [CallNext]_callVars
    PROVE  CallDebtInv'
  <1>. SUFFICES ASSUME NEW c \in Calls, c \notin excused', Begun(c)'
                PROVE  Debt(c)'
    BY DEF CallDebtInv
  <1>1. Begun(c) => Debt(c)
    BY ExcusesStay DEF CallDebtInv
  <1>2. CASE ~Begun(c)
    <2>1. SessionCreated
      BY <1>2, RowsStay
    <2>. QED
      BY <1>2, <2>1, NewDebt
  <1>3. CASE Begun(c)
    <2>1. CASE UNCHANGED callVars
      BY <1>1, <1>3, <2>1
         DEF callVars, server, phone, Debt, Updating, Reporting, Unreported, Hanging,
             StartPending
    <2>2. CASE \E d \in Calls : \/ Agent(d) \/ AgentFails(d) \/ AgentDies(d)
                                \/ \E w \in Writers : Serve(d, w) \/ LoseRequest(d, w)
      BY <1>1, <1>3, <2>2, RoomDebt
    <2>3. CASE Service \/ LoseRoom \/ Reconnecting \/ HangUp \/ Report
      BY <1>1, <1>3, <2>3, ServiceDebt
    <2>4. CASE Click \/ CloseCall \/ Page \/ Kill
      BY <1>1, <1>3, <2>4, PageDebt
    <2>. QED
      BY <2>1, <2>2, <2>3, <2>4 DEF CallNext
  <1>. QED
    BY <1>2, <1>3

-----------------------------------------------------------------------------
(* Who owes connectCall its answer *)

Answering(e) == e.status \in {"connected", "failed", "disconnected"}

(* While connectCall waits, its intent is the last one queued; or none is,  *)
(* and the service tries this very call, or a state that answers is on its  *)
(* way to the plugin (connectCall, onStateChanged).                         *)
AnswerIsOwed ==
    pending # 0 =>
        \/ intents # <<>> /\ intents[Len(intents)] = pending
        \/ /\ intents = <<>>
           /\ \/ Waits(svc) /\ svc.call = pending
              \/ \E e \in Range(events) : Answering(e)

(* Whoever stops to try publishes an answer.                                *)
LEMMA OwedStays ==
    ASSUME AnswerIsOwed, UNCHANGED <<pending, intents>>, Range(events) \subseteq Range(events'),
           Waits(svc) => \/ Waits(svc') /\ svc'.call = svc.call
                         \/ \E e \in Range(events') : Answering(e)
    PROVE  AnswerIsOwed'
  BY DEF AnswerIsOwed

LEMMA StopAnswers ==
    ASSUME CallTypeInv, ServiceInv, svc.alive, NEW status \in Ending, Stop(status),
           AnswerIsOwed, UNCHANGED <<pending, intents>>
    PROVE  AnswerIsOwed'
  <1>1. events' = Append(events, current') /\ current' = [status |-> status, call |-> svc.call]
    BY StopDoes DEF CallTypeInv
  <1>2. events \in Seq(EventType) /\ current' \in EventType
    BY <1>1 DEF CallTypeInv, PhoneTypes, ServiceType, EventType, Published
  <1>3. Range(events') = Range(events) \cup {current'}
    BY <1>1, <1>2, AppendRange
  <1>4. Answering(current')
    BY <1>1 DEF Answering, Ending
  <1>. QED
    BY <1>3, <1>4, OwedStays

LEMMA PublishAnswers ==
    ASSUME CallTypeInv, NEW s \in ServiceType, NEW status \in Active, NEW c \in SomeCall,
           Publish(s, status, c)
    PROVE  /\ svc' = s
           /\ \E e : /\ e.status = status
                     /\ Range(events') = Range(events) \cup {e}
  <1>1. svc' = s /\ events' = Append(events, current')
        /\ current' = [status |-> status, call |-> c]
    BY PublishDoes
  <1>2. events \in Seq(EventType) /\ current' \in EventType
    BY <1>1 DEF CallTypeInv, PhoneTypes, EventType, Published
  <1>3. Range(events') = Range(events) \cup {current'}
    BY <1>1, <1>2, AppendRange
  <1>. QED
    BY <1>1, <1>3

LEMMA StartOwes ==
    ASSUME CallTypeInv, AnswerIsOwed, StartCall
    PROVE  AnswerIsOwed'
  <1>1. intents \in Seq(Calls) /\ intents # <<>> /\ intents' = Tail(intents) /\ pending' = pending
    BY DEF StartCall, CallTypeInv, PhoneTypes
  <1>. DEFINE c == Head(intents)
              s == [NoService EXCEPT !.alive = TRUE, !.call = c, !.at = "joining"]
  <1>2. c \in Calls /\ c \in SomeCall
    BY <1>1 DEF SomeCall
  <1>3. s \in ServiceType /\ s.at = "joining" /\ s.call = c
    BY <1>2 DEF NoService, ServiceType
  <1>4. Publish(s, "connecting", c)
    BY DEF StartCall
  <1>. HIDE DEF s
  <1>5. svc' = s
    BY <1>2, <1>3, <1>4, PublishAnswers DEF Active
  <1>6. Waits(svc') /\ svc'.call = c
    BY <1>3, <1>5 DEF Waits
  <1>7. ASSUME pending # 0 PROVE intents[Len(intents)] = pending
    BY <1>1, <1>7 DEF AnswerIsOwed
  <1>8. CASE Tail(intents) = <<>>
    <2>1. Len(Tail(intents)) = Len(intents) - 1 /\ Len(Tail(intents)) = 0 /\ c = intents[1]
          /\ Len(intents) \in Nat
      BY <1>1, <1>8, TailIs
    <2>2. intents[Len(intents)] = c
      BY <2>1
    <2>. QED
      BY <1>1, <1>6, <1>7, <1>8, <2>2 DEF AnswerIsOwed
  <1>9. CASE Tail(intents) # <<>>
    <2>1. Tail(intents)[Len(Tail(intents))] = intents[Len(intents)]
      BY <1>1, <1>9
    <2>. QED
      BY <1>1, <1>7, <1>9, <2>1 DEF AnswerIsOwed
  <1>. QED
    BY <1>8, <1>9

LEMMA ServiceOwes ==
    ASSUME CallTypeInv, ServiceInv, AnswerIsOwed,
           Service \/ LoseRoom \/ Reconnecting \/ HangUp \/ Report
    PROVE  AnswerIsOwed'
  <1>0. svc \in ServiceType /\ (svc.at # "off" => svc.alive) /\ (stray => svc.alive)
        /\ svc.call \in SomeCall
    BY DEF CallTypeInv, PhoneTypes, ServiceInv, NoService, ServiceType
  <1>1. CASE Join
    BY <1>0, <1>1, OwedStays DEF Join, Waits, ServiceType
  <1>2. CASE GoLive
    <2>. DEFINE s == [svc EXCEPT !.at = "live"]
    <2>1. s \in ServiceType
      BY <1>0 DEF ServiceType
    <2>2. Publish(s, "connected", svc.call) /\ UNCHANGED <<pending, intents>>
      BY <1>2 DEF GoLive
    <2>. HIDE DEF s
    <2>3. PICK e : e.status = "connected" /\ Range(events') = Range(events) \cup {e}
      BY <1>0, <2>1, <2>2, PublishAnswers DEF Active
    <2>. QED
      BY <2>2, <2>3, OwedStays DEF Answering
  <1>3. CASE GiveUpCall \/ LoseRoom \/ StrayFails
    BY <1>0, <1>3, StopAnswers DEF GiveUpCall, LoseRoom, StrayFails, Ending
  <1>4. CASE HangUp
    BY <1>4, StopAnswers DEF HangUp, Ending
  <1>5. CASE Reconnecting
    <2>1. PICK e : Range(events') = Range(events) \cup {e}
      BY <1>0, <1>5, PublishAnswers DEF Reconnecting, Active
    <2>2. ~Waits(svc)
      BY <1>5 DEF Reconnecting, Waits
    <2>. QED
      BY <1>5, <2>1, <2>2, OwedStays DEF Reconnecting
  <1>6. CASE Destroy
    BY <1>6, OwedStays DEF Destroy, ServiceInv, Waits
  <1>7. CASE Report
    BY <1>7 DEF Report, AnswerIsOwed, Waits
  <1>. QED
    BY <1>1, <1>2, <1>3, <1>4, <1>5, <1>6, <1>7, StartOwes DEF Service

LEMMA PageOwes ==
    ASSUME CallTypeInv, AnswerIsOwed, Click \/ CloseCall \/ Page \/ Kill
    PROVE  AnswerIsOwed'
  <1>1. CASE SessionCreated
    <2>1. intents \in Seq(Calls) /\ intents' = Append(intents, Upcoming) /\ pending' = Upcoming
      BY <1>1 DEF SessionCreated, ConnectCall, CallTypeInv, PhoneTypes
    <2>2. intents' # <<>> /\ intents'[Len(intents')] = Upcoming
      BY <2>1
    <2>. QED
      BY <2>1, <2>2 DEF AnswerIsOwed
  <1>2. CASE Deliver
    <2>. DEFINE e == Head(events)
    <2>1. events \in Seq(EventType) /\ events # <<>> /\ events' = Tail(events)
          /\ UNCHANGED <<intents, svc>>
      BY <1>2 DEF Deliver, CallTypeInv, PhoneTypes
    <2>2. Range(events) = Range(events') \cup {e}
      BY <2>1, TailRange
    <2>3. pending' # 0 => pending' = pending /\ ~Answering(e)
      BY <1>2 DEF Deliver, Answering
    <2>. QED
      BY <2>1, <2>2, <2>3 DEF AnswerIsOwed, Waits
  <1>3. CASE CloseNative \/ Kill
    BY <1>3 DEF CloseNative, Kill, AnswerIsOwed
  <1>4. CASE Click \/ CloseCall \/ CloseSession \/ CloseDone
    BY <1>4 DEF Click, CloseCall, CloseSession, CloseDone, phone, AnswerIsOwed, Waits
  <1>. QED
    BY <1>1, <1>2, <1>3, <1>4 DEF Page

LEMMA NextOwes ==
    ASSUME CallTypeInv, ServiceInv, AnswerIsOwed, [CallNext]_callVars
    PROVE  AnswerIsOwed'
  <1>0. svc \in ServiceType
    BY DEF CallTypeInv, PhoneTypes
  <1>1. ASSUME NEW c \in Calls, Agent(c) \/ AgentFails(c) \/ AgentDies(c)
        PROVE  AnswerIsOwed'
    <2>1. CASE AgentReady(c)
      BY <1>0, <2>1, OwedStays DEF AgentReady, AgentDoes, Waits, ServiceType
    <2>2. CASE UNCHANGED phone
      BY <2>2 DEF phone, AnswerIsOwed, Waits
    <2>. QED
      BY <1>1, <2>1, <2>2
         DEF Agent, AgentStarts, AgentJoins, AgentServes, AgentLeaves, AgentGone, AgentFails,
             AgentDies
  <1>2. ASSUME NEW c \in Calls, NEW w \in Writers, Serve(c, w) \/ LoseRequest(c, w)
        PROVE  AnswerIsOwed'
    BY <1>2 DEF Serve, DeleteRoom, ReadRow, WriteRow, LoseRequest, phone, AnswerIsOwed, Waits
  <1>3. CASE UNCHANGED callVars
    BY <1>3 DEF callVars, phone, AnswerIsOwed, Waits
  <1>. QED
    BY <1>1, <1>2, <1>3, ServiceOwes, PageOwes DEF CallNext
-----------------------------------------------------------------------------
CallInv == CallTypeInv /\ Known /\ ServiceInv /\ MicIsVisible /\ CallDebtInv

LEMMA CallIsOver == ASSUME CallTypeInv, CallDebtInv PROVE EndedWhenOver
  <1>. SUFFICES ASSUME NEW c \in Calls, Over(c), c \notin excused
                PROVE  row[c].status = "ended"
    BY DEF EndedWhenOver
  <1>1. Debt(c)
    BY DEF CallDebtInv, Over, Begun
  <1>2. ~Updating(c)
    BY DEF Over, Updating, Writers
  <1>3. ~Reporting(c)
    BY DEF Over, Reporting, Range
  <1>4. intents # <<>> => Head(intents) # c
    BY TailRange DEF Over, CallTypeInv, PhoneTypes
  <1>. QED
    BY <1>1, <1>2, <1>3, <1>4 DEF Debt, Over, Unreported, Hanging, StartPending

LEMMA CallTypes == ASSUME CallTypeInv, ServiceInv PROVE CallTypeOK
  <1>1. \A c \in Calls : row[c].status \in {"none"} \cup DOMAIN Moves
    BY DEF CallTypeInv, TableTypes, RowType, Statuses, Moves
  <1>2. /\ joined \subseteq Calls \cap {svc.call} /\ excused \subseteq Calls
        /\ pending \in Calls \cup {0} /\ svc.call \in Calls \cup {0}
        /\ current.status \in Active \cup Terminal
    BY DEF CallTypeInv, TableTypes, PhoneTypes, ServiceType, SomeCall, ServiceInv
  <1>. QED
    BY <1>1, <1>2 DEF CallTypeOK

LEMMA CallInductive ==
    (CallInit => CallInv) /\ (CallInv /\ [CallNext]_callVars => CallInv')
  <1>1. CallInit => CallInv
    <2>1. ASSUME CallInit PROVE CallDebtInv
      BY <2>1 DEF CallInit, CallDebtInv, Begun
    <2>. QED
      BY <2>1, InitTypes, InitKnown, InitService DEF CallInv
  <1>2. ASSUME CallInv, [CallNext]_callVars PROVE CallInv'
    BY <1>2, NextTypes, NextKnown, NextService, NextDebt DEF CallInv
  <1>. QED
    BY <1>1, <1>2

LEMMA CallAlways ==
    CallSpec => []CallInv
  <1>1. CallInit => CallInv
    BY CallInductive
  <1>2. CallInv /\ [CallNext]_callVars => CallInv'
    BY CallInductive
  <1>. QED
    BY <1>1, <1>2, PTL DEF CallSpec

(* Rows, rooms, page and service keep their types, and the phone is in no   *)
(* room but that of the call its service has (LiveKitCallService.connect).  *)
THEOREM CallTypesHold ==
    CallSpec => []CallTypeOK
  <1>1. CallInv => CallTypeOK
    BY CallTypes DEF CallInv
  <1>. QED
    BY <1>1, CallAlways, PTL

(* While the microphone is open the app shows this very call, however many  *)
(* calls there are, and whatever a coroutine of an earlier one still does   *)
(* (publishState, teardownRoom).                                            *)
THEOREM MicAlwaysVisible ==
    CallSpec => []MicIsVisible
  <1>1. CallInv => MicIsVisible
    BY DEF CallInv
  <1>. QED
    BY <1>1, CallAlways, PTL

(* A call nobody has anything left to do for is ended in the table, but for *)
(* the excuses of EndedWhenOver (reportState, close, end_session).          *)
THEOREM NoCallIsForgotten ==
    CallSpec => []EndedWhenOver
  <1>1. CallInv => EndedWhenOver
    BY CallIsOver DEF CallInv
  <1>. QED
    BY <1>1, CallAlways, PTL

(* connectCall is not forgotten, for any number of calls: while it waits    *)
(* for its answer there is somebody to give it (connectCall,                *)
(* onStateChanged, publishState).                                           *)
THEOREM ConnectIsNotForgotten ==
    CallSpec => []AnswerIsOwed
  <1>1. CallInit => AnswerIsOwed
    BY DEF CallInit, AnswerIsOwed
  <1>2. CallInv /\ AnswerIsOwed /\ [CallNext]_callVars => AnswerIsOwed'
    BY NextOwes DEF CallInv
  <1>. QED
    BY <1>1, <1>2, CallAlways, PTL DEF CallSpec
=============================================================================
