--------------------------- MODULE CompanionTurns ---------------------------
(* The companion's state: one row, companion_state, that every turn, every *)
(* proactive message, every feedback and the hourly decay read, change in  *)
(* memory and write back whole.                                            *)
(*                                                                         *)
(*   runtime/application/runtime.py        chat, proactive_tick,           *)
(*                                         record_outbox_feedback          *)
(*   runtime/application/state_engine.py   what each of them does to it    *)
(*   runtime/application/proactive_engine.py   whether to write first      *)
(*   runtime/domain/state.py               CompanionState                  *)
(*                                                                         *)
(* A chat reads the row, talks to the model for seconds and then saves the *)
(* row it read, changed: what others saved meanwhile is undone.  Each copy *)
(* of the row therefore carries the ghost "log", the turns, messages and   *)
(* answers it is the result of; the properties say what a log obliges to.  *)
(*                                                                         *)
(* Of the row the model keeps what decides about contact: the risk level,  *)
(* dnd_until, last_proactive_at and contact_allowed.  Affects, energy,     *)
(* relationship and the score they give are a choice.  Time passes in      *)
(* units of three hours.                                                   *)
EXTENDS Naturals, Sequences, FiniteSets, TLC

CONSTANTS
    Chats,        \* turns, of a text request or of a voice session
    MaxTime,      \* bound: the clock
    MaxMessages,  \* bound: proactive messages
    MaxDecays,    \* bound: runs of the state_decay_tick job
    Cooldown,     \* 6 hours
    DndSpan       \* 3 hours

ASSUME CompanionAssumption ==
    /\ IsFiniteSet(Chats) /\ Chats \cap {"worker", "api"} = {}
    /\ {MaxTime, MaxMessages, MaxDecays, Cooldown, DndSpan} \subseteq Nat

Never == MaxTime + DndSpan + 1     \* an empty timestamp
Servers == {"worker", "api"}       \* the worker process and an HTTP thread
Actors == Chats \cup Servers

\* What a turn says.  The words are kept as far as the risk checks tell them
\* apart: "ending" is known to the analyzer only, "unease" is not a flag.
UserWords == {"none", "crisis", "ending", "support", "unease"}
ReplyWords == {"none", "crisis", "support"}

VARIABLES
    row,        \* the row of companion_state
    raw,        \* raw_messages and events: [Chats -> roles written]
    outbox,     \* the proactive messages: a sequence of [at, log, answered]
    actor,      \* what each thread is doing
    decays, now

vars == <<row, raw, outbox, actor, decays, now>>

FirstRow == [risk |-> "low", dnd |-> Never, contact |-> Never,
             allowed |-> TRUE, log |-> <<>>]

Idle == [pc |-> "idle", at |-> 0, base |-> FirstRow]

Over(outcome) == [Idle EXCEPT !.pc = outcome]

Init ==
    /\ row = FirstRow
    /\ raw = [c \in Chats |-> {}]
    /\ outbox = <<>>
    /\ actor = [a \in Actors |-> Idle]
    /\ decays = 0
    /\ now = 0

Tick ==
    /\ now < MaxTime
    /\ now' = now + 1
    /\ UNCHANGED <<row, raw, outbox, actor, decays>>

-----------------------------------------------------------------------------
(* The state engine. *)

\* Words of either side raise a flag, words of the user a label.
RiskFlags(user, reply) ==
    (IF "crisis" \in {user, reply} THEN {"high_risk"} ELSE {})
        \cup (IF "support" \in {user, reply} THEN {"support_required"} ELSE {})

RiskLabel(user, flags) ==
    IF "high_risk" \in flags \/ user \in {"crisis", "ending"} THEN "hold"
    ELSE IF "support_required" \in flags \/ user \in {"support", "unease"} THEN "watch"
    ELSE "normal"

\* CompanionState sets the level twice and the engine a third time, from it.
EnergyRisk(risk, flags) == IF flags # {} THEN "elevated" ELSE risk

\* Mutant: ordinary talk ends a crisis.
FlagsRisk_NotSticky(risk, user, flags) ==
    IF "high_risk" \in flags \/ user = "crisis" THEN "high"
    ELSE IF flags # {} \/ user \in {"support", "unease"} THEN "elevated" ELSE "low"

FlagsRisk(risk, user, flags) ==
    IF "high_risk" \in flags \/ user = "crisis" THEN "high"
    ELSE IF flags # {} \/ user \in {"support", "unease"} THEN "elevated"
    ELSE IF risk # "high" THEN "low" ELSE risk

RiskLevelForLabel(label, current) ==
    CASE label = "hold" -> "high"
      [] label = "watch" -> "elevated"
      [] label = "normal" -> IF current = "high" THEN "high" ELSE "low"

\* Every operation ends with the readiness, computed from the risk level.
Ready(s) == [s EXCEPT !.allowed = s.risk # "high"]

Logged(s, kind, at) == [s EXCEPT !.log = Append(@, [kind |-> kind, at |-> at])]

\* CompanionState.apply_turn: the energy first, the flags last.
Told(risk, user, flags) == FlagsRisk(EnergyRisk(risk, flags), user, flags)

ApplyTurn(s, user, reply) ==
    LET flags == RiskFlags(user, reply)
        label == RiskLabel(user, flags)
        told  == Told(s.risk, user, flags)
    IN Logged(Ready([s EXCEPT !.risk = RiskLevelForLabel(label, told)]),
              label, 0)

ApplyTimeDecay(s) == Ready(s)

\* A dismissal forbids contact after the readiness was computed; one in
\* plain words also starts a pause, counted from the time of the answer.
ApplyProactiveFeedback(s, status, at) ==
    CASE status = "welcomed"  -> Ready(s)
      [] status = "dismissed" -> [Ready(s) EXCEPT !.allowed = FALSE]
      [] status = "refused"   -> Logged([Ready(s) EXCEPT !.allowed = FALSE,
                                                         !.dnd = at + DndSpan],
                                        "refused", at)

\* Mutant: the time of the contact is not written down.
MarkProactiveContact_Unmarked(s, at) == Logged(s, "contact", at)

MarkProactiveContact(s, at) == Logged([s EXCEPT !.contact = at], "contact", at)

-----------------------------------------------------------------------------
(* The proactive engine. *)

IsDnd(s, at) == s.dnd # Never /\ at < s.dnd

RecentProactiveCooldown(s, at) == s.contact # Never /\ at < s.contact + Cooldown

HoldReasons(s, at) ==
    {h \in {"dnd", "cooldown", "high_risk"} :
        CASE h = "dnd" -> IsDnd(s, at)
          [] h = "cooldown" -> RecentProactiveCooldown(s, at)
          [] h = "high_risk" -> s.risk = "high"}

\* Quiet hours and the estimate whether the user sleeps or is busy.
Availability == SUBSET {"quiet_hours", "likely_sleeping", "likely_busy"}

\* The score against its threshold, or the roll against the probability.
Gates == BOOLEAN

Due(s, at, absent, open) == HoldReasons(s, at) \cup absent = {} /\ open

\* outbound_permitted: the preferences, the daily limit, the safety policy.
Preferences == SUBSET {"disabled", "kind_disabled", "quiet", "daily_limit"}
Permitted(s, holds) == holds = {} /\ s.risk # "high"

-----------------------------------------------------------------------------
(* The operations. *)

AppendRawMessages(c, roles) == [raw EXCEPT ![c] = @ \cup roles]

\* chat: everything the prompt needs is read, then the model is called.
Ask(c) ==
    /\ actor[c].pc = "idle"
    /\ actor' = [actor EXCEPT ![c] = [@ EXCEPT !.pc = "model", !.base = row]]
    /\ UNCHANGED <<row, raw, outbox, decays, now>>

\* Mutant: what the user said is kept although nobody answered.
CancelChat_KeepsQuestion(c) ==
    /\ actor[c].pc = "model"
    /\ actor' = [actor EXCEPT ![c] = Over("failed")]
    /\ raw' = AppendRawMessages(c, {"user"})
    /\ UNCHANGED <<row, outbox, decays, now>>

\* The listener hung up between two pieces of the answer, or the model failed.
CancelChat(c) ==
    /\ actor[c].pc = "model"
    /\ actor' = [actor EXCEPT ![c] = Over("failed")]
    /\ UNCHANGED <<row, raw, outbox, decays, now>>

\* One transaction: memories, messages, events and the state; before it the
\* answer is parsed and the memories of the turn are extracted, by a model too.
Save(a, s) ==
    /\ row' = s
    /\ actor' = [actor EXCEPT ![a] = IF a \in Chats THEN Over("answered") ELSE Idle]

PersistTurn(c, user, reply) ==
    /\ actor[c].pc = "model"
    /\ Save(c, ApplyTurn(actor[c].base, user, reply))
    /\ raw' = AppendRawMessages(c, {"user", "assistant"})
    /\ UNCHANGED <<outbox, decays, now>>

\* Anything raised inside the transaction rolls all of it back.
RollBack(a) ==
    /\ actor[a].pc \in {"model", "queue", "decay"}
    /\ actor' = [actor EXCEPT ![a] = IF a \in Chats THEN Over("failed") ELSE Idle]
    /\ UNCHANGED <<row, raw, outbox, decays, now>>

\* proactive_tick, up to the decision; the job and the API do the same.
ProactiveTick(a) ==
    /\ actor[a].pc = "idle"
    /\ Len(outbox) + Cardinality({t \in Servers : actor[t].pc = "queue"}) < MaxMessages
    /\ \E absent \in Availability, open \in Gates : Due(row, now, absent, open)
    /\ \E holds \in Preferences : Permitted(row, holds)
    /\ actor' = [actor EXCEPT ![a] = [@ EXCEPT !.pc = "queue", !.at = now, !.base = row]]
    /\ UNCHANGED <<row, raw, outbox, decays, now>>

QueueMessage(a) ==
    LET p == actor[a] IN
    /\ p.pc = "queue"
    /\ outbox' = Append(outbox, [at |-> p.at, log |-> p.base.log, answered |-> FALSE])
    /\ Save(a, MarkProactiveContact(p.base, p.at))
    /\ UNCHANGED <<raw, decays, now>>

\* Feedback reads the row inside its transaction.  The client may say when
\* the answer was given.
RecordFeedback(i, status, at) ==
    /\ actor["api"].pc = "idle"
    /\ ~outbox[i].answered
    /\ outbox' = [outbox EXCEPT ![i].answered = TRUE]
    /\ Save("api", ApplyProactiveFeedback(row, status, at))
    /\ UNCHANGED <<raw, decays, now>>

LoadForDecay ==
    /\ actor["worker"].pc = "idle"
    /\ decays < MaxDecays
    /\ decays' = decays + 1
    /\ actor' = [actor EXCEPT !["worker"] =
                    [@ EXCEPT !.pc = "decay", !.at = now, !.base = row]]
    /\ UNCHANGED <<row, raw, outbox, now>>

SaveDecay ==
    LET p == actor["worker"] IN
    /\ p.pc = "decay"
    /\ Save("worker", ApplyTimeDecay(p.base))
    /\ UNCHANGED <<raw, outbox, decays, now>>

Chat(c) ==
    \/ Ask(c) \/ CancelChat(c)
    \/ \E u \in UserWords, r \in ReplyWords : PersistTurn(c, u, r)

\* /api/proactive/tick, and the worker's job of the same name.
Proactive(a) == ProactiveTick(a) \/ QueueMessage(a)

Next ==
    \/ Tick
    \/ \E c \in Chats : Chat(c)
    \/ \E a \in Servers : Proactive(a)
    \/ \E i \in 1..Len(outbox) :
           \/ \E st \in {"welcomed", "dismissed"} : RecordFeedback(i, st, now)
           \/ \E at \in {0, now} : RecordFeedback(i, "refused", at)
    \/ LoadForDecay \/ SaveDecay
    \/ \E a \in Actors : RollBack(a)

Spec == Init /\ [][Next]_vars

Interchangeable == Permutations(Chats)

-----------------------------------------------------------------------------
(* Properties. *)

\* Every variable has its type: a copy of the row, wherever it is kept, is a
\* row with a log of what it is the result of.
Logs == Seq([kind : {"hold", "watch", "normal", "contact", "refused"}, at : Nat])
Rows == [risk : {"low", "elevated", "high"}, dnd : Nat, contact : Nat,
         allowed : BOOLEAN, log : Logs]
TypeOK ==
    /\ row \in Rows
    /\ raw \in [Chats -> SUBSET {"user", "assistant"}]
    /\ outbox \in Seq([at : 0..MaxTime, log : Logs, answered : BOOLEAN])
    /\ actor \in [Actors -> [pc : {"idle", "model", "queue", "decay", "answered", "failed"},
                              at : 0..MaxTime, base : Rows]]
    /\ decays \in 0..MaxDecays /\ now \in 0..MaxTime

Of(log, kinds) == {i \in DOMAIN log : log[i].kind \in kinds}
Labels == {"hold", "watch", "normal"}
Latest(S) == CHOOSE i \in S : \A j \in S : j <= i

\* The risk level a log stands for: that of the last turn that was not
\* ordinary; a crisis lasts until a turn of lesser worry, a worry one turn.
RiskOf(log) ==
    LET turns == Of(log, Labels)
        telling == Of(log, {"hold", "watch"})
    IN IF telling = {} THEN "low"
       ELSE IF log[Latest(telling)].kind = "hold" THEN "high"
       ELSE IF Latest(telling) = Latest(turns) THEN "elevated" ELSE "low"

\* The three places that set the risk level, one after the other, agree with
\* the labels of the turns; neither ordinary talk, nor the time that passes,
\* nor a friendly answer to a message ends the care a crisis asks for.
RiskFollowsTheTalk == row.risk = RiskOf(row.log)

\* A message the companion writes on its own respects all that the row it
\* was decided on has been through: not six hours after another one, not
\* during the pause the last refusal asked for, not in a crisis.
HoldsAreHeeded ==
    \A i \in DOMAIN outbox :
        LET m == outbox[i]
            contacts == Of(m.log, {"contact"})
            refusals == Of(m.log, {"refused"})
        IN /\ \A c \in contacts : m.at >= m.log[c].at + Cooldown
           /\ refusals # {} => m.at >= m.log[Latest(refusals)].at + DndSpan
           /\ RiskOf(m.log) # "high"

\* A turn is persisted whole, before its answer is returned, or leaves nothing
\* behind, cancelled or failed at any point.
NothingHalfDone ==
    \A c \in Chats :
        raw[c] = IF actor[c].pc = "answered" THEN {"user", "assistant"} ELSE {}

\* Does not hold: a turn that was waiting for the model while a message was
\* queued saves the row without the mark, and six hours become none.
NeverTooSoon ==
    \A i, j \in DOMAIN outbox : i < j => outbox[j].at >= outbox[i].at + Cooldown

=============================================================================
