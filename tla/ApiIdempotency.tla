--------------------------- MODULE ApiIdempotency ---------------------------
(***************************************************************************)
(* Write requests that carry one Idempotency-Key: the handler threads of   *)
(* http.py (_begin_idempotency, the handler, _send_json) and the row of    *)
(* the key in api_idempotency (reserve_api_idempotency,                    *)
(* complete_api_idempotency, prune_runtime_records).                       *)
(*                                                                         *)
(* A thread reserves the key, runs its handler, which commits its effect   *)
(* in a transaction of its own, and stores the answer before sending it.   *)
(* A reservation that is Lease old is taken over by the next request.      *)
(* The client may send the request again at any time, answered or not.     *)
(*                                                                         *)
(* An operator X_Slip is X with one mistake in it; no specification uses   *)
(* it, it shows that a property notices the slip.                          *)
(***************************************************************************)
EXTENDS Naturals, FiniteSets

CONSTANTS
    Attempts,       \* requests with the key, each with its thread and token
    Bodies,         \* request fingerprints
    Nobody,         \* no attempt
    Patience,       \* how long a statement waits for the database (5 s)
    Lease,          \* age at which a reservation may be taken over (120 s)
    Abandon,        \* age after which a reservation is pruned (1 day)
    Keep,           \* age after which a stored answer is pruned (7 days)
    LastArrival,    \* bound: time of the last request
    MaxTime,        \* bound: last moment
    MaxFailures     \* bound: threads that end without an answer

ASSUME ApiAssumption ==
    /\ Nobody \notin Attempts
    /\ Patience \in Nat /\ Lease \in Nat \ {0} /\ Abandon \in Nat /\ Keep \in Nat
    /\ Lease <= Abandon
    /\ LastArrival \in Nat /\ MaxTime \in Nat /\ MaxFailures \in Nat

VARIABLES
    clock,      \* the current time
    row,        \* the key's row in api_idempotency
    attempt,    \* the thread of every request
    effects,    \* history: attempts whose handler has committed its effect
    overtaken,  \* history: attempts whose reservation was taken away
    forgotten,  \* history: attempts whose stored answer was pruned
    failures    \* threads that ended without an answer so far

vars == <<clock, row, attempt, effects, overtaken, forgotten, failures>>
-----------------------------------------------------------------------------
(* What a handler says: done, refused (4xx), or a 503 marked retryable.    *)
Outcomes == {"done", "refused", "unavailable"}

Row == [state : {"absent", "reserved", "completed"}, body : Bodies \cup {Nobody},
        token : Attempts \cup {Nobody}, at : 0..MaxTime, answer : Outcomes \cup {"none"}]

NoRow == [state |-> "absent", body |-> Nobody, token |-> Nobody, at |-> 0, answer |-> "none"]

(* answer is what the client is told and source the attempt whose handler  *)
(* said it; the other answers are 409s.                                    *)
Attempt == [pc : {"unsent", "reserve", "run", "send", "over"}, body : Bodies \cup {Nobody},
            now : 0..MaxTime, source : Attempts \cup {Nobody},
            answer : Outcomes \cup {"none", "conflict", "in_flight", "lease_lost"}]

Unsent == [pc |-> "unsent", body |-> Nobody, now |-> 0, source |-> Nobody, answer |-> "none"]

Init ==
    /\ clock = 0
    /\ row = NoRow
    /\ attempt = [n \in Attempts |-> Unsent]
    /\ effects = {} /\ overtaken = {} /\ forgotten = {}
    /\ failures = 0

Tick ==
    /\ clock < MaxTime
    /\ clock' = clock + 1
    /\ UNCHANGED <<row, attempt, effects, overtaken, forgotten, failures>>

(* A request arrives and its thread reads the clock. *)
Arrive(n) ==
    /\ attempt[n].pc = "unsent"
    /\ clock <= LastArrival
    /\ \E body \in Bodies :
          attempt' = [attempt EXCEPT ![n] =
             [Unsent EXCEPT !.pc = "reserve", !.body = body, !.now = clock]]
    /\ UNCHANGED <<clock, row, effects, overtaken, forgotten, failures>>
-----------------------------------------------------------------------------
(* reserve_api_idempotency: one transaction, begun by BEGIN IMMEDIATE.     *)

Expired(n) == row.state = "reserved" /\ row.at + Lease <= attempt[n].now

Reserved(n) ==
    [state |-> "reserved", body |-> attempt[n].body, token |-> n,
     at |-> attempt[n].now, answer |-> "none"]

(* request_fingerprint: a digest of the method, the path and the body.     *)
SameRequest(n) == row.body = attempt[n].body

Reserve(n) ==
    /\ attempt[n].pc = "reserve"
    /\ clock <= attempt[n].now + Patience
    /\ row.state = "absent" \/ (SameRequest(n) /\ Expired(n))
    /\ row' = Reserved(n)
    /\ overtaken' = overtaken \cup ({row.token} \ {Nobody})
    /\ attempt' = [attempt EXCEPT ![n].pc = "run"]
    /\ UNCHANGED <<clock, effects, forgotten, failures>>

Replay(n) ==
    /\ SameRequest(n) /\ row.state = "completed"
    /\ attempt' = [attempt EXCEPT ![n].pc = "over", ![n].answer = row.answer,
                                  ![n].source = row.token]

Refuse(n) ==
    /\ row.state # "absent"
    /\ ~SameRequest(n) \/ (row.state = "reserved" /\ ~Expired(n))
    /\ attempt' = [attempt EXCEPT ![n].pc = "over", ![n].answer =
          IF SameRequest(n) THEN "in_flight" ELSE "conflict"]

(* The key is not free: the request is answered from the row. *)
AnswerAtOnce(n) ==
    /\ attempt[n].pc = "reserve"
    /\ clock <= attempt[n].now + Patience
    /\ Replay(n) \/ Refuse(n)
    /\ UNCHANGED <<clock, row, effects, overtaken, forgotten, failures>>
-----------------------------------------------------------------------------
(* The handler commits its effect, or refuses, or a dependency is down.    *)
Handle(n) ==
    /\ attempt[n].pc = "run"
    /\ \E outcome \in Outcomes :
          /\ attempt' = [attempt EXCEPT ![n].pc = "send", ![n].answer = outcome]
          /\ effects' = IF outcome = "done" THEN effects \cup {n} ELSE effects
    /\ UNCHANGED <<clock, row, overtaken, forgotten, failures>>

(* _send_json stores the answer with complete_api_idempotency, then sends  *)
(* it; whose reservation is gone sends a 409 instead.                      *)
Holds_NoToken(n) == row.state = "reserved"

Holds(n) == row.state = "reserved" /\ row.token = n

Complete(n) ==
    row' = [row EXCEPT !.state = "completed", !.at = clock, !.answer = attempt[n].answer]

Send(n) ==
    /\ attempt[n].pc = "send"
    /\ IF Holds(n)
       THEN /\ Complete(n)
            /\ attempt' = [attempt EXCEPT ![n].pc = "over", ![n].source = n]
       ELSE /\ attempt' = [attempt EXCEPT ![n].pc = "over", ![n].answer = "lease_lost"]
            /\ UNCHANGED row
    /\ UNCHANGED <<clock, effects, overtaken, forgotten, failures>>

(* An exception nobody catches, or a database that stays busy: the         *)
(* connection is closed without an answer and the row stays as it is.      *)
Raise_Releases(n) ==
    /\ attempt[n].pc \in {"reserve", "run", "send"}
    /\ attempt[n].pc = "reserve" => clock > attempt[n].now
    /\ failures < MaxFailures
    /\ failures' = failures + 1
    /\ attempt' = [attempt EXCEPT ![n].pc = "over", ![n].answer = "none"]
    /\ row' = IF Holds(n) THEN NoRow ELSE row
    /\ UNCHANGED <<clock, effects, overtaken, forgotten>>

Raise(n) ==
    /\ attempt[n].pc \in {"reserve", "run", "send"}
    /\ attempt[n].pc = "reserve" => clock > attempt[n].now
    /\ failures < MaxFailures
    /\ failures' = failures + 1
    /\ attempt' = [attempt EXCEPT ![n].pc = "over", ![n].answer = "none"]
    /\ UNCHANGED <<clock, row, effects, overtaken, forgotten>>

(* The process dies with all its threads. *)
Crash ==
    /\ failures < MaxFailures
    /\ \E n \in Attempts : attempt[n].pc \in {"run", "send"}
    /\ failures' = failures + 1
    /\ attempt' = [n \in Attempts |->
          IF attempt[n].pc \in {"reserve", "run", "send"}
          THEN [attempt[n] EXCEPT !.pc = "over", !.answer = "none"] ELSE attempt[n]]
    /\ UNCHANGED <<clock, row, effects, overtaken, forgotten>>

(* prune_runtime_records, by the daily maintenance job *)
Prune_CompletedOnly ==
    /\ row.state = "completed" /\ row.at + Keep < clock
    /\ row' = NoRow
    /\ forgotten' = forgotten \cup {row.token}
    /\ UNCHANGED <<clock, attempt, effects, overtaken, failures>>

Prune ==
    /\ \/ /\ row.state = "completed" /\ row.at + Keep < clock
          /\ forgotten' = forgotten \cup {row.token}
          /\ UNCHANGED overtaken
       \/ /\ row.state = "reserved" /\ row.at + Abandon < clock
          /\ overtaken' = overtaken \cup {row.token}
          /\ UNCHANGED forgotten
    /\ row' = NoRow
    /\ UNCHANGED <<clock, attempt, effects, failures>>
-----------------------------------------------------------------------------
Step(n) == Reserve(n) \/ AnswerAtOnce(n) \/ Handle(n) \/ Send(n)

Next ==
    \/ Tick \/ Prune \/ Crash
    \/ \E n \in Attempts : Arrive(n) \/ Step(n) \/ Raise(n)

Spec == Init /\ [][Next]_vars

(* Maintenance is a periodic job and every call a handler makes has a      *)
(* timeout; that a client tries again is not assumed.                      *)
FairSpec ==
    Spec /\ WF_vars(Tick) /\ WF_vars(Prune) /\ \A n \in Attempts : WF_vars(Step(n))
-----------------------------------------------------------------------------
(* Properties *)

(* Every variable has its type. *)
TypeOK ==
    /\ clock \in 0..MaxTime
    /\ row \in Row
    /\ attempt \in [Attempts -> Attempt]
    /\ effects \subseteq Attempts
    /\ overtaken \subseteq Attempts
    /\ forgotten \subseteq Attempts
    /\ failures \in 0..MaxFailures

Running(n) == attempt[n].pc \in {"run", "send"}

(* Two handlers of one key run at the same time only when the lease of one *)
(* of them is over.                                                        *)
OneRunsAtATime ==
    \A m, n \in Attempts :
        Running(m) /\ Running(n) /\ m # n
            => \/ attempt[m].now + Lease <= clock
               \/ attempt[n].now + Lease <= clock

(* The effect is repeated only by taking a reservation over or after its   *)
(* record was pruned: whoever else ran to the commit owns the row.         *)
RepeatsAreTakeovers ==
    effects \ (overtaken \cup forgotten) \subseteq {row.token}

(* All clients are told one answer, that of the attempt that owns the row; *)
(* a thread that lost its reservation never gets its answer stored.        *)
OneAnswer ==
    {attempt[n].source : n \in Attempts} \ (forgotten \cup {Nobody}) \subseteq {row.token}

(* A replayed answer was given to the same request. *)
ReplayFitsRequest ==
    \A n \in Attempts :
        LET m == attempt[n].source
        IN  m # Nobody => /\ attempt[m].body = attempt[n].body
                          /\ attempt[m].answer = attempt[n].answer

(* A reserved key does not stay reserved, whatever became of its owner,    *)
(* even if the client never asks again.                                    *)
ReservationEnds == row.state = "reserved" ~> row.state # "reserved"

(* "Retrying with a fixed key does not create anything twice." *)
EffectHappensOnce == Cardinality(effects) <= 1

(* A request that was answered "retryable" is run again when it is sent    *)
(* again.                                                                  *)
RetryableIsRetried ==
    \A n \in Attempts :
        attempt[n].source \notin {Nobody, n} => attempt[n].answer # "unavailable"
=============================================================================
