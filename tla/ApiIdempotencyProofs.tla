------------------------ MODULE ApiIdempotencyProofs ------------------------
(***************************************************************************)
(* Proofs about ApiIdempotency, for every number of requests and bodies    *)
(* and every lease, patience and retention.                                *)
(*                                                                         *)
(* The safety properties speak of histories: who has run, who was told     *)
(* what.  They are inductive together with what the row and the threads    *)
(* say of each other: the row is its owner's (RowInv), a thread that runs  *)
(* still owns it or was overtaken (ThreadInv), whoever was overtaken is    *)
(* late (LateInv), and an answer comes from the row that is completed, or  *)
(* was pruned (AnswerInv).                                                 *)
(*                                                                         *)
(* Two more models of clients whose requests overlap follow.  Routines:    *)
(* what an actor has read and not yet written back is a row as it was when *)
(* the request was allowed (HeldInv).  RealtimeSync: whoever holds ids of  *)
(* SEEN_IDS holds letters that are accounted for (SeenInv), and while the  *)
(* service and the job do not meet, what one of them holds is the          *)
(* preference (AloneInv).                                                  *)
(***************************************************************************)
EXTENDS ApiIdempotency, Routines, RealtimeSync, FiniteSetTheorems, TLAPS

RowInv ==
    /\ row.state = "absent" => row = NoRow
    /\ row.state # "absent" =>
          /\ row.token \in Attempts
          /\ row.body = attempt[row.token].body
          /\ attempt[row.token].pc \notin {"unsent", "reserve"}
    /\ row.state = "reserved" => row.at = attempt[row.token].now
    /\ row.state = "completed" =>
          /\ attempt[row.token].source = row.token
          /\ attempt[row.token].answer = row.answer

ThreadInv ==
    \A n \in Attempts :
        /\ attempt[n].now <= clock
        /\ attempt[n].pc # "over" => attempt[n].source = Nobody
        /\ attempt[n].pc = "send" => attempt[n].answer \in Outcomes
        /\ attempt[n].pc \in {"unsent", "reserve"} => n \notin effects
        /\ Running(n) => Holds(n) \/ n \in overtaken
        /\ n \in effects => row.token = n \/ n \in overtaken \cup forgotten

LateInv ==
    \A n \in overtaken :
        /\ attempt[n].pc \notin {"unsent", "reserve"}
        /\ attempt[n].now + Lease <= clock

AnswerInv ==
    \A n \in Attempts : attempt[n].source # Nobody =>
        LET m == attempt[n].source
        IN  /\ m \in forgotten \/ (row.state = "completed" /\ row.token = m)
            /\ attempt[n].pc = "over" /\ attempt[m].pc = "over"
            /\ attempt[m].body = attempt[n].body
            /\ attempt[m].answer = attempt[n].answer

ApiInv == TypeOK /\ RowInv /\ ThreadInv /\ LateInv /\ AnswerInv
-----------------------------------------------------------------------------
(* Type correctness *)

Places == {"unsent", "reserve", "run", "send", "over"}
Answers == Outcomes \cup {"none", "conflict", "in_flight", "lease_lost"}

LEMMA NoRowType == NoRow \in Row
  BY ApiAssumption DEF NoRow, Row

LEMMA MovedType ==
  ASSUME NEW a \in Attempt, NEW pc \in Places, NEW answer \in Answers,
         NEW source \in Attempts \cup {Nobody}
  PROVE  /\ [a EXCEPT !.pc = pc] \in Attempt
         /\ [a EXCEPT !.pc = pc, !.answer = answer] \in Attempt
         /\ [a EXCEPT !.pc = pc, !.source = source] \in Attempt
         /\ [a EXCEPT !.pc = pc, !.answer = answer, !.source = source] \in Attempt
  BY DEF Attempt, Places, Answers

LEMMA InitTypeOK == Init => TypeOK
  BY ApiAssumption, NoRowType DEF Init, TypeOK, Unsent, Attempt

LEMMA NextTypeOK ==
  ASSUME TypeOK, RowInv, ThreadInv, [Next]_vars
  PROVE  TypeOK'
  <1>. USE DEF TypeOK
  <1>1. CASE Tick
    BY <1>1, ApiAssumption DEF Tick
  <1>2. CASE Prune
    <2>1. row.token \in Attempts
      BY <1>2 DEF Prune, RowInv
    <2>. QED
      BY <1>2, <2>1, NoRowType DEF Prune
  <1>3. CASE Crash
    <2>1. ASSUME NEW n \in Attempts PROVE attempt'[n] \in Attempt
      <3>1. [attempt[n] EXCEPT !.pc = "over", !.answer = "none"] \in Attempt
        BY MovedType DEF Places, Answers
      <3>2. attempt'[n] = IF attempt[n].pc \in {"reserve", "run", "send"}
                         THEN [attempt[n] EXCEPT !.pc = "over", !.answer = "none"]
                         ELSE attempt[n]
        BY <1>3 DEF Crash
      <3>. QED
        BY <3>1, <3>2
    <2>2. failures < MaxFailures /\ failures' = failures + 1
      BY <1>3 DEF Crash
    <2>3. attempt' \in [Attempts -> Attempt]
      BY <1>3, <2>1 DEF Crash
    <2>4. failures' \in 0..MaxFailures
      BY <2>2, ApiAssumption
    <2>5. UNCHANGED <<clock, row, effects, overtaken, forgotten>>
      BY <1>3 DEF Crash
    <2>. QED
      BY <2>3, <2>4, <2>5
  <1>4. ASSUME NEW n \in Attempts, Arrive(n) PROVE TypeOK'
    <2>1. PICK body \in Bodies :
            attempt' = [attempt EXCEPT ![n] =
               [Unsent EXCEPT !.pc = "reserve", !.body = body, !.now = clock]]
      BY <1>4 DEF Arrive
    <2>2. [Unsent EXCEPT !.pc = "reserve", !.body = body, !.now = clock] \in Attempt
      BY DEF Unsent, Attempt
    <2>. QED
      BY <1>4, <2>1, <2>2 DEF Arrive
  <1>5. ASSUME NEW n \in Attempts, Reserve(n) PROVE TypeOK'
    <2>1. attempt[n].body \in Bodies \cup {Nobody} /\ attempt[n].now \in 0..MaxTime
      BY DEF Attempt
    <2>2. row' \in Row
      BY <1>5, <2>1 DEF Reserve, Reserved, Row, Outcomes
    <2>3. attempt' \in [Attempts -> Attempt]
      BY <1>5, MovedType DEF Reserve, Places, Answers
    <2>4. overtaken' \subseteq Attempts
      BY <1>5 DEF Reserve, Row
    <2>. QED
      BY <1>5, <2>2, <2>3, <2>4 DEF Reserve
  <1>6. ASSUME NEW n \in Attempts, AnswerAtOnce(n) PROVE TypeOK'
    <2>1. row.answer \in Answers /\ row.token \in Attempts \cup {Nobody}
      BY DEF Row, Answers
    <2>2. attempt' \in [Attempts -> Attempt]
      <3>1. CASE Replay(n)
        BY <2>1, <3>1, MovedType DEF Replay, Places
      <3>2. CASE Refuse(n)
        BY <3>2, MovedType DEF Refuse, Places, Answers
      <3>. QED
        BY <1>6, <3>1, <3>2 DEF AnswerAtOnce
    <2>. QED
      BY <1>6, <2>2 DEF AnswerAtOnce
  <1>7. ASSUME NEW n \in Attempts, Handle(n) PROVE TypeOK'
    <2>1. PICK outcome \in Outcomes :
            attempt' = [attempt EXCEPT ![n].pc = "send", ![n].answer = outcome]
      BY <1>7 DEF Handle
    <2>2. attempt' \in [Attempts -> Attempt]
      BY <2>1, MovedType DEF Places, Answers
    <2>. QED
      BY <1>7, <2>2 DEF Handle
  <1>8. ASSUME NEW n \in Attempts, Send(n) PROVE TypeOK'
    <2>1. attempt' \in [Attempts -> Attempt]
      <3>1. \/ attempt' = [attempt EXCEPT ![n].pc = "over", ![n].source = n]
            \/ attempt' = [attempt EXCEPT ![n].pc = "over", ![n].answer = "lease_lost"]
        BY <1>8 DEF Send
      <3>2. CASE attempt' = [attempt EXCEPT ![n].pc = "over", ![n].source = n]
        BY <3>2, MovedType DEF Places, Answers
      <3>3. CASE attempt' = [attempt EXCEPT ![n].pc = "over", ![n].answer = "lease_lost"]
        BY <3>3, MovedType DEF Places, Answers
      <3>. QED
        BY <3>1, <3>2, <3>3
    <2>2. row' \in Row
      <3>1. CASE Holds(n)
        <4>1. attempt[n].answer \in Outcomes
          BY <1>8 DEF Send, ThreadInv
        <4>2. row' = [row EXCEPT !.state = "completed", !.at = clock, !.answer = attempt[n].answer]
          BY <1>8, <3>1 DEF Send, Complete
        <4>. QED
          BY <4>1, <4>2 DEF Row
      <3>2. CASE ~Holds(n)
        BY <1>8, <3>2 DEF Send
      <3>. QED
        BY <3>1, <3>2
    <2>. QED
      BY <1>8, <2>1, <2>2 DEF Send
  <1>9. ASSUME NEW n \in Attempts, Raise(n) PROVE TypeOK'
    <2>1. attempt' \in [Attempts -> Attempt]
      BY <1>9, MovedType DEF Raise, Places, Answers
    <2>2. failures' \in 0..MaxFailures
      BY <1>9, ApiAssumption DEF Raise
    <2>. QED
      BY <1>9, <2>1, <2>2 DEF Raise
  <1>10. CASE UNCHANGED vars
    BY <1>10 DEF vars
  <1>. QED
    BY <1>1, <1>2, <1>3, <1>4, <1>5, <1>6, <1>7, <1>8, <1>9, <1>10 DEF Next, Step

-----------------------------------------------------------------------------
(* Preservation of the inductive invariant *)

(* A step that leaves the row and the histories alone, and ends or moves   *)
(* threads without an answer that was stored.                              *)
Quiet(n) ==
    /\ attempt'[n].body = attempt[n].body
    /\ attempt'[n].now = attempt[n].now
    /\ attempt'[n].source = attempt[n].source
    /\ \/ attempt'[n] = attempt[n]
       \/ /\ attempt[n].pc \in {"reserve", "run", "send"}
          /\ attempt'[n].pc = "over"

LEMMA Typed ==
  ASSUME TypeOK
  PROVE  /\ clock \in Nat /\ row.at \in Nat
         /\ row.token \in Attempts \cup {Nobody}
         /\ \A n \in Attempts : /\ attempt[n].now \in Nat
                               /\ attempt[n].source \in Attempts \cup {Nobody}
                               /\ attempt[n].pc \in Places
  BY ApiAssumption DEF TypeOK, Row, Attempt, Places

LEMMA QuietStep ==
  ASSUME ApiInv, TypeOK',
         UNCHANGED <<row, effects, overtaken, forgotten>>, clock <= clock',
         \A n \in Attempts : Quiet(n)
  PROVE  ApiInv'
  <1>. USE Typed DEF ApiInv
  <1>0. Nobody \notin Attempts /\ Lease \in Nat
    BY ApiAssumption
  <1>1. clock \in Nat /\ clock' \in Nat
    BY ApiAssumption DEF TypeOK
  <1>2. \A n \in Attempts : attempt[n].source # Nobody => attempt'[n] = attempt[n]
    BY DEF Quiet, ThreadInv
  <1>3. RowInv'
    BY <1>0, <1>2 DEF RowInv, Quiet
  <1>4. ThreadInv'
    <2>. SUFFICES ASSUME NEW n \in Attempts
                  PROVE  /\ attempt'[n].now <= clock'
                         /\ attempt'[n].pc # "over" => attempt'[n].source = Nobody
                         /\ attempt'[n].pc = "send" => attempt'[n].answer \in Outcomes
                         /\ attempt'[n].pc \in {"unsent", "reserve"} => n \notin effects'
                         /\ Running(n)' => Holds(n)' \/ n \in overtaken'
                         /\ n \in effects' => row'.token = n \/ n \in (overtaken \cup forgotten)'
      BY DEF ThreadInv
    <2>1. Quiet(n)
      OBVIOUS
    <2>. QED
      BY <1>1, <2>1 DEF Quiet, ThreadInv, Running, Holds
  <1>5. LateInv'
    <2>. SUFFICES ASSUME NEW n \in overtaken
                  PROVE  /\ attempt'[n].pc \notin {"unsent", "reserve"}
                         /\ attempt'[n].now + Lease <= clock'
      BY DEF LateInv
    <2>1. n \in Attempts /\ attempt[n].now \in Nat
      BY DEF TypeOK
    <2>. QED
      BY <1>0, <1>1, <2>1 DEF LateInv, Quiet
  <1>6. AnswerInv'
    BY <1>2 DEF AnswerInv, Quiet
  <1>. QED
    BY <1>3, <1>4, <1>5, <1>6

(* One thread moves on: what the invariant asks of it in its new place; of *)
(* the others it asks what it asked before.                                *)
LEMMA ArriveStep ==
  ASSUME ApiInv, TypeOK', NEW n \in Attempts, Arrive(n)
  PROVE  ApiInv'
  <1>. USE Typed DEF ApiInv
  <1>1. PICK body \in Bodies :
          attempt' = [attempt EXCEPT ![n] =
             [Unsent EXCEPT !.pc = "reserve", !.body = body, !.now = clock]]
    BY DEF Arrive
  <1>2. /\ attempt[n].pc = "unsent"
        /\ UNCHANGED <<clock, row, effects, overtaken, forgotten>>
        /\ \A m \in Attempts : m # n => attempt'[m] = attempt[m]
    BY <1>1 DEF Arrive, TypeOK
  <1>3. /\ attempt'[n].pc = "reserve" /\ attempt'[n].now = clock
        /\ attempt'[n].source = Nobody
    BY <1>1 DEF Unsent, TypeOK
  <1>4. row.state # "absent" => row.token # n
    BY <1>2 DEF RowInv
  <1>5. RowInv'
    BY <1>2, <1>4 DEF RowInv
  <1>6. ThreadInv'
    BY <1>2, <1>3 DEF ThreadInv, Running, Holds
  <1>7. LateInv'
    BY <1>2 DEF LateInv, TypeOK
  <1>8. \A m \in Attempts : attempt[m].source # n
    BY <1>2, ApiAssumption DEF AnswerInv
  <1>9. AnswerInv'
    BY <1>2, <1>3, <1>8 DEF AnswerInv
  <1>. QED
    BY <1>5, <1>6, <1>7, <1>9

LEMMA ReserveStep ==
  ASSUME ApiInv, TypeOK', NEW n \in Attempts, Reserve(n)
  PROVE  ApiInv'
  <1>. USE Typed DEF ApiInv
  <1>1. /\ attempt[n].pc = "reserve"
        /\ attempt' = [attempt EXCEPT ![n].pc = "run"]
        /\ row' = [state |-> "reserved", body |-> attempt[n].body, token |-> n,
                   at |-> attempt[n].now, answer |-> "none"]
        /\ overtaken' = overtaken \cup ({row.token} \ {Nobody})
        /\ UNCHANGED <<clock, effects, forgotten>>
        /\ row.state = "absent" \/ (row.state = "reserved" /\ row.at + Lease <= attempt[n].now)
    BY DEF Reserve, Reserved, Expired
  <1>2. /\ \A m \in Attempts : m # n => attempt'[m] = attempt[m]
        /\ attempt'[n].pc = "run" /\ attempt'[n].now = attempt[n].now
        /\ attempt'[n].source = Nobody /\ attempt'[n].body = attempt[n].body
    BY <1>1 DEF TypeOK, Attempt, ThreadInv
  <1>3. row.state = "absent" => row.token = Nobody
    BY DEF RowInv, NoRow
  <1>4. row.state = "reserved" => row.token \in Attempts /\ row.token # n
    BY <1>1 DEF RowInv
  <1>5. RowInv'
    BY <1>1, <1>2 DEF RowInv
  <1>6. n \notin effects /\ n \notin overtaken
    BY <1>1 DEF ThreadInv, LateInv
  <1>7. ThreadInv'
    <2>. SUFFICES ASSUME NEW m \in Attempts
                  PROVE  /\ attempt'[m].now <= clock'
                         /\ attempt'[m].pc # "over" => attempt'[m].source = Nobody
                         /\ attempt'[m].pc = "send" => attempt'[m].answer \in Outcomes
                         /\ attempt'[m].pc \in {"unsent", "reserve"} => m \notin effects'
                         /\ Running(m)' => Holds(m)' \/ m \in overtaken'
                         /\ m \in effects' => row'.token = m \/ m \in (overtaken \cup forgotten)'
      BY DEF ThreadInv
    <2>1. row.token \notin overtaken' => row.token = Nobody
      BY <1>1
    <2>2. CASE m = n
      BY <1>1, <1>2, <1>6, <2>2 DEF ThreadInv, Running, Holds
    <2>3. CASE m # n
      BY <1>1, <1>2, <2>1, <2>3, ApiAssumption DEF ThreadInv, Running, Holds
    <2>. QED
      BY <2>2, <2>3
  <1>8. LateInv'
    <2>1. row.state = "reserved" =>
            /\ attempt[row.token].now + Lease <= clock
            /\ attempt[row.token].pc \notin {"unsent", "reserve"}
      BY <1>1, <1>4, ApiAssumption DEF RowInv, ThreadInv
    <2>2. ASSUME NEW m \in overtaken' PROVE /\ attempt'[m].pc \notin {"unsent", "reserve"}
                                           /\ attempt'[m].now + Lease <= clock'
      <3>1. CASE m \in overtaken
        BY <1>1, <1>2, <1>6, <3>1 DEF LateInv, TypeOK
      <3>2. CASE m \notin overtaken
        BY <1>1, <1>2, <1>3, <1>4, <2>1, <3>2
      <3>. QED
        BY <3>1, <3>2
    <2>. QED
      BY <2>2 DEF LateInv
  <1>9. \A m \in Attempts : attempt[m].source # n
    BY <1>1, ApiAssumption DEF AnswerInv
  <1>10. \A m \in Attempts : attempt[m].source # Nobody => attempt[m].source \in forgotten
    BY <1>1 DEF AnswerInv
  <1>11. AnswerInv'
    BY <1>1, <1>2, <1>9, <1>10 DEF AnswerInv
  <1>. QED
    BY <1>5, <1>7, <1>8, <1>11

LEMMA ReplayStep ==
  ASSUME ApiInv, TypeOK', NEW n \in Attempts, attempt[n].pc = "reserve", Replay(n),
         UNCHANGED <<clock, row, effects, overtaken, forgotten>>
  PROVE  ApiInv'
  <1>. USE Typed DEF ApiInv
  <1>1. /\ row.state = "completed" /\ row.body = attempt[n].body
        /\ attempt' = [attempt EXCEPT ![n].pc = "over", ![n].answer = row.answer,
                                      ![n].source = row.token]
    BY DEF Replay, SameRequest
  <1>2. /\ \A m \in Attempts : m # n => attempt'[m] = attempt[m]
        /\ attempt'[n].pc = "over" /\ attempt'[n].now = attempt[n].now
        /\ attempt'[n].answer = row.answer /\ attempt'[n].source = row.token
        /\ attempt'[n].body = attempt[n].body
    BY <1>1 DEF TypeOK, Attempt
  <1>3. /\ row.token \in Attempts /\ row.token # n
        /\ attempt[row.token].source = row.token
        /\ attempt[row.token].answer = row.answer
        /\ attempt[row.token].body = row.body
    BY <1>1 DEF RowInv
  <1>4. attempt[row.token].pc = "over"
    BY <1>3, ApiAssumption DEF AnswerInv
  <1>5. \A m \in Attempts : attempt[m].source # n
    BY ApiAssumption DEF AnswerInv
  <1>6. RowInv'
    BY <1>1, <1>2, <1>3 DEF RowInv
  <1>7. ThreadInv'
    BY <1>2 DEF ThreadInv, Running, Holds
  <1>8. LateInv'
    BY <1>2 DEF LateInv, TypeOK
  <1>9. AnswerInv'
    <2>. SUFFICES ASSUME NEW m \in Attempts, attempt'[m].source # Nobody
                  PROVE  LET k == attempt'[m].source
                         IN  /\ k \in forgotten' \/ (row'.state = "completed" /\ row'.token = k)
                             /\ attempt'[m].pc = "over" /\ attempt'[k].pc = "over"
                             /\ attempt'[k].body = attempt'[m].body
                             /\ attempt'[k].answer = attempt'[m].answer
      BY DEF AnswerInv
    <2>1. CASE m = n
      BY <2>1, <1>1, <1>2, <1>3, <1>4
    <2>2. CASE m # n
      <3>1. attempt'[m] = attempt[m] /\ attempt[m].source \in Attempts /\ attempt[m].source # n
        BY <2>2, <1>2, <1>5
      <3>2. attempt'[attempt[m].source] = attempt[attempt[m].source]
        BY <3>1, <1>2
      <3>. QED
        BY <3>1, <3>2, <1>1 DEF AnswerInv
    <2>. QED
      BY <2>1, <2>2
  <1>. QED
    BY <1>6, <1>7, <1>8, <1>9

LEMMA HandleStep ==
  ASSUME ApiInv, TypeOK', NEW n \in Attempts, Handle(n)
  PROVE  ApiInv'
  <1>. USE Typed DEF ApiInv
  <1>1. PICK outcome \in Outcomes :
          /\ attempt' = [attempt EXCEPT ![n].pc = "send", ![n].answer = outcome]
          /\ effects' = IF outcome = "done" THEN effects \cup {n} ELSE effects
    BY DEF Handle
  <1>2. attempt[n].pc = "run" /\ UNCHANGED <<clock, row, overtaken, forgotten>>
    BY DEF Handle
  <1>3. /\ \A m \in Attempts : m # n => attempt'[m] = attempt[m]
        /\ attempt'[n].pc = "send" /\ attempt'[n].now = attempt[n].now
        /\ attempt'[n].answer \in Outcomes /\ attempt'[n].source = attempt[n].source
        /\ attempt'[n].body = attempt[n].body
    BY <1>1 DEF TypeOK, Attempt
  <1>4. attempt[n].source = Nobody /\ (Holds(n) \/ n \in overtaken)
    BY <1>2 DEF ThreadInv, Running
  <1>5. effects' \subseteq effects \cup {n}
    BY <1>1
  <1>6. row.state = "completed" => row.token # n
    BY <1>4, ApiAssumption DEF RowInv
  <1>7. RowInv'
    BY <1>2, <1>3, <1>6 DEF RowInv
  <1>8. ThreadInv'
    BY <1>2, <1>3, <1>4, <1>5 DEF ThreadInv, Running, Holds
  <1>9. LateInv'
    BY <1>2, <1>3 DEF LateInv, TypeOK
  <1>10. \A m \in Attempts : attempt[m].source # n
    BY <1>2, ApiAssumption DEF AnswerInv
  <1>11. AnswerInv'
    BY <1>2, <1>3, <1>4, <1>10 DEF AnswerInv
  <1>. QED
    BY <1>7, <1>8, <1>9, <1>11

(* A thread that lost its reservation sends a 409: that is a quiet step.   *)
LEMMA SendStep ==
  ASSUME ApiInv, TypeOK', NEW n \in Attempts, Send(n), Holds(n)
  PROVE  ApiInv'
  <1>. USE Typed DEF ApiInv
  <1>1. /\ attempt[n].pc = "send"
        /\ row' = [row EXCEPT !.state = "completed", !.at = clock, !.answer = attempt[n].answer]
        /\ attempt' = [attempt EXCEPT ![n].pc = "over", ![n].source = n]
        /\ UNCHANGED <<clock, effects, overtaken, forgotten>>
        /\ row.state = "reserved" /\ row.token = n
    BY DEF Send, Complete, Holds
  <1>2. /\ \A m \in Attempts : m # n => attempt'[m] = attempt[m]
        /\ attempt'[n].pc = "over" /\ attempt'[n].now = attempt[n].now
        /\ attempt'[n].answer = attempt[n].answer /\ attempt'[n].source = n
        /\ attempt'[n].body = attempt[n].body
    BY <1>1 DEF TypeOK, Attempt
  <1>3. /\ row'.state = "completed" /\ row'.token = n
        /\ row'.answer = attempt[n].answer /\ row'.body = row.body
    BY <1>1 DEF TypeOK, Row
  <1>4. \A m \in Attempts : attempt[m].source # n
    BY <1>1, ApiAssumption DEF AnswerInv
  <1>5. RowInv'
    BY <1>1, <1>2, <1>3 DEF RowInv
  <1>6. ThreadInv'
    BY <1>1, <1>2, <1>3 DEF ThreadInv, Running, Holds
  <1>7. LateInv'
    BY <1>1, <1>2 DEF LateInv, TypeOK
  <1>8. \A m \in Attempts : attempt[m].source # Nobody => attempt[m].source \in forgotten
    BY <1>1 DEF AnswerInv
  <1>9. AnswerInv'
    <2>. SUFFICES ASSUME NEW m \in Attempts, attempt'[m].source # Nobody
                  PROVE  LET k == attempt'[m].source
                         IN  /\ k \in forgotten' \/ (row'.state = "completed" /\ row'.token = k)
                             /\ attempt'[m].pc = "over" /\ attempt'[k].pc = "over"
                             /\ attempt'[k].body = attempt'[m].body
                             /\ attempt'[k].answer = attempt'[m].answer
      BY DEF AnswerInv
    <2>1. CASE m = n
      BY <2>1, <1>1, <1>2, <1>3, <1>5
    <2>2. CASE m # n
      <3>1. attempt'[m] = attempt[m] /\ attempt[m].source \in Attempts /\ attempt[m].source # n
        BY <2>2, <1>2, <1>4
      <3>2. attempt'[attempt[m].source] = attempt[attempt[m].source]
        BY <3>1, <1>2
      <3>. QED
        BY <3>1, <3>2, <1>1, <1>8 DEF AnswerInv
    <2>. QED
      BY <2>1, <2>2
  <1>. QED
    BY <1>5, <1>6, <1>7, <1>9

LEMMA PruneStep ==
  ASSUME ApiInv, TypeOK', Prune
  PROVE  ApiInv'
  <1>. USE Typed DEF ApiInv
  <1>1. row' = NoRow /\ UNCHANGED <<clock, attempt, effects>>
    BY DEF Prune
  <1>2. /\ row'.state = "absent"
        /\ row.token \in Attempts
    BY <1>1 DEF NoRow, Prune, RowInv
  <1>3. overtaken \subseteq overtaken' /\ forgotten \subseteq forgotten'
    BY DEF Prune
  <1>4. row.token \in overtaken' \cup forgotten'
    BY DEF Prune
  <1>5. RowInv'
    BY <1>1, <1>2 DEF RowInv
  <1>6. \A m \in Attempts : Holds(m) /\ Running(m) => m \in overtaken'
    BY DEF Prune, Holds
  <1>7. ThreadInv'
    <2>. SUFFICES ASSUME NEW m \in Attempts
                  PROVE  /\ attempt'[m].now <= clock'
                         /\ attempt'[m].pc # "over" => attempt'[m].source = Nobody
                         /\ attempt'[m].pc = "send" => attempt'[m].answer \in Outcomes
                         /\ attempt'[m].pc \in {"unsent", "reserve"} => m \notin effects'
                         /\ Running(m)' => Holds(m)' \/ m \in overtaken'
                         /\ m \in effects' => row'.token = m \/ m \in (overtaken' \cup forgotten')
      BY DEF ThreadInv
    <2>. QED
      BY <1>1, <1>3, <1>4, <1>6 DEF ThreadInv, Running
  <1>8. LateInv'
    <2>1. ASSUME NEW m \in overtaken', m \notin overtaken
          PROVE  attempt[m].pc \notin {"unsent", "reserve"} /\ attempt[m].now + Lease <= clock
      <3>1. m = row.token /\ row.state = "reserved" /\ row.at + Abandon < clock
        BY <2>1 DEF Prune
      <3>2. row.at = attempt[m].now /\ attempt[m].pc \notin {"unsent", "reserve"}
        BY <3>1 DEF RowInv
      <3>. QED
        BY <1>2, <3>1, <3>2, ApiAssumption
    <2>. QED
      BY <1>1, <2>1 DEF LateInv
  <1>9. AnswerInv'
    <2>1. row.state = "completed" => row.token \in forgotten'
      BY DEF Prune
    <2>. QED
      BY <1>1, <1>3, <2>1 DEF AnswerInv
  <1>. QED
    BY <1>5, <1>7, <1>8, <1>9

LEMMA InitApiInv == Init => ApiInv
  <1>. SUFFICES ASSUME Init PROVE ApiInv
    OBVIOUS
  <1>1. \A n \in Attempts : /\ attempt[n].pc = "unsent" /\ attempt[n].now = 0
                            /\ attempt[n].source = Nobody
    BY DEF Init, Unsent
  <1>2. /\ row.state = "absent" /\ row = NoRow /\ clock = 0
        /\ effects = {} /\ overtaken = {} /\ forgotten = {}
    BY DEF Init, NoRow
  <1>. QED
    BY InitTypeOK, <1>1, <1>2 DEF ApiInv, RowInv, ThreadInv, LateInv, AnswerInv, Running

LEMMA NextApiInv == ApiInv /\ [Next]_vars => ApiInv'
  <1>. SUFFICES ASSUME ApiInv, [Next]_vars PROVE ApiInv'
    OBVIOUS
  <1>0. TypeOK' /\ clock \in Nat
    BY NextTypeOK, Typed DEF ApiInv
  <1>1. CASE Tick
    <2>1. UNCHANGED <<row, attempt, effects, overtaken, forgotten>> /\ clock' = clock + 1
      BY <1>1 DEF Tick
    <2>. QED
      BY <1>0, <2>1, QuietStep DEF Quiet
  <1>2. CASE Prune
    BY <1>0, <1>2, PruneStep
  <1>3. CASE Crash
    <2>1. UNCHANGED <<clock, row, effects, overtaken, forgotten>>
      BY <1>3 DEF Crash
    <2>2. ASSUME NEW n \in Attempts PROVE Quiet(n)
      <3>1. attempt'[n] = IF attempt[n].pc \in {"reserve", "run", "send"}
                         THEN [attempt[n] EXCEPT !.pc = "over", !.answer = "none"]
                         ELSE attempt[n]
        BY <1>3 DEF Crash
      <3>. QED
        BY <3>1 DEF Quiet, ApiInv, TypeOK, Attempt
    <2>. QED
      BY <1>0, <2>1, <2>2, QuietStep
  <1>4. ASSUME NEW n \in Attempts, Arrive(n) PROVE ApiInv'
    BY <1>0, <1>4, ArriveStep
  <1>5. ASSUME NEW n \in Attempts, Reserve(n) PROVE ApiInv'
    BY <1>0, <1>5, ReserveStep
  <1>6. ASSUME NEW n \in Attempts, AnswerAtOnce(n) PROVE ApiInv'
    <2>1. /\ attempt[n].pc = "reserve"
          /\ UNCHANGED <<clock, row, effects, overtaken, forgotten>>
      BY <1>6 DEF AnswerAtOnce
    <2>2. CASE Replay(n)
      BY <1>0, <2>1, <2>2, ReplayStep
    <2>3. CASE Refuse(n)
      <3>1. \A m \in Attempts : Quiet(m)
        BY <2>1, <2>3 DEF Quiet, Refuse, ApiInv, TypeOK, Attempt
      <3>. QED
        BY <1>0, <2>1, <3>1, QuietStep
    <2>. QED
      BY <1>6, <2>2, <2>3 DEF AnswerAtOnce
  <1>7. ASSUME NEW n \in Attempts, Handle(n) PROVE ApiInv'
    BY <1>0, <1>7, HandleStep
  <1>8. ASSUME NEW n \in Attempts, Send(n) PROVE ApiInv'
    <2>1. CASE Holds(n)
      BY <1>0, <1>8, <2>1, SendStep
    <2>2. CASE ~Holds(n)
      <3>1. /\ attempt[n].pc = "send" /\ UNCHANGED <<clock, row, effects, overtaken, forgotten>>
            /\ attempt' = [attempt EXCEPT ![n].pc = "over", ![n].answer = "lease_lost"]
        BY <1>8, <2>2 DEF Send
      <3>2. \A m \in Attempts : Quiet(m)
        BY <3>1 DEF Quiet, ApiInv, TypeOK, Attempt
      <3>. QED
        BY <1>0, <3>1, <3>2, QuietStep
    <2>. QED
      BY <2>1, <2>2
  <1>9. ASSUME NEW n \in Attempts, Raise(n) PROVE ApiInv'
    <2>1. UNCHANGED <<clock, row, effects, overtaken, forgotten>>
      BY <1>9 DEF Raise
    <2>2. \A m \in Attempts : Quiet(m)
      BY <1>9 DEF Quiet, Raise, ApiInv, TypeOK, Attempt
    <2>. QED
      BY <1>0, <2>1, <2>2, QuietStep
  <1>10. CASE UNCHANGED vars
    <2>1. UNCHANGED <<clock, row, attempt, effects, overtaken, forgotten>>
      BY <1>10 DEF vars
    <2>. QED
      BY <1>0, <2>1, QuietStep DEF Quiet
  <1>. QED
    BY <1>1, <1>2, <1>3, <1>4, <1>5, <1>6, <1>7, <1>8, <1>9, <1>10 DEF Next, Step

LEMMA ApiInvariance == Spec => []ApiInv
  BY InitApiInv, NextApiInv, PTL DEF Spec
-----------------------------------------------------------------------------
(* The results *)

(* Every variable of the threads, of the row and of the histories keeps    *)
(* its type.                                                               *)
THEOREM TypeCorrect == Spec => []TypeOK
  <1>1. ApiInv => TypeOK
    BY DEF ApiInv
  <1>. QED
    BY ApiInvariance, <1>1, PTL

(* Two handlers of one key run at the same time only when the 120 s lease  *)
(* of one of them is over (reserve_api_idempotency).                       *)
THEOREM HandlersExclude == Spec => []OneRunsAtATime
  <1>1. ApiInv => OneRunsAtATime
    BY DEF ApiInv, ThreadInv, LateInv, OneRunsAtATime, Holds
  <1>. QED
    BY ApiInvariance, <1>1, PTL

(* An effect is committed a second time only after the first reservation   *)
(* was taken over or its record was pruned (reserve_api_idempotency,       *)
(* prune_runtime_records).                                                 *)
THEOREM EffectsAreAccounted == Spec => []RepeatsAreTakeovers
  <1>1. ApiInv => RepeatsAreTakeovers
    BY DEF ApiInv, TypeOK, ThreadInv, RepeatsAreTakeovers
  <1>. QED
    BY ApiInvariance, <1>1, PTL

(* Whatever is sent by whichever thread, all requests with the key are     *)
(* told the stored answer of one attempt, until it is pruned               *)
(* (complete_api_idempotency).                                             *)
THEOREM AnswersAgree == Spec => []OneAnswer
  <1>1. ApiInv => OneAnswer
    BY DEF ApiInv, AnswerInv, OneAnswer
  <1>. QED
    BY ApiInvariance, <1>1, PTL

(* A replay repeats the answer its source was given, to the request that   *)
(* source made (request_fingerprint).                                      *)
THEOREM ReplaysFit == Spec => []ReplayFitsRequest
  <1>1. ApiInv => ReplayFitsRequest
    BY DEF ApiInv, AnswerInv, ReplayFitsRequest
  <1>. QED
    BY ApiInvariance, <1>1, PTL

-----------------------------------------------------------------------------
(* Routines: check-ins, activities, diary, steps and calendar *)

(* What an actor holds between its read and its write: the row as it was,   *)
(* and what is wanted of it.  A transition is only wanted of a session that *)
(* is not over, an expiry only of one that runs, and a creation only of an  *)
(* event that is not there.                                                 *)
RoutineRow == [there : BOOLEAN, active : BOOLEAN, schedule : {"daily", "weekly"},
               policy : {"none", "remind"}]
SessionRow == [status : Ended \cup {"none", "planned", "active", "paused"},
               expires : 0..LastDay]
EntryRow == [status : {"none", "draft", "saved", "deleted"}, date : 0..LastDay]
StepRow == [status : {"none", "open", "completed", "cancelled"},
            position : 0..Cardinality(StepIds), dated : BOOLEAN]
EventRow == [status : {"none", "active", "deleted"}, starts : 0..LastDay]

OfRoutine == [op : {"routine"}, row : RoutineIds, seen : RoutineRow]
OfCheckin == [op : {"checkin"}, row : RoutineIds, period : Periods,
              want : {"completed", "skipped"}]
OfTick == [op : {"tick"}, left : (SUBSET RoutineIds) \ {{}}, seen : [RoutineIds -> RoutineRow],
           first : Nat, day : Periods]
OfFocus == [op : {"focus"}, row : SessionIds]
OfSession == [op : {"session"}, row : SessionIds,
              seen : {s \in SessionRow : s.status \notin Ended},
              want : Ended \cup {"active", "paused"}]
OfExpiry == [op : {"expire"}, seen : [SessionIds -> SessionRow], rows : SUBSET SessionIds]
OfEntry == [op : {"diary"}, row : EntryIds, seen : EntryRow]
OfAdd == [op : {"add"}, position : 0..Cardinality(StepIds)]
OfStep == [op : {"step"}, row : StepIds, seen : StepRow]
OfNewEvent == [op : {"new_event"}, row : EventIds, seen : {NoEvent}, want : {"active"},
               starts : 0..LastDay]
OfEvent == [op : {"event"}, row : EventIds, seen : EventRow, want : {"moved", "active", "deleted"},
            starts : 0..LastDay]
Held == {Idle, [op |-> "draft"]} \cup OfRoutine \cup OfCheckin \cup OfTick \cup OfFocus \cup OfSession
          \cup OfExpiry \cup OfEntry \cup OfAdd \cup OfStep \cup OfNewEvent \cup OfEvent

HeldInv ==
    /\ actor \in [Actors -> Held]
    /\ \A a \in Actors : actor[a].op = "expire" =>
          \A s \in actor[a].rows : actor[a].seen[s].status \notin Ended

RowTypes ==
    /\ routine \in [RoutineIds -> RoutineRow]
    /\ checkin \in [RoutineIds -> [Periods -> {"none", "pending", "completed", "skipped"}]]
    /\ session \in [SessionIds -> SessionRow]
    /\ entry \in [EntryIds -> EntryRow]
    /\ step \in [StepIds -> StepRow]
    /\ event \in [EventIds -> EventRow]
    /\ reminders \subseteq RoutineIds \X Periods
Counts == day \in Periods /\ mutations \in 0..MaxMutations /\ crashes \in 0..MaxCrashes
RowsInv == RowTypes /\ Counts /\ HeldInv

(* What an actor holds tells what it is doing.                              *)
LEMMA HeldBy ==
    ASSUME NEW t \in Held
    PROVE  /\ t.op = "routine" => t \in OfRoutine
           /\ t.op = "checkin" => t \in OfCheckin
           /\ t.op = "tick" => t \in OfTick
           /\ t.op = "focus" => t \in OfFocus
           /\ t.op = "session" => t \in OfSession
           /\ t.op = "expire" => t \in OfExpiry
           /\ t.op = "diary" => t \in OfEntry
           /\ t.op = "add" => t \in OfAdd
           /\ t.op = "step" => t \in OfStep
           /\ t.op = "new_event" => t \in OfNewEvent
           /\ t.op = "event" => t \in OfEvent
  BY DEF Held, Idle, OfRoutine, OfCheckin, OfTick, OfFocus, OfSession, OfExpiry, OfEntry,
         OfAdd, OfStep,
         OfNewEvent, OfEvent

LEMMA PeriodOf ==
    ASSUME NEW r \in RoutineRow, NEW d \in Periods
    PROVE  PeriodKey(r, d) \in Periods
  BY RoutinesAssumption DEF RoutinesAssumption, RoutineRow, Periods, PeriodKey

LEMMA InitRows == ASSUME RoutinesInit PROVE RowsInv
  <1>1. RowTypes
    <2>1. /\ NoRoutine \in RoutineRow /\ NoSession \in SessionRow
          /\ NoEntry \in EntryRow /\ NoEvent \in EventRow
      BY RoutinesAssumption DEF NoRoutine, NoSession, NoEntry, NoEvent, RoutineRow, SessionRow,
             EntryRow, EventRow,
             RoutinesAssumption
    <2>2. NoStep \in StepRow
      BY FS_CardinalityType, RoutinesAssumption DEF NoStep, StepRow, RoutinesAssumption
    <2>. QED
      BY <2>1, <2>2 DEF RoutinesInit, RowTypes, NoCheckin
  <1>2. Counts
    BY RoutinesAssumption DEF RoutinesInit, Counts, Periods, RoutinesAssumption
  <1>3. HeldInv
    BY DEF RoutinesInit, HeldInv, Held, Idle
  <1>. QED
    BY <1>1, <1>2, <1>3 DEF RowsInv

(* A read leaves the rows alone, a write and a crash leave nothing in hand. *)
LEMMA ReadHolds ==
    ASSUME RowsInv, NEW a \in Actors, NEW t \in Held, Read(a, t),
           t.op = "expire" => \A s \in t.rows : t.seen[s].status \notin Ended
    PROVE  RowsInv'
  <1>1. RowTypes'
    BY DEF Read, tables, RowsInv, RowTypes
  <1>2. Counts'
    BY RoutinesAssumption DEF Read, Begin, RowsInv, Counts, RoutinesAssumption
  <1>3. HeldInv'
    BY DEF Read, RowsInv, HeldInv
  <1>. QED
    BY <1>1, <1>2, <1>3 DEF RowsInv

LEMMA WritingHolds ==
    ASSUME RowsInv, NEW a \in Actors, NEW op, Writing(a, op)
    PROVE  HeldInv' /\ Counts'
  <1>1. Counts'
    BY DEF Writing, RowsInv, Counts
  <1>2. Idle \in Held /\ Idle.op # "expire"
    BY DEF Held, Idle
  <1>3. HeldInv'
    BY <1>2 DEF Writing, RowsInv, HeldInv
  <1>. QED
    BY <1>1, <1>3

LEMMA RequestHolds ==
    ASSUME RowsInv, NEW a \in Actors,
           Request(a) \/ Calendar(a)
    PROVE  RowsInv'
  <1>. USE DEF RowsInv
  <1>a. \A e \in {0, LastDay} : e \in 0..LastDay
    BY RoutinesAssumption DEF RoutinesAssumption
  <1>1. ASSUME NEW policy \in {"none", "remind"}, CreateRoutine(a, policy) PROVE RowsInv'
    <2>1. [there |-> TRUE, active |-> TRUE, schedule |-> "daily", policy |-> policy] \in RoutineRow
      BY DEF RoutineRow
    <2>2. routine' \in [RoutineIds -> RoutineRow]
      BY <1>1, <2>1 DEF CreateRoutine, RowTypes
    <2>3. RowTypes'
      BY <1>1, <2>2 DEF CreateRoutine, RowTypes
    <2>. QED
      BY <1>1, <2>3, RoutinesAssumption
         DEF CreateRoutine, Begin, Counts, HeldInv, RoutinesAssumption
  <1>2. ASSUME NEW r \in RoutineIds, UpdateRoutineRead(a, r) PROVE RowsInv'
    <2>1. [op |-> "routine", row |-> r, seen |-> routine[r]] \in OfRoutine
      BY DEF OfRoutine, RowTypes
    <2>. QED
      BY <1>2, <2>1, ReadHolds DEF UpdateRoutineRead, Held
  <1>3. ASSUME NEW r \in RoutineIds, NEW st \in {"completed", "skipped"},
               CheckinRoutineRead(a, r, st)
        PROVE  RowsInv'
    <2>. DEFINE p == PeriodKey(routine[r], day)
                t == [op |-> "checkin", row |-> r, period |-> p, want |-> st]
    <2>1. p \in Periods
      BY PeriodOf DEF RowTypes, Counts
    <2>2. t \in OfCheckin /\ t.op # "expire"
      BY <2>1 DEF OfCheckin
    <2>3. Read(a, t)
      BY <1>3 DEF CheckinRoutineRead
    <2>. HIDE DEF t
    <2>. QED
      BY <2>2, <2>3, ReadHolds DEF Held
  <1>4. ASSUME NEW x \in {0, LastDay}, NEW focus \in BOOLEAN, CreateActivity(a, x, focus)
        PROVE  RowsInv'
    <2>1. [status |-> "planned", expires |-> x] \in SessionRow
      BY <1>a DEF SessionRow
    <2>2. PICK s \in SessionIds :
             /\ session' = [session EXCEPT ![s] = [status |-> "planned", expires |-> x]]
             /\ actor' = IF focus THEN [actor EXCEPT ![a] = [op |-> "focus", row |-> s]]
                                  ELSE actor
      BY <1>4 DEF CreateActivity
    <2>3. RowTypes'
      BY <1>4, <2>1, <2>2 DEF CreateActivity, RowTypes
    <2>4. [op |-> "focus", row |-> s] \in Held
      BY DEF OfFocus, Held
    <2>5. HeldInv'
      BY <2>2, <2>4 DEF HeldInv
    <2>. QED
      BY <1>4, <2>3, <2>5, RoutinesAssumption DEF CreateActivity, Begin, Counts, RoutinesAssumption
  <1>5. ASSUME NEW s \in SessionIds, NEW t \in {"active", "paused", "completed", "cancelled"},
               TransitionActivityRead(a, s, t)
        PROVE  RowsInv'
    <2>1. session[s].status \notin Ended
      BY <1>5 DEF TransitionActivityRead, Transitions, Ended
    <2>2. Reading(s, t) \in OfSession /\ Reading(s, t).op # "expire"
      BY <2>1 DEF Reading, OfSession, RowTypes, Ended
    <2>. QED
      BY <1>5, <2>2, ReadHolds DEF TransitionActivityRead, Held
  <1>6. ASSUME NEW e \in EntryIds, UpdateDiaryRead(a, e) PROVE RowsInv'
    <2>1. [op |-> "diary", row |-> e, seen |-> entry[e]] \in OfEntry
      BY DEF OfEntry, RowTypes
    <2>. QED
      BY <1>6, <2>1, ReadHolds DEF UpdateDiaryRead, Held
  <1>7. CASE CreateDiaryEntry(a)
    <2>1. [status |-> "saved", date |-> day] \in EntryRow
      BY RoutinesAssumption DEF EntryRow, Counts, Periods, RoutinesAssumption
    <2>2. RowTypes'
      BY <1>7, <2>1 DEF CreateDiaryEntry, NewEntry, RowTypes
    <2>. QED
      BY <1>7, <2>2, RoutinesAssumption
         DEF CreateDiaryEntry, Begin, Counts, HeldInv, RoutinesAssumption
  <1>8. CASE DraftDiaryRead(a)
    BY <1>8, ReadHolds DEF DraftDiaryRead, Held
  <1>9. CASE AddStepRead(a)
    <2>1. StepCount \in 0..Cardinality(StepIds)
      <3>. DEFINE K == {k \in StepIds : step[k].status # "none"}
      <3>1. K \subseteq StepIds
        OBVIOUS
      <3>2. IsFiniteSet(K) /\ Cardinality(K) <= Cardinality(StepIds)
        BY <3>1, FS_Subset, RoutinesAssumption DEF RoutinesAssumption
      <3>3. Cardinality(K) \in Nat /\ Cardinality(StepIds) \in Nat
        BY <3>2, FS_CardinalityType, RoutinesAssumption DEF RoutinesAssumption
      <3>. QED
        BY <3>2, <3>3 DEF StepCount
    <2>2. [op |-> "add", position |-> StepCount] \in OfAdd
      BY <2>1 DEF OfAdd
    <2>. QED
      BY <1>9, <2>2, ReadHolds DEF AddStepRead, Held
  <1>10. ASSUME NEW k \in StepIds, UpdateStepRead(a, k) PROVE RowsInv'
    <2>1. [op |-> "step", row |-> k, seen |-> step[k]] \in OfStep
      BY DEF OfStep, RowTypes
    <2>. QED
      BY <1>10, <2>1, ReadHolds DEF UpdateStepRead, Held
  <1>11. ASSUME NEW v \in EventIds, CreateEventRead(a, v, 1) PROVE RowsInv'
    <2>1. [op |-> "new_event", row |-> v, seen |-> event[v], want |-> "active", starts |-> 1] \in OfNewEvent
      BY <1>11, RoutinesAssumption DEF CreateEventRead, OfNewEvent, RoutinesAssumption
    <2>. QED
      BY <1>11, <2>1, ReadHolds DEF CreateEventRead, Held
  <1>12. ASSUME NEW v \in EventIds, NEW want \in {"moved", "active", "deleted"},
                UpdateEventRead(a, v, want)
         PROVE  RowsInv'
    <2>1. [op |-> "event", row |-> v, seen |-> event[v], want |-> want, starts |-> LastDay] \in OfEvent
      BY RoutinesAssumption DEF OfEvent, RowTypes, RoutinesAssumption
    <2>. QED
      BY <1>12, <2>1, ReadHolds DEF UpdateEventRead, Held
  <1>. QED
    BY <1>1, <1>2, <1>3, <1>4, <1>5, <1>6, <1>7, <1>8, <1>9, <1>10, <1>11, <1>12
       DEF Request, Calendar

LEMMA WriteHolds ==
    ASSUME RowsInv, NEW a \in Actors, Write(a)
    PROVE  RowsInv'
  <1>. USE DEF RowsInv
  <1>a. actor[a] \in Held
    BY DEF HeldInv
  <1>1. CASE UpdateRoutineWrite(a)
    <2>1. HeldInv' /\ Counts'
      BY <1>1, WritingHolds DEF UpdateRoutineWrite
    <2>2. actor[a].row \in RoutineIds /\ actor[a].seen \in RoutineRow
      BY <1>1, <1>a, HeldBy DEF UpdateRoutineWrite, Writing, OfRoutine
    <2>3. \A active \in BOOLEAN, schedule \in {"daily", "weekly"} :
             [actor[a].seen EXCEPT !.active = active, !.schedule = schedule] \in RoutineRow
      BY <2>2 DEF RoutineRow
    <2>4. \E t \in RoutineRow : routine' = [routine EXCEPT ![actor[a].row] = t]
      BY <1>1, <2>3 DEF UpdateRoutineWrite
    <2>5. routine' \in [RoutineIds -> RoutineRow]
      BY <2>2, <2>4 DEF RowTypes
    <2>6. RowTypes'
      BY <1>1, <2>5 DEF UpdateRoutineWrite, RowTypes
    <2>. QED
      BY <2>1, <2>6
  <1>2. CASE CheckinRoutineWrite(a)
    <2>1. HeldInv' /\ Counts'
      BY <1>2, WritingHolds DEF CheckinRoutineWrite
    <2>2. /\ actor[a].row \in RoutineIds /\ actor[a].period \in Periods
          /\ actor[a].want \in {"none", "pending", "completed", "skipped"}
      BY <1>2, <1>a, HeldBy DEF CheckinRoutineWrite, Writing, OfCheckin
    <2>3. RowTypes'
      BY <1>2, <2>2 DEF CheckinRoutineWrite, RowTypes
    <2>. QED
      BY <2>1, <2>3
  <1>3. CASE StartFocusRead(a)
    <2>1. actor[a].row \in SessionIds
      BY <1>3, <1>a, HeldBy DEF StartFocusRead, OfFocus
    <2>2. /\ actor' = [actor EXCEPT ![a] =
                IF "active" \in Transitions(session[actor[a].row].status)
                THEN Reading(actor[a].row, "active") ELSE Idle]
          /\ UNCHANGED <<tables, day, mutations, crashes>>
      BY <1>3 DEF StartFocusRead
    <2>3. "active" \in Transitions(session[actor[a].row].status) =>
             Reading(actor[a].row, "active") \in OfSession
      BY <2>1 DEF Transitions, Reading, OfSession, RowTypes, Ended
    <2>4. actor'[a] \in Held /\ actor'[a].op # "expire"
      <3>1. actor'[a] \in OfSession \cup {Idle}
        BY <2>2, <2>3, <1>a DEF HeldInv
      <3>. QED
        BY <3>1 DEF Held, OfSession, Idle
    <2>5. HeldInv'
      BY <2>2, <2>4 DEF HeldInv
    <2>. QED
      BY <2>2, <2>5 DEF RowTypes, Counts, tables
  <1>4. CASE TransitionActivityWrite(a)
    <2>1. HeldInv' /\ Counts'
      BY <1>4, WritingHolds DEF TransitionActivityWrite
    <2>2. /\ actor[a].row \in SessionIds /\ actor[a].seen \in SessionRow
          /\ actor[a].want \in Ended \cup {"active", "paused"}
      BY <1>4, <1>a, HeldBy DEF TransitionActivityWrite, Writing, OfSession
    <2>3. [actor[a].seen EXCEPT !.status = actor[a].want] \in SessionRow
      BY <2>2 DEF SessionRow
    <2>4. RowTypes'
      BY <1>4, <2>2, <2>3 DEF TransitionActivityWrite, RowTypes
    <2>. QED
      BY <2>1, <2>4
  <1>5. CASE UpdateDiaryWrite(a)
    <2>1. HeldInv' /\ Counts'
      BY <1>5, WritingHolds DEF UpdateDiaryWrite
    <2>2. actor[a].row \in EntryIds /\ actor[a].seen \in EntryRow
      BY <1>5, <1>a, HeldBy DEF UpdateDiaryWrite, Writing, OfEntry
    <2>3. \A status \in {"draft", "saved", "deleted"} :
             [actor[a].seen EXCEPT !.status = status] \in EntryRow
      BY <2>2 DEF EntryRow
    <2>4. RowTypes'
      BY <1>5, <2>2, <2>3 DEF UpdateDiaryWrite, RowTypes
    <2>. QED
      BY <2>1, <2>4
  <1>6. CASE DraftDiaryWrite(a)
    <2>1. HeldInv' /\ Counts'
      BY <1>6, WritingHolds DEF DraftDiaryWrite
    <2>2. [status |-> "draft", date |-> day] \in EntryRow
      BY RoutinesAssumption DEF EntryRow, Counts, Periods, RoutinesAssumption
    <2>3. RowTypes'
      BY <1>6, <2>2 DEF DraftDiaryWrite, NewEntry, RowTypes
    <2>. QED
      BY <2>1, <2>3
  <1>7. CASE AddStepWrite(a)
    <2>1. HeldInv' /\ Counts'
      BY <1>7, WritingHolds DEF AddStepWrite
    <2>2. actor[a].position \in 0..Cardinality(StepIds)
      BY <1>7, <1>a, HeldBy DEF AddStepWrite, Writing, OfAdd
    <2>3. [status |-> "open", position |-> actor[a].position, dated |-> FALSE] \in StepRow
      BY <2>2 DEF StepRow
    <2>4. RowTypes'
      BY <1>7, <2>3 DEF AddStepWrite, RowTypes
    <2>. QED
      BY <2>1, <2>4
  <1>8. CASE UpdateStepWrite(a)
    <2>1. HeldInv' /\ Counts'
      BY <1>8, WritingHolds DEF UpdateStepWrite
    <2>2. actor[a].row \in StepIds /\ actor[a].seen \in StepRow
      BY <1>8, <1>a, HeldBy DEF UpdateStepWrite, Writing, OfStep
    <2>3. \A status \in {"open", "completed", "cancelled"} :
             [actor[a].seen EXCEPT !.status = status, !.dated = @ \/ status = "completed"]
                \in StepRow
      BY <2>2 DEF StepRow
    <2>4. RowTypes'
      BY <1>8, <2>2, <2>3 DEF UpdateStepWrite, RowTypes
    <2>. QED
      BY <2>1, <2>4
  <1>9. CASE EventWrite(a)
    <2>1. HeldInv' /\ Counts'
      BY <1>9, WritingHolds DEF EventWrite
    <2>2. actor[a] \in OfNewEvent \/ actor[a] \in OfEvent
      BY <1>9, <1>a, HeldBy DEF EventWrite
    <2>3. actor[a].row \in EventIds
      BY <2>2 DEF OfNewEvent, OfEvent
    <2>4. Wanted(actor[a]) \in EventRow
      <3>1. CASE actor[a] \in OfNewEvent
        BY <3>1 DEF OfNewEvent, Wanted, EventRow
      <3>2. CASE actor[a] \in OfEvent
        BY <3>2 DEF OfEvent, Wanted, EventRow
      <3>. QED
        BY <2>2, <3>1, <3>2
    <2>5. RowTypes'
      BY <1>9, <2>3, <2>4 DEF EventWrite, RowTypes
    <2>. QED
      BY <2>1, <2>5
  <1>. QED
    BY <1>1, <1>2, <1>3, <1>4, <1>5, <1>6, <1>7, <1>8, <1>9 DEF Write

(* Rows that are looked at have a last one.                                 *)
LEMMA LatestIsThere ==
    ASSUME NEW S \in SUBSET RoutineIds, S # {}
    PROVE  Latest(S) \in S
  <1>. DEFINE Bad == {T \in FiniteSubsetsOf(RoutineIds) :
                        T # {} /\ ~ \E x \in T : \A y \in T : x >= y}
  <1>1. Bad = {}
    <2>1. SUFFICES ASSUME Bad # {} PROVE FALSE
      OBVIOUS
    <2>2. PICK T \in Bad : \A U \in Bad : ~ (<<U, T>> \in StrictSubsetOrdering(RoutineIds))
      <3>1. IsWellFoundedOn(StrictSubsetOrdering(RoutineIds), FiniteSubsetsOf(RoutineIds))
        BY FS_StrictSubsetOrderingWellFounded
      <3>2. Bad \subseteq FiniteSubsetsOf(RoutineIds)
        OBVIOUS
      <3>. HIDE DEF Bad
      <3>. QED
        BY <2>1, <3>1, <3>2, WFMin
    <2>3. T \subseteq Nat /\ T \subseteq RoutineIds /\ IsFiniteSet(T)
      BY RoutinesAssumption DEF FiniteSubsetsOf, RoutinesAssumption
    <2>4. PICK x \in T : TRUE
      OBVIOUS
    <2>. DEFINE U == T \ {x}
    <2>5. U # {}
      BY <2>3, <2>4
    <2>6. U \in FiniteSubsetsOf(RoutineIds)
      BY <2>3, FS_Subset DEF FiniteSubsetsOf
    <2>7. <<U, T>> \in StrictSubsetOrdering(RoutineIds)
      BY <2>3, <2>4 DEF StrictSubsetOrdering
    <2>8. PICK m \in U : \A y \in U : m >= y
      BY <2>2, <2>5, <2>6, <2>7
    <2>9. m \in Nat /\ x \in Nat /\ m \in T /\ \A y \in T : y \in Nat /\ (y = x \/ y \in U)
      BY <2>3
    <2>10. CASE m >= x
      BY <2>8, <2>9, <2>10
    <2>11. CASE x >= m
      <3>1. \A y \in T : x >= y
        BY <2>8, <2>9, <2>11
      <3>. QED
        BY <3>1
    <2>. QED
      BY <2>9, <2>10, <2>11
  <1>2. S \in FiniteSubsetsOf(RoutineIds)
    BY FS_Subset, RoutinesAssumption DEF FiniteSubsetsOf, RoutinesAssumption
  <1>3. \E x \in S : \A y \in S : x >= y
    BY <1>1, <1>2
  <1>. QED
    BY <1>3 DEF Latest

LEMMA WorkerHolds ==
    ASSUME RowsInv, NEW a \in Actors, Worker(a)
    PROVE  RowsInv'
  <1>. USE DEF RowsInv
  <1>a. actor[a] \in Held
    BY DEF HeldInv
  <1>1. CASE DueRoutinesRead(a)
    <2>. DEFINE t == [op |-> "tick", left |-> {r \in RoutineIds : routine[r].active},
                      seen |-> routine, first |-> 0, day |-> day]
    <2>1. t \in OfTick /\ t.op # "expire"
      BY <1>1 DEF DueRoutinesRead, OfTick, RowTypes, Counts
    <2>2. Read(a, t)
      BY <1>1 DEF DueRoutinesRead
    <2>. HIDE DEF t
    <2>. QED
      BY <2>1, <2>2, ReadHolds DEF Held
  <1>2. CASE LookAtRoutine(a)
    <2>1. PICK t \in OfTick : t = actor[a]
      BY <1>2, <1>a, HeldBy DEF LookAtRoutine
    <2>2. PICK r \in t.left : r = Latest(t.left)
      BY <2>1, LatestIsThere DEF OfTick
    <2>3. /\ UNCHANGED <<tables, day, mutations, crashes>>
          /\ \/ actor' = [actor EXCEPT ![a] = [t EXCEPT !.first = r]]
             \/ actor' = [actor EXCEPT ![a] = Idle]
             \/ t.left # {r} /\ actor' = [actor EXCEPT ![a] = [t EXCEPT !.left = @ \ {r}]]
      BY <1>2, <2>1, <2>2 DEF LookAtRoutine
    <2>4. [t EXCEPT !.first = r] \in OfTick
      BY <2>1, <2>2, RoutinesAssumption DEF OfTick, RoutinesAssumption
    <2>5. t.left # {r} => [t EXCEPT !.left = @ \ {r}] \in OfTick
      BY <2>1, <2>2 DEF OfTick
    <2>6. PICK u \in OfTick \cup {Idle} : actor' = [actor EXCEPT ![a] = u]
      BY <2>3, <2>4, <2>5
    <2>7. u \in Held /\ u.op # "expire"
      BY <2>6 DEF Held, OfTick, Idle
    <2>8. HeldInv'
      BY <2>6, <2>7 DEF HeldInv
    <2>. QED
      BY <2>3, <2>8 DEF RowTypes, Counts, tables
  <1>3. CASE DueRoutinesWrite(a)
    <2>1. HeldInv' /\ Counts'
      BY <1>3, WritingHolds DEF DueRoutinesWrite
    <2>2. PICK t \in OfTick : t = actor[a]
      BY <1>3, <1>a, HeldBy DEF DueRoutinesWrite
    <2>3. PICK due \in SUBSET t.left : due = {r \in t.left : Undone(t, r)}
      OBVIOUS
    <2>4. \A r \in t.left : r \in RoutineIds /\ t.seen[r] \in RoutineRow /\ t.day \in Periods
      BY <2>2 DEF OfTick
    <2>5. /\ checkin' = [r \in RoutineIds |-> [p \in Periods |->
                IF r \in due /\ p = PeriodKey(t.seen[r], t.day) THEN "pending"
                ELSE checkin[r][p]]]
          /\ reminders' = reminders \cup
                {<<r, PeriodKey(t.seen[r], t.day)>> :
                    r \in {q \in due : t.seen[q].policy = "remind"}}
          /\ UNCHANGED <<routine, session, entry, step, event>>
      BY <1>3, <2>2, <2>3 DEF DueRoutinesWrite
    <2>6. \A r \in due : <<r, PeriodKey(t.seen[r], t.day)>> \in RoutineIds \X Periods
      BY <2>4, PeriodOf
    <2>7. RowTypes'
      BY <2>5, <2>6 DEF RowTypes
    <2>. QED
      BY <2>1, <2>7
  <1>4. CASE ExpireActivitiesRead(a)
    <2>1. [op |-> "expire", seen |-> session, rows |-> Overdue(session)] \in OfExpiry
      BY DEF OfExpiry, RowTypes, Overdue
    <2>2. \A s \in Overdue(session) : session[s].status \notin Ended
      BY DEF Overdue, Ended
    <2>. QED
      BY <1>4, <2>1, <2>2, ReadHolds DEF ExpireActivitiesRead, Held
  <1>5. CASE ExpireActivitiesWrite(a)
    <2>1. HeldInv' /\ Counts'
      BY <1>5, WritingHolds DEF ExpireActivitiesWrite
    <2>2. actor[a] \in OfExpiry
      BY <1>5, <1>a, HeldBy DEF ExpireActivitiesWrite, Writing
    <2>3. \A s \in SessionIds : [actor[a].seen[s] EXCEPT !.status = "expired"] \in SessionRow
      <3>1. ASSUME NEW s \in SessionIds
            PROVE  [actor[a].seen[s] EXCEPT !.status = "expired"] \in SessionRow
        <4>1. PICK x \in SessionRow : x = actor[a].seen[s]
          BY <2>2 DEF OfExpiry
        <4>2. [x EXCEPT !.status = "expired"] \in SessionRow
          BY DEF SessionRow, Ended
        <4>. QED
          BY <4>1, <4>2
      <3>. QED
        BY <3>1
    <2>4. session' \in [SessionIds -> SessionRow]
      BY <1>5, <2>3 DEF ExpireActivitiesWrite, RowTypes
    <2>5. RowTypes'
      BY <1>5, <2>4 DEF ExpireActivitiesWrite, RowTypes
    <2>. QED
      BY <2>1, <2>5
  <1>. QED
    BY <1>1, <1>2, <1>3, <1>4, <1>5 DEF Worker

LEMMA NextRowsHold == ASSUME RowsInv, [RoutinesNext]_routinesVars PROVE RowsInv'
  <1>1. CASE NextDay
    BY <1>1, RoutinesAssumption
       DEF NextDay, tables, RowsInv, RowTypes, Counts, HeldInv, Periods,
           RoutinesAssumption
  <1>2. ASSUME NEW a \in Actors, Die(a) PROVE RowsInv'
    <2>1. Idle \in Held /\ Idle.op # "expire"
      BY DEF Held, Idle
    <2>2. HeldInv'
      BY <1>2, <2>1 DEF Die, RowsInv, HeldInv
    <2>. QED
      BY <1>2, <2>2, RoutinesAssumption
         DEF Die, tables, RowsInv, RowTypes, Counts, RoutinesAssumption
  <1>3. CASE UNCHANGED routinesVars
    BY <1>3 DEF routinesVars, RowsInv, RowTypes, Counts, HeldInv
  <1>. QED
    BY <1>1, <1>2, <1>3, RequestHolds, WriteHolds, WorkerHolds DEF RoutinesNext

(* Of all rows and all that is in hand.                                     *)
LEMMA RowsAlways == RoutinesSpec => []RowsInv
  <1>1. RoutinesInit => RowsInv
    BY InitRows
  <1>2. RowsInv /\ [RoutinesNext]_routinesVars => RowsInv'
    BY NextRowsHold
  <1>. QED
    BY <1>1, <1>2, PTL DEF RoutinesSpec

(* Rows of routines, check-ins, sessions, diary, steps and events keep their *)
(* types, whoever overtakes whom (the columns LifeFlowStore writes).         *)
THEOREM RoutineTypesHold == RoutinesSpec => []RoutinesTypeOK
  <1>1. RowsInv => RoutinesTypeOK
    <2>. USE DEF RoutineRow, SessionRow, EntryRow, StepRow, EventRow
    <2>. QED
      BY DEF RowsInv, RowTypes, Counts, HeldInv, RoutinesTypeOK
  <1>. QED
    BY <1>1, RowsAlways, PTL

-----------------------------------------------------------------------------
(* Who may undo a check-in *)

UndoneOnlyBy(r, p) ==
    /\ (checkin[r][p] # "none" /\ checkin'[r][p] # checkin[r][p]) =>
          \E a \in Actors : TickOf(a, r, p) \/ UserOf(a, r, p)
    /\ (<<r, p>> \in reminders' \ reminders /\ checkin[r][p] # "none") =>
          \E a \in Actors : TickOf(a, r, p)

(* A check-in is written by the user who checks in.                         *)
LEMMA UserUndoes ==
    ASSUME RowsInv, NEW a \in Actors, CheckinRoutineWrite(a),
           NEW r \in RoutineIds, NEW p \in Periods
    PROVE  UndoneOnlyBy(r, p)
  <1>1. /\ actor[a].op = "checkin" /\ actor'[a] = Idle
        /\ checkin' = [checkin EXCEPT ![actor[a].row][actor[a].period] = actor[a].want]
        /\ reminders' = reminders
    BY DEF CheckinRoutineWrite, Writing, RowsInv, HeldInv
  <1>2. checkin'[r][p] # checkin[r][p] => actor[a].row = r /\ actor[a].period = p
    BY <1>1 DEF RowsInv, RowTypes
  <1>. QED
    BY <1>1, <1>2 DEF UndoneOnlyBy, UserOf

(* What a tick writes over, it had looked at before its transaction began:  *)
(* all but the first are looked at again inside it.                         *)
LEMMA TickUndoes ==
    ASSUME RowsInv, NEW a \in Actors, DueRoutinesWrite(a),
           NEW r \in RoutineIds, NEW p \in Periods
    PROVE  UndoneOnlyBy(r, p)
  <1>1. PICK t : t = actor[a]
    OBVIOUS
  <1>2. PICK due \in SUBSET t.left : due = {q \in t.left : Undone(t, q)}
    OBVIOUS
  <1>3. /\ t.op = "tick" /\ actor'[a] = Idle
        /\ checkin' = [q \in RoutineIds |-> [k \in Periods |->
              IF q \in due /\ k = PeriodKey(t.seen[q], t.day) THEN "pending"
              ELSE checkin[q][k]]]
        /\ reminders' = reminders \cup
              {<<q, PeriodKey(t.seen[q], t.day)>> :
                  q \in {z \in due : t.seen[z].policy = "remind"}}
    BY <1>1, <1>2 DEF DueRoutinesWrite, Writing, RowsInv, HeldInv
  <1>4. checkin'[r][p] # checkin[r][p] => r \in due /\ p = PeriodKey(t.seen[r], t.day)
    BY <1>3
  <1>5. <<r, p>> \in reminders' \ reminders => r \in due /\ p = PeriodKey(t.seen[r], t.day)
    BY <1>3
  <1>6. (r \in due /\ p = PeriodKey(t.seen[r], t.day) /\ checkin[r][p] # "none") =>
           TickOf(a, r, p)
    BY <1>1, <1>2, <1>3 DEF Undone, TickOf
  <1>. QED
    BY <1>4, <1>5, <1>6 DEF UndoneOnlyBy

LEMMA StepUndoes ==
    ASSUME RowsInv, [RoutinesNext]_routinesVars, NEW r \in RoutineIds, NEW p \in Periods
    PROVE  UndoneOnlyBy(r, p)
  <1>1. CASE UNCHANGED <<checkin, reminders>>
    BY <1>1 DEF UndoneOnlyBy
  <1>2. CASE NextDay \/ UNCHANGED routinesVars
    BY <1>1, <1>2 DEF NextDay, tables, routinesVars
  <1>3. ASSUME NEW a \in Actors, Die(a) PROVE UndoneOnlyBy(r, p)
    BY <1>1, <1>3 DEF Die, tables
  <1>4. ASSUME NEW a \in Actors, Request(a) \/ Calendar(a) PROVE UndoneOnlyBy(r, p)
    <2>1. UNCHANGED <<checkin, reminders>>
      BY <1>4
         DEF Request, Calendar, CreateRoutine, UpdateRoutineRead,
             CheckinRoutineRead, CreateActivity,
             TransitionActivityRead, UpdateDiaryRead, CreateDiaryEntry,
             DraftDiaryRead, AddStepRead,
             UpdateStepRead, CreateEventRead, UpdateEventRead, Read,
             tables
    <2>. QED
      BY <1>1, <2>1
  <1>5. ASSUME NEW a \in Actors, Write(a) PROVE UndoneOnlyBy(r, p)
    <2>1. CheckinRoutineWrite(a) \/ UNCHANGED <<checkin, reminders>>
      BY <1>5
         DEF Write, UpdateRoutineWrite, StartFocusRead,
             TransitionActivityWrite, UpdateDiaryWrite,
             DraftDiaryWrite, AddStepWrite, UpdateStepWrite, EventWrite,
             tables
    <2>. QED
      BY <1>1, <2>1, UserUndoes
  <1>6. ASSUME NEW a \in Actors, Worker(a) PROVE UndoneOnlyBy(r, p)
    <2>1. DueRoutinesWrite(a) \/ UNCHANGED <<checkin, reminders>>
      BY <1>6
         DEF Worker, DueRoutinesRead, LookAtRoutine, ExpireActivitiesRead,
             ExpireActivitiesWrite,
             Read, tables
    <2>. QED
      BY <1>1, <2>1, TickUndoes
  <1>. QED
    BY <1>2, <1>3, <1>4, <1>5, <1>6 DEF RoutinesNext

(* A check-in is taken back, or reminded of, only for the user who checks in *)
(* otherwise or a tick that saw the period open (process_due_routines,       *)
(* checkin_routine).                                                         *)
THEOREM CheckinsUndoneForAReason ==
    RoutinesSpec => SeenUndone
  <1>1. RowsInv /\ [RoutinesNext]_routinesVars =>
          [\A r \in RoutineIds, p \in Periods :
              /\ (checkin[r][p] # "none" /\ checkin'[r][p] # checkin[r][p]) =>
                    \E a \in Actors : TickOf(a, r, p) \/ UserOf(a, r, p)
              /\ (<<r, p>> \in reminders' \ reminders /\ checkin[r][p] # "none") =>
                    \E a \in Actors : TickOf(a, r, p)]_routinesVars
    BY StepUndoes DEF UndoneOnlyBy
  <1>. QED
    BY <1>1, RowsAlways, PTL DEF RoutinesSpec, SeenUndone

-----------------------------------------------------------------------------
(* Who may bring back a session that is over or an event that is deleted *)

OverOnlyBy(s) ==
    (session[s].status \in Ended /\ session'[s] # session[s]) =>
        \E a \in Actors : actor'[a] = Idle /\ SessionBy(a, s)
BackOnlyBy(v) ==
    (event[v].status = "deleted" /\ event'[v].status # "deleted") =>
        \E a \in Actors : actor'[a] = Idle /\ EventBy(a, v)

LEMMA SessionWriteBy ==
    ASSUME RowsInv, NEW a \in Actors, TransitionActivityWrite(a), NEW s \in SessionIds
    PROVE  OverOnlyBy(s)
  <1>1. /\ actor[a].op = "session" /\ actor'[a] = Idle
        /\ session' = [session EXCEPT ![actor[a].row] = [actor[a].seen EXCEPT !.status = actor[a].want]]
    BY DEF TransitionActivityWrite, Writing, RowsInv, HeldInv
  <1>2. actor[a].seen.status \notin Ended
    BY <1>1, HeldBy DEF RowsInv, HeldInv, OfSession
  <1>3. session'[s] # session[s] => actor[a].row = s
    BY <1>1 DEF RowsInv, RowTypes
  <1>. QED
    BY <1>1, <1>2, <1>3 DEF OverOnlyBy, SessionBy

LEMMA ExpiryBy ==
    ASSUME RowsInv, NEW a \in Actors, ExpireActivitiesWrite(a), NEW s \in SessionIds
    PROVE  OverOnlyBy(s)
  <1>1. /\ actor[a].op = "expire" /\ actor'[a] = Idle
        /\ session' = [x \in SessionIds |->
              IF x \in actor[a].rows THEN [actor[a].seen[x] EXCEPT !.status = "expired"]
              ELSE session[x]]
    BY DEF ExpireActivitiesWrite, Writing, RowsInv, HeldInv
  <1>2. \A x \in actor[a].rows : actor[a].seen[x].status \notin Ended
    BY <1>1 DEF RowsInv, HeldInv
  <1>3. session'[s] # session[s] => s \in actor[a].rows
    BY <1>1
  <1>. QED
    BY <1>1, <1>2, <1>3 DEF OverOnlyBy, SessionBy

(* A session is created where none is.                                      *)
LEMMA CreatedWhereNone ==
    ASSUME RowsInv, NEW a \in Actors, NEW x, NEW focus, CreateActivity(a, x, focus),
           NEW s \in SessionIds
    PROVE  OverOnlyBy(s)
  <1>1. PICK q \in SessionIds :
          /\ session[q].status = "none"
          /\ session' = [session EXCEPT ![q] = [status |-> "planned", expires |-> x]]
    BY DEF CreateActivity, IsOldest
  <1>2. session[s].status \in Ended => session'[s] = session[s]
    BY <1>1 DEF RowsInv, RowTypes, Ended
  <1>. QED
    BY <1>2 DEF OverOnlyBy

LEMMA EventWriteBy ==
    ASSUME RowsInv, NEW a \in Actors, EventWrite(a), NEW v \in EventIds
    PROVE  BackOnlyBy(v)
  <1>1. /\ actor[a].op \in {"new_event", "event"} /\ actor'[a] = Idle
        /\ event' = [event EXCEPT ![actor[a].row] = Wanted(actor[a])]
    BY DEF EventWrite, Writing, RowsInv, HeldInv
  <1>2. event'[v] # event[v] => actor[a].row = v /\ event'[v] = Wanted(actor[a])
    BY <1>1 DEF RowsInv, RowTypes
  <1>3. CASE actor[a] \in OfNewEvent
    <2>1. actor[a].seen.status # "deleted"
      BY <1>3 DEF OfNewEvent, NoEvent
    <2>. QED
      BY <1>1, <1>2, <2>1 DEF BackOnlyBy, EventBy
  <1>4. CASE actor[a] \in OfEvent
    <2>1. /\ actor[a].op = "event" /\ actor[a].want \in {"moved", "active", "deleted"}
          /\ actor[a].seen \in EventRow
      BY <1>4 DEF OfEvent
    <2>2. (Wanted(actor[a]).status # "deleted" /\ actor[a].want # "active") =>
             actor[a].seen.status # "deleted"
      BY <2>1 DEF Wanted, EventRow
    <2>. QED
      BY <1>1, <1>2, <2>1, <2>2 DEF BackOnlyBy, EventBy
  <1>. QED
    BY <1>1, <1>3, <1>4, HeldBy DEF RowsInv, HeldInv

LEMMA StepBrings ==
    ASSUME RowsInv, [RoutinesNext]_routinesVars
    PROVE  (\A s \in SessionIds : OverOnlyBy(s)) /\ (\A v \in EventIds : BackOnlyBy(v))
  <1>1. session' = session => \A s \in SessionIds : OverOnlyBy(s)
    BY DEF OverOnlyBy
  <1>2. event' = event => \A v \in EventIds : BackOnlyBy(v)
    BY DEF BackOnlyBy
  <1>3. CASE NextDay \/ UNCHANGED routinesVars
    BY <1>1, <1>2, <1>3 DEF NextDay, tables, routinesVars
  <1>4. ASSUME NEW a \in Actors, Die(a) \/ Calendar(a)
        PROVE  event' = event /\ session' = session
    BY <1>4
       DEF Die, Calendar, CreateEventRead, UpdateEventRead, Read,
           tables
  <1>5. ASSUME NEW a \in Actors, Request(a)
        PROVE  event' = event /\ \A s \in SessionIds : OverOnlyBy(s)
    <2>1. \/ UNCHANGED <<session, event>>
          \/ \E x \in {0, LastDay}, focus \in BOOLEAN : CreateActivity(a, x, focus)
      BY <1>5
         DEF Request, CreateRoutine, UpdateRoutineRead, CheckinRoutineRead,
             TransitionActivityRead, UpdateDiaryRead, CreateDiaryEntry,
             DraftDiaryRead, AddStepRead,
             UpdateStepRead, Read, tables
    <2>2. event' = event
      BY <2>1 DEF CreateActivity
    <2>. QED
      BY <1>1, <2>1, <2>2, CreatedWhereNone
  <1>6. ASSUME NEW a \in Actors, Write(a)
        PROVE  (\A s \in SessionIds : OverOnlyBy(s)) /\ (\A v \in EventIds : BackOnlyBy(v))
    <2>1. CASE TransitionActivityWrite(a)
      BY <1>2, <2>1, SessionWriteBy DEF TransitionActivityWrite
    <2>2. CASE EventWrite(a)
      BY <1>1, <2>2, EventWriteBy DEF EventWrite
    <2>3. CASE ~TransitionActivityWrite(a) /\ ~EventWrite(a)
      BY <1>1, <1>2, <1>6, <2>3
         DEF Write, UpdateRoutineWrite, CheckinRoutineWrite, StartFocusRead,
             UpdateDiaryWrite, DraftDiaryWrite, AddStepWrite,
             UpdateStepWrite, tables
    <2>. QED
      BY <2>1, <2>2, <2>3
  <1>7. ASSUME NEW a \in Actors, Worker(a)
        PROVE  event' = event /\ \A s \in SessionIds : OverOnlyBy(s)
    <2>1. CASE ExpireActivitiesWrite(a)
      BY <2>1, ExpiryBy DEF ExpireActivitiesWrite
    <2>2. CASE ~ExpireActivitiesWrite(a)
      BY <1>1, <1>7, <2>2
         DEF Worker, DueRoutinesRead, LookAtRoutine, DueRoutinesWrite,
             ExpireActivitiesRead, Read, tables
    <2>. QED
      BY <2>1, <2>2
  <1>. QED
    BY <1>1, <1>2, <1>3, <1>4, <1>5, <1>6, <1>7 DEF RoutinesNext

(* A session that is over, and an event that is deleted, is brought back     *)
(* only by a request that says so or that read the row before                *)
(* (transition_activity, expire_activities, save_calendar_event).            *)
THEOREM OverUnlessReadBefore ==
    RoutinesSpec => UndoneByOldReaders
  <1>1. RowsInv /\ [RoutinesNext]_routinesVars =>
          [/\ \A s \in SessionIds :
                 (session[s].status \in Ended /\ session'[s] # session[s]) =>
                    \E a \in Actors : actor'[a] = Idle /\ SessionBy(a, s)
           /\ \A v \in EventIds :
                 (event[v].status = "deleted" /\ event'[v].status # "deleted") =>
                    \E a \in Actors : actor'[a] = Idle /\ EventBy(a, v)]_routinesVars
    BY StepBrings DEF OverOnlyBy, BackOnlyBy
  <1>. QED
    BY <1>1, RowsAlways, PTL DEF RoutinesSpec, UndoneByOldReaders

-----------------------------------------------------------------------------
(* RealtimeSync: the service, the job and SEEN_IDS *)

(* A letter an id of which is remembered for a reason.                      *)
Accounted(m) == m \in Old \/ shown[m] > 0 \/ m \in refused

(* The clean history NoNeedlessRepeat speaks of.                            *)
Clean == faults = 0 /\ ~mixed /\ Cardinality(Rows) <= Remembered

(* The connection, the service's thread and the job, of letters there are.   *)
Links == [open : BOOLEAN, sent : SUBSET Rows, wire : SUBSET Rows]
Readers == [at : {"wait", "show", "read", "write"},
            letter : Rows \cup {0}, read : SUBSET Rows]
Jobs == [at : {"off", "fetched", "loop"},
         items : SUBSET Rows, seen : SUBSET Rows, added : SUBSET Rows]

SyncTypes ==
    /\ outbox \in [Letters -> {"absent", "notifiable", "settled"}]
    /\ since \in Letters /\ enabled \in BOOLEAN /\ running \in BOOLEAN /\ (running => enabled)
    /\ seen \subseteq Rows /\ disk \subseteq Rows /\ Cardinality(seen) <= Remembered
    /\ Cardinality(disk) <= Remembered
    /\ allowed \in BOOLEAN /\ cookie \in BOOLEAN
    /\ link \in Links
    /\ link.wire \subseteq link.sent
    /\ reader \in Readers
    /\ reader.at = "wait" => reader = Waiting
    /\ reader.at # "wait" => reader.letter \in Rows
    /\ job \in Jobs
    /\ job.at = "off" => job = NoJob
    /\ job.at = "fetched" => job.added = {}
    /\ shown \in [Letters -> 0..2] /\ refused \subseteq Letters /\ mixed \in BOOLEAN
    /\ faults \in 0..MaxFaults /\ changes \in 0..MaxChanges

(* Every set of ids, on the disk, in the preference or in the hands of a    *)
(* thread, has letters in it that are accounted for.                        *)
SeenInv ==
    /\ \A m \in seen \cup disk \cup reader.read \cup job.seen \cup job.added : Accounted(m)
    /\ reader.at \in {"read", "write"} => Accounted(reader.letter)

(* As long as the two do not meet, only one has ids in hand, and what it has *)
(* read of the preference is what the preference is.  A letter shown is      *)
(* remembered, or about to be.                                              *)
AloneInv ==
    /\ ~mixed => reader = Waiting \/ job = NoJob
    /\ Clean =>
          /\ job.at = "loop" => job.seen = seen
          /\ reader.at = "write" => reader.read = seen
          /\ reader.at = "show" => shown[reader.letter] = 0
          /\ \A m \in Letters : shown[m] <= 1
          /\ \A m \in Letters : shown[m] > 0 =>
                m \in seen \/ m \in job.added
                  \/ (reader.at \in {"read", "write"} /\ m = reader.letter)

SyncInv == SyncTypes /\ SeenInv /\ AloneInv

USE DEF Links, Readers, Jobs

(* What is known of the table, of SEEN_IDS and of everyone at rest.         *)

LEMMA RowsAre ==
    /\ Rows \subseteq Letters /\ IsFiniteSet(Letters) /\ IsFiniteSet(Rows)
    /\ Cardinality(Rows) \in Nat
    /\ \A S \in SUBSET Letters : IsFiniteSet(S) /\ Cardinality(S) \in Nat
    /\ \A S \in SUBSET Rows : Cardinality(S) <= Cardinality(Rows)
  <1>1. Rows \subseteq Letters /\ IsFiniteSet(Letters)
    BY SyncAssumption DEF Rows, SyncAssumption
  <1>2. \A S \in SUBSET Letters : IsFiniteSet(S) /\ Cardinality(S) \in Nat
    BY <1>1, FS_Subset, FS_CardinalityType
  <1>. QED
    BY <1>1, <1>2, FS_Subset

(* SEEN_IDS is cut to ids it had, and not cut while there is room.          *)
LEMMA KeptIs ==
    ASSUME NEW ids \in SUBSET Rows, NEW kept \in Kept(ids)
    PROVE  /\ kept \subseteq ids /\ Cardinality(kept) <= Remembered
           /\ Cardinality(Rows) <= Remembered => kept = ids
  <1>1. /\ Cardinality(ids) \in Nat /\ Cardinality(ids) <= Cardinality(Rows)
        /\ Cardinality(Rows) \in Nat
    BY RowsAre
  <1>2. Remembered \in Nat
    BY SyncAssumption DEF SyncAssumption
  <1>3. CASE Cardinality(ids) <= Remembered
    BY <1>3 DEF Kept
  <1>4. CASE ~(Cardinality(ids) <= Remembered)
    BY <1>1, <1>2, <1>4 DEF Kept
  <1>. QED
    BY <1>3, <1>4

(* The records a connection, a reader and a job begin and end with.         *)
LEMMA AtRest ==
    /\ Closed \in Links /\ [Closed EXCEPT !.open = TRUE] \in Links
    /\ Closed.wire \subseteq Closed.sent
    /\ [Closed EXCEPT !.open = TRUE].wire \subseteq [Closed EXCEPT !.open = TRUE].sent
    /\ Waiting \in Readers
    /\ Waiting.at = "wait" /\ Waiting.read = {}
    /\ NoJob \in Jobs
    /\ NoJob.at = "off" /\ NoJob.seen = {} /\ NoJob.added = {}
  <1>1. Closed \in Links
    BY DEF Closed
  <1>2. [Closed EXCEPT !.open = TRUE] \in Links
    BY <1>1
  <1>3. /\ Closed.wire = {} /\ [Closed EXCEPT !.open = TRUE].wire = {}
    BY DEF Closed
  <1>. QED
    BY <1>1, <1>2, <1>3 DEF Waiting, NoJob

-----------------------------------------------------------------------------
(* The steps *)

LEMMA InitSync == ASSUME SyncInit PROVE SyncInv
  <1>1. Cardinality({}) = 0 /\ Remembered \in Nat
    BY FS_EmptySet, SyncAssumption DEF SyncAssumption
  <1>2. SyncTypes
    <2>1. /\ outbox \in [Letters -> {"absent", "notifiable", "settled"}]
          /\ shown \in [Letters -> 0..2]
      BY DEF SyncInit
    <2>2. /\ link \in Links
          /\ link.wire \subseteq link.sent
      BY DEF SyncInit, Closed
    <2>3. /\ reader \in Readers
          /\ reader = Waiting /\ reader.at = "wait"
      BY DEF SyncInit, Waiting
    <2>4. /\ job \in Jobs
          /\ job = NoJob /\ job.at = "off"
      BY DEF SyncInit, NoJob
    <2>5. faults \in 0..MaxFaults /\ changes \in 0..MaxChanges
      BY SyncAssumption DEF SyncInit, SyncAssumption
    <2>6. /\ since \in Letters /\ enabled \in BOOLEAN /\ running \in BOOLEAN /\ (running => enabled)
          /\ seen = {} /\ disk = {} /\ allowed \in BOOLEAN /\ cookie \in BOOLEAN
          /\ refused = {} /\ mixed \in BOOLEAN
      BY DEF SyncInit
    <2>. QED
      BY <1>1, <2>1, <2>2, <2>3, <2>4, <2>5, <2>6 DEF SyncTypes
  <1>3. SeenInv
    BY DEF SyncInit, SeenInv, Waiting, NoJob
  <1>4. AloneInv
    BY DEF SyncInit, AloneInv, Waiting, NoJob
  <1>. QED
    BY <1>2, <1>3, <1>4 DEF SyncInv

PhoneSteps ==
    \/ Poll \/ Service \/ Disconnect \/ Job \/ StopJob
    \/ WriteDisk \/ Kill
    \/ Switch \/ Pause \/ ChangePermission \/ ChangeLogin

(* Only the server writes rows, and none of the phone's steps moves since.  *)
LEMMA PhoneLeaves ==
    ASSUME PhoneSteps
    PROVE  outbox' = outbox /\ since' = since /\ Rows' = Rows /\ Old' = Old
  <1>1. outbox' = outbox /\ since' = since
    BY DEF PhoneSteps, Poll, Service, Connect, HandleMessage, ShowMessage, ReadSeen, RememberSeen,
           Disconnect, Job,
           StartJob, JobReadsSeen, JobItem, JobWritesSeen, StopJob, WriteDisk, Kill, Switch, Pause,
           ChangePermission, ChangeLogin, phone
  <1>. QED
    BY <1>1 DEF Rows, Old

(* A row more or an answer: nothing the phone has in hand loses its row.    *)
LEMMA ServerHolds ==
    ASSUME SyncInv, NEW m \in Letters, NewLetter(m) \/ Answer(m)
    PROVE  SyncInv'
  <1>1. /\ UNCHANGED <<phone, link, reader, job, history, spent>>
        /\ outbox' \in [Letters -> {"absent", "notifiable", "settled"}]
        /\ Rows \subseteq Rows'
    BY DEF NewLetter, Answer, Notifiable, Rows, SyncInv, SyncTypes
  <1>2. Old' = Old /\ Rows' \subseteq Letters
    BY <1>1 DEF Old, phone, Rows
  <1>3. /\ Cardinality(Rows) <= Cardinality(Rows')
        /\ Cardinality(Rows') \in Nat /\ Cardinality(Rows) \in Nat
    BY <1>1, <1>2, RowsAre, FS_Subset
  <1>4. SyncTypes'
    <2>1. /\ link' \in Links'
          /\ reader' \in Readers'
          /\ job' \in Jobs'
      BY <1>1 DEF SyncInv, SyncTypes
    <2>. QED
      BY <1>1, <2>1 DEF SyncInv, SyncTypes, phone, history, spent
  <1>5. SeenInv'
    BY <1>1, <1>2 DEF SyncInv, SeenInv, Accounted, phone, history
  <1>6. Clean' => Clean
    BY <1>1, <1>3, SyncAssumption DEF Clean, history, spent, SyncAssumption
  <1>7. AloneInv'
    BY <1>1, <1>6 DEF SyncInv, AloneInv, phone, history
  <1>. QED
    BY <1>4, <1>5, <1>7 DEF SyncInv

(* A notification accounts for its letter and takes no account away.        *)
LEMMA NotifyIs ==
    ASSUME SyncInv, NEW m \in Letters, Notify(m)
    PROVE  /\ shown' \in [Letters -> 0..2] /\ refused' \subseteq Letters
           /\ \A k \in Letters : Accounted(k) /\ Old' = Old => Accounted(k)'
           /\ Accounted(m)'
           /\ \A k \in Letters : k # m => shown'[k] = shown[k]
           /\ shown'[m] \in {shown[m], shown[m] + 1}
  <1>1. shown \in [Letters -> 0..2] /\ refused \subseteq Letters
    BY DEF SyncInv, SyncTypes
  <1>2. CASE allowed
    <2>1. shown' = [shown EXCEPT ![m] = IF @ < 2 THEN @ + 1 ELSE @] /\ refused' = refused
      BY <1>2 DEF Notify
    <2>2. shown[m] \in 0..2 /\ shown'[m] = IF shown[m] < 2 THEN shown[m] + 1 ELSE shown[m]
      BY <1>1, <2>1
    <2>3. /\ shown' \in [Letters -> 0..2] /\ shown'[m] > 0
          /\ \A k \in Letters : k # m => shown'[k] = shown[k]
      BY <1>1, <2>1, <2>2
    <2>4. \A k \in Letters : shown[k] > 0 => shown'[k] > 0
      BY <2>3
    <2>. QED
      BY <1>1, <2>1, <2>2, <2>3, <2>4 DEF Accounted
  <1>3. CASE ~allowed
    BY <1>1, <1>3 DEF Notify, Accounted
  <1>. QED
    BY <1>2, <1>3

(* The connection carries rows; nothing is remembered of them yet.          *)
LEMMA LinkHolds ==
    ASSUME SyncInv, Poll \/ Connect \/ Disconnect
    PROVE  SyncInv'
  <1>1. /\ UNCHANGED <<outbox, phone, reader, job, history>> /\ changes' = changes
        /\ faults' \in 0..MaxFaults /\ faults <= faults'
        /\ Rows' = Rows /\ Old' = Old
    BY PhoneLeaves, SyncAssumption
       DEF PhoneSteps, Service, Poll, Connect, Disconnect, Fault, spent, SyncInv, SyncTypes,
           SyncAssumption
  <1>2. link' \in Links /\ link'.wire \subseteq link'.sent
    <2>1. CASE Poll
      <3>1. Newest \subseteq Rows
        BY DEF Newest, NewestOf
      <3>2. PICK fresh \in SUBSET Rows :
              link' = [link EXCEPT !.sent = @ \cup fresh, !.wire = @ \cup (fresh \ Old)]
        BY <2>1, <3>1 DEF Poll
      <3>. QED
        BY <3>2 DEF SyncInv, SyncTypes
    <2>2. CASE Connect \/ Disconnect
      BY <2>2, AtRest DEF Connect, Disconnect
    <2>. QED
      BY <2>1, <2>2
  <1>3. SyncTypes'
    BY <1>1, <1>2 DEF SyncInv, SyncTypes, phone, history
  <1>4. SeenInv'
    BY <1>1 DEF SyncInv, SeenInv, Accounted, phone, history
  <1>5. Clean' => Clean
    BY <1>1, SyncAssumption DEF Clean, history, SyncInv, SyncTypes, SyncAssumption
  <1>6. AloneInv'
    BY <1>1, <1>5 DEF SyncInv, AloneInv, phone, history
  <1>. QED
    BY <1>3, <1>4, <1>6 DEF SyncInv

(* The service shows what is not in SEEN_IDS and, while it is alone, adds   *)
(* to what it has read of them only its letter.                             *)
LEMMA ReaderHolds ==
    ASSUME SyncInv, HandleMessage \/ ShowMessage \/ ReadSeen \/ RememberSeen
    PROVE  SyncInv'
  <1>0. /\ Rows' = Rows /\ Old' = Old
        /\ outbox' = outbox /\ Rows \subseteq Letters
        /\ UNCHANGED <<since, enabled, running, disk, allowed, cookie, job, spent>>
    BY PhoneLeaves
       DEF PhoneSteps, Service, HandleMessage, ShowMessage, ReadSeen, RememberSeen, phone, Rows
  <1>c. Clean' => Clean
    BY <1>0 DEF Clean, spent, HandleMessage, ShowMessage, ReadSeen, RememberSeen, history
  <1>1. CASE HandleMessage
    <2>1. PICK m \in link.wire :
            /\ reader' = IF m \in seen \/ ~allowed THEN reader
                         ELSE [Waiting EXCEPT !.at = "show", !.letter = m]
            /\ link' = [link EXCEPT !.wire = @ \ {m}]
            /\ mixed' = (mixed \/ job.at # "off")
            /\ reader.at = "wait"
            /\ UNCHANGED <<phone, shown, refused>>
      BY <1>1 DEF HandleMessage, IsNext
    <2>2. reader = Waiting /\ m \in Rows
      BY <2>1 DEF SyncInv, SyncTypes
    <2>3. /\ reader' \in [at : {"wait", "show"}, letter : Rows \cup {0}, read : {{}}]
          /\ reader'.at = "wait" => reader' = Waiting
          /\ reader'.at = "show" => reader'.letter = m /\ m \notin seen
      BY <2>1, <2>2 DEF Waiting
    <2>4. link' \in Links /\ link'.wire \subseteq link'.sent
      BY <2>1 DEF SyncInv, SyncTypes
    <2>5. SyncTypes'
      BY <1>0, <2>1, <2>2, <2>3, <2>4 DEF SyncInv, SyncTypes, phone, spent
    <2>6. SeenInv'
      BY <1>0, <2>1, <2>3 DEF SyncInv, SeenInv, Accounted, phone
    <2>7. ~mixed' => job = NoJob
      BY <2>1 DEF SyncInv, SyncTypes
    <2>8. ASSUME Clean' PROVE reader'.at = "show" => shown[reader'.letter] = 0
      <3>1. job.added = {} /\ shown[m] \in 0..2
        BY <2>2, <2>7, <2>8, <1>0 DEF Clean, NoJob, SyncInv, SyncTypes
      <3>2. shown[m] > 0 => m \in seen
        BY <1>0, <1>c, <2>2, <2>8, <3>1 DEF SyncInv, AloneInv, Waiting
      <3>. QED
        BY <2>3, <3>1, <3>2
    <2>9. AloneInv'
      BY <1>0, <1>c, <2>1, <2>2, <2>3, <2>7, <2>8 DEF SyncInv, AloneInv, phone, NoJob, Waiting
    <2>. QED
      BY <2>5, <2>6, <2>9 DEF SyncInv
  <1>2. CASE ShowMessage
    <2>1. PICK m : m = reader.letter
      OBVIOUS
    <2>2. /\ reader.at = "show" /\ Notify(m) /\ reader' = [reader EXCEPT !.at = "read"]
          /\ UNCHANGED <<phone, link, mixed>>
      BY <1>2, <2>1 DEF ShowMessage
    <2>3. m \in Rows /\ m \in Letters
      BY <1>0, <2>1, <2>2 DEF SyncInv, SyncTypes
    <2>4. /\ shown' \in [Letters -> 0..2] /\ refused' \subseteq Letters
          /\ \A k \in Letters : Accounted(k) => Accounted(k)'
          /\ Accounted(m)'
          /\ \A k \in Letters : k # m => shown'[k] = shown[k]
          /\ shown'[m] \in {shown[m], shown[m] + 1}
      BY <1>0, <2>2, <2>3, NotifyIs
    <2>5. /\ reader' \in Readers
          /\ reader'.at = "read" /\ reader'.letter = m /\ reader'.read = reader.read
      BY <2>1, <2>2 DEF SyncInv, SyncTypes
    <2>6. SyncTypes'
      BY <1>0, <2>2, <2>3, <2>4, <2>5 DEF SyncInv, SyncTypes, phone, spent
    <2>7. SeenInv'
      <3>1. seen \cup disk \cup reader.read \cup job.seen \cup job.added \subseteq Letters
        BY <1>0 DEF SyncInv, SyncTypes
      <3>2. \A k \in seen \cup disk \cup reader.read \cup job.seen \cup job.added : Accounted(k)'
        BY <2>4, <3>1 DEF SyncInv, SeenInv
      <3>. QED
        BY <1>0, <2>2, <2>4, <2>5, <3>2 DEF SeenInv, phone, Accounted
    <2>8. AloneInv'
      <3>1. Clean => shown[m] = 0 /\ reader # Waiting
        BY <2>1, <2>2 DEF SyncInv, AloneInv, Waiting
      <3>2. reader # Waiting
        BY <2>2 DEF Waiting
      <3>. QED
        BY <1>0, <1>c, <2>2, <2>4, <2>5, <3>1, <3>2 DEF SyncInv, AloneInv, phone
    <2>. QED
      BY <2>6, <2>7, <2>8 DEF SyncInv
  <1>3. CASE ReadSeen
    <2>1. /\ reader.at = "read" /\ reader' = [reader EXCEPT !.at = "write", !.read = seen]
          /\ UNCHANGED <<phone, link, history>>
      BY <1>3 DEF ReadSeen
    <2>2. /\ reader' \in Readers
          /\ reader'.at = "write" /\ reader'.letter = reader.letter /\ reader'.read = seen
      BY <2>1 DEF SyncInv, SyncTypes
    <2>3. SyncTypes'
      BY <1>0, <2>1, <2>2 DEF SyncInv, SyncTypes, phone, history, spent
    <2>4. SeenInv'
      BY <1>0, <2>1, <2>2 DEF SyncInv, SeenInv, Accounted, phone, history
    <2>5. AloneInv'
      BY <1>0, <1>c, <2>1, <2>2 DEF SyncInv, AloneInv, phone, history, Waiting
    <2>. QED
      BY <2>3, <2>4, <2>5 DEF SyncInv
  <1>4. CASE RememberSeen
    <2>1. PICK ids : ids = reader.read \cup {reader.letter}
      OBVIOUS
    <2>2. /\ reader.at = "write" /\ seen' \in Kept(ids) /\ reader' = Waiting
          /\ UNCHANGED <<link, history>>
      BY <1>4, <2>1 DEF RememberSeen
    <2>3. ids \in SUBSET Rows
      BY <2>1, <2>2 DEF SyncInv, SyncTypes
    <2>4. /\ seen' \subseteq ids /\ Cardinality(seen') <= Remembered
          /\ Cardinality(Rows) <= Remembered => seen' = ids
      BY <2>2, <2>3, KeptIs
    <2>5. SyncTypes'
      BY <1>0, <2>2, <2>3, <2>4 DEF SyncInv, SyncTypes, Waiting, history, spent
    <2>6. SeenInv'
      BY <1>0, <2>1, <2>2, <2>4 DEF SyncInv, SeenInv, Accounted, Waiting, history
    <2>7. AloneInv'
      <3>1. reader # Waiting
        BY <2>2 DEF Waiting
      <3>2. ASSUME Clean PROVE job = NoJob /\ seen' = seen \cup {reader.letter}
        BY <2>1, <2>2, <2>4, <3>1, <3>2 DEF SyncInv, AloneInv, Clean
      <3>. QED
        BY <1>0, <1>c, <2>2, <3>2 DEF SyncInv, AloneInv, history, Waiting, NoJob
    <2>. QED
      BY <2>5, <2>6, <2>7 DEF SyncInv
  <1>. QED
    BY <1>1, <1>2, <1>3, <1>4

(* The job, while it is alone, has read SEEN_IDS as they are; what it does  *)
(* not know has not been shown.                                             *)
LEMMA JobHolds ==
    ASSUME SyncInv, Job
    PROVE  SyncInv'
  <1>0. /\ Rows' = Rows /\ Old' = Old
        /\ outbox' = outbox /\ Rows \subseteq Letters
        /\ UNCHANGED <<since, enabled, running, disk, allowed, cookie, link, reader, spent>>
    BY PhoneLeaves DEF PhoneSteps, Job, StartJob, JobReadsSeen, JobItem, JobWritesSeen, phone, Rows
  <1>c. Clean' => Clean
    BY <1>0 DEF Clean, spent, Job, StartJob, JobReadsSeen, JobItem, JobWritesSeen, history
  <1>1. CASE StartJob
    <2>1. PICK items \in SUBSET Rows :
            job' = [NoJob EXCEPT !.at = "fetched", !.items = items]
      BY <1>1 DEF StartJob, Newest, NewestOf
    <2>2. /\ job.at = "off" /\ mixed' = (mixed \/ reader # Waiting)
          /\ UNCHANGED <<phone, shown, refused>>
      BY <1>1 DEF StartJob
    <2>3. job = NoJob
      BY <2>2 DEF SyncInv, SyncTypes
    <2>4. /\ job' \in Jobs /\ job'.at = "fetched"
          /\ job'.seen = {} /\ job'.added = {}
      BY <2>1 DEF NoJob
    <2>5. SyncTypes'
      BY <1>0, <2>2, <2>4 DEF SyncInv, SyncTypes, phone, spent
    <2>6. SeenInv'
      BY <1>0, <2>2, <2>4 DEF SyncInv, SeenInv, Accounted, phone
    <2>7. AloneInv'
      BY <1>0, <1>c, <2>2, <2>3, <2>4 DEF SyncInv, AloneInv, phone, NoJob
    <2>. QED
      BY <2>5, <2>6, <2>7 DEF SyncInv
  <1>2. CASE JobReadsSeen
    <2>1. /\ job.at = "fetched" /\ job' = [job EXCEPT !.at = "loop", !.seen = seen]
          /\ UNCHANGED <<phone, history>>
      BY <1>2 DEF JobReadsSeen
    <2>2. /\ job' \in Jobs /\ job'.at = "loop"
          /\ job'.seen = seen /\ job'.added = {} /\ job.added = {} /\ job # NoJob
      <3>1. job.added = {} /\ job # NoJob /\ seen \in SUBSET Rows
        BY <2>1, AtRest DEF SyncInv, SyncTypes
      <3>2. job \in Jobs
        BY DEF SyncInv, SyncTypes
      <3>. QED
        BY <2>1, <3>1, <3>2
    <2>3. SyncTypes'
      BY <1>0, <2>1, <2>2 DEF SyncInv, SyncTypes, phone, history, spent
    <2>4. SeenInv'
      BY <1>0, <2>1, <2>2 DEF SyncInv, SeenInv, Accounted, phone, history
    <2>5. AloneInv'
      BY <1>0, <1>c, <2>1, <2>2 DEF SyncInv, AloneInv, phone, history
    <2>. QED
      BY <2>3, <2>4, <2>5 DEF SyncInv
  <1>3. CASE JobItem
    <2>1. PICK m \in job.items :
            /\ job' = [job EXCEPT !.items = @ \ {m},
                                 !.added = IF JobKnows(m) THEN @ ELSE @ \cup {m}]
            /\ IF JobKnows(m) \/ m \in Old
               THEN UNCHANGED <<shown, refused>> ELSE Notify(m)
            /\ job.at = "loop" /\ UNCHANGED <<mixed, phone>>
      BY <1>3 DEF JobItem, IsNext
    <2>2. m \in Rows /\ m \in Letters /\ job # NoJob
      BY <1>0, <2>1 DEF SyncInv, SyncTypes, NoJob
    <2>3. /\ job' \in Jobs /\ job'.at = "loop"
          /\ job'.seen = job.seen
      BY <2>1, <2>2 DEF SyncInv, SyncTypes
    <2>4. job'.added = IF JobKnows(m) THEN job.added ELSE job.added \cup {m}
      BY <2>1 DEF SyncInv, SyncTypes
    <2>5. /\ shown' \in [Letters -> 0..2] /\ refused' \subseteq Letters
          /\ \A k \in Letters : Accounted(k) => Accounted(k)'
          /\ \A k \in Letters : k # m => shown'[k] = shown[k]
          /\ shown'[m] = shown[m] \/ (shown'[m] = shown[m] + 1 /\ ~JobKnows(m))
          /\ JobKnows(m) \/ Accounted(m)'
      <3>1. CASE JobKnows(m) \/ m \in Old
        BY <1>0, <2>1, <3>1 DEF SyncInv, SyncTypes, Accounted
      <3>2. CASE ~(JobKnows(m) \/ m \in Old)
        BY <1>0, <2>1, <2>2, <3>2, NotifyIs
      <3>. QED
        BY <3>1, <3>2
    <2>6. SyncTypes'
      BY <1>0, <2>1, <2>3, <2>5 DEF SyncInv, SyncTypes, phone, spent
    <2>7. SeenInv'
      <3>2. reader.at \in {"read", "write"} => reader.letter \in Letters
        BY <1>0 DEF SyncInv, SyncTypes
      <3>3. seen \cup disk \cup reader.read \cup job.seen \cup job.added \subseteq Letters
        BY <1>0 DEF SyncInv, SyncTypes
      <3>4. \A k \in seen \cup disk \cup reader.read \cup job.seen \cup job.added : Accounted(k)'
        BY <2>5, <3>3 DEF SyncInv, SeenInv
      <3>5. reader.at \in {"read", "write"} => Accounted(reader.letter)'
        BY <1>0, <2>5, <3>2 DEF SyncInv, SeenInv, Accounted
      <3>6. \A k \in job'.added : Accounted(k)'
        BY <2>4, <2>5, <3>4
      <3>. QED
        BY <1>0, <2>1, <2>3, <3>4, <3>5, <3>6 DEF SeenInv, Accounted, phone
    <2>8. AloneInv'
      <3>1. ~mixed => reader = Waiting
        BY <2>2 DEF SyncInv, AloneInv
      <3>2. ASSUME Clean
            PROVE  /\ job.seen = seen
                   /\ \A k \in Letters :
                        shown[k] <= 1 /\ (shown[k] > 0 => k \in seen \/ k \in job.added)
        <4>1. reader.at = "wait" /\ job.at = "loop"
          BY <2>1, <3>1, <3>2 DEF Clean, Waiting
        <4>2. /\ job.at = "loop" => job.seen = seen
              /\ \A k \in Letters : shown[k] <= 1
              /\ \A k \in Letters : shown[k] > 0 =>
                    k \in seen \/ k \in job.added
                      \/ (reader.at \in {"read", "write"} /\ k = reader.letter)
          BY <3>2 DEF SyncInv, AloneInv
        <4>. QED
          BY <4>1, <4>2
      <3>k. ASSUME Clean PROVE JobKnows(m) \/ shown[m] = 0
        <4>1. shown[m] \in 0..2
          BY <2>2 DEF SyncInv, SyncTypes
        <4>2. /\ job.seen = seen
              /\ shown[m] > 0 => m \in seen \/ m \in job.added
          BY <2>2, <3>k, <3>2
        <4>. QED
          BY <4>1, <4>2 DEF JobKnows
      <3>3. ASSUME Clean', NEW k \in Letters
            PROVE  shown'[k] <= 1 /\ (shown'[k] > 0 => k \in seen \/ k \in job'.added)
        <4>1. shown[k] <= 1 /\ (shown[k] > 0 => k \in seen \/ k \in job.added)
          BY <1>c, <3>2, <3>3
        <4>2. CASE k # m
          BY <2>4, <2>5, <4>1, <4>2
        <4>3. CASE k = m
          BY <1>c, <2>4, <2>5, <3>k, <3>3, <4>1, <4>3
        <4>. QED
          BY <4>2, <4>3
      <3>4. Clean' => seen' = job'.seen /\ reader' = Waiting
        BY <1>0, <1>c, <2>1, <2>3, <3>1 DEF SyncInv, AloneInv, Clean, phone
      <3>5. ~mixed' => reader' = Waiting
        BY <1>0, <2>1, <3>1
      <3>6. seen' = seen /\ Waiting.at = "wait"
        BY <2>1 DEF phone, Waiting
      <3>. QED
        BY <3>3, <3>4, <3>5, <3>6 DEF AloneInv
    <2>. QED
      BY <2>6, <2>7, <2>8 DEF SyncInv
  <1>4. CASE JobWritesSeen
    <2>1. PICK ids : ids = job.seen \cup job.added
      OBVIOUS
    <2>2. job.at = "loop" /\ seen' \in Kept(ids) /\ job' = NoJob /\ UNCHANGED history
      BY <1>4, <2>1 DEF JobWritesSeen, JobCuts
    <2>3. ids \in SUBSET Rows /\ job # NoJob
      BY <2>1, <2>2 DEF SyncInv, SyncTypes, NoJob
    <2>4. /\ seen' \subseteq ids /\ Cardinality(seen') <= Remembered
          /\ Cardinality(Rows) <= Remembered => seen' = ids
      BY <2>2, <2>3, KeptIs
    <2>5. SyncTypes'
      BY <1>0, <2>2, <2>3, <2>4 DEF SyncInv, SyncTypes, NoJob, history, spent
    <2>6. SeenInv'
      BY <1>0, <2>1, <2>2, <2>4 DEF SyncInv, SeenInv, Accounted, NoJob, history
    <2>7. AloneInv'
      <3>1. ASSUME Clean PROVE reader = Waiting /\ seen' = seen \cup job.added
        BY <2>1, <2>2, <2>3, <2>4, <3>1 DEF SyncInv, AloneInv, Clean
      <3>. QED
        BY <1>0, <1>c, <2>2, <3>1 DEF SyncInv, AloneInv, history, Waiting, NoJob
    <2>. QED
      BY <2>5, <2>6, <2>7 DEF SyncInv
  <1>. QED
    BY <1>1, <1>2, <1>3, <1>4 DEF Job

(* After a fault nothing is promised of repeats, and what has been lost was *)
(* in nobody's hands or came off the disk.                                  *)
LEMMA FaultHolds ==
    ASSUME SyncInv, StopJob \/ Kill
    PROVE  SyncInv'
  <1>1. /\ UNCHANGED <<outbox, since, enabled, disk, allowed, cookie, shown, refused, mixed>>
        /\ changes' = changes /\ faults' \in 0..MaxFaults /\ faults' # 0 /\ job' = NoJob
        /\ seen' \in {seen, disk} /\ running' \in {running, enabled}
        /\ link' \in {link, Closed} /\ reader' \in {reader, Waiting}
        /\ Rows' = Rows /\ Old' = Old
    BY PhoneLeaves, SyncAssumption
       DEF PhoneSteps, StopJob, Kill, Fault, phone, history, SyncInv, SyncTypes, SyncAssumption
  <1>2. /\ link' \in Links /\ link'.wire \subseteq link'.sent
        /\ reader' \in Readers
        /\ reader'.at = "wait" => reader' = Waiting
        /\ reader'.at # "wait" => reader'.letter \in Rows
        /\ job' \in Jobs
        /\ job'.at = "off"
    BY <1>1, AtRest DEF SyncInv, SyncTypes
  <1>3. SyncTypes'
    BY <1>1, <1>2 DEF SyncInv, SyncTypes
  <1>4. SeenInv'
    BY <1>1 DEF SyncInv, SeenInv, Accounted, Waiting, NoJob
  <1>5. AloneInv'
    BY <1>1 DEF AloneInv, Clean
  <1>. QED
    BY <1>3, <1>4, <1>5 DEF SyncInv

(* The user's switches and the write to the disk move no set of ids.        *)
LEMMA PhoneHolds ==
    ASSUME SyncInv, WriteDisk \/ Switch \/ Pause \/ ChangePermission \/ ChangeLogin
    PROVE  SyncInv'
  <1>1. /\ UNCHANGED <<outbox, since, seen, reader, job, history, faults>>
        /\ changes' \in 0..MaxChanges /\ disk' \in {seen, disk}
        /\ link' \in {link, Closed}
        /\ Rows' = Rows /\ Old' = Old
    <2>1. Rows' = Rows /\ Old' = Old
      BY PhoneLeaves DEF PhoneSteps
    <2>2. changes \in 0..MaxChanges /\ MaxChanges \in Nat
      BY SyncAssumption DEF SyncInv, SyncTypes, SyncAssumption
    <2>3. changes' \in 0..MaxChanges /\ faults' = faults
      BY <2>2 DEF WriteDisk, Switch, Pause, ChangePermission, ChangeLogin, Change, spent
    <2>4. UNCHANGED <<outbox, since, seen, reader, job, history>>
      BY DEF WriteDisk, Switch, Pause, ChangePermission, ChangeLogin
    <2>5. disk' \in {seen, disk} /\ link' \in {link, Closed}
      BY DEF WriteDisk, Switch, Pause, ChangePermission, ChangeLogin
    <2>. QED
      BY <2>1, <2>3, <2>4, <2>5
  <1>2. /\ enabled' \in BOOLEAN /\ running' \in BOOLEAN /\ (running' => enabled')
        /\ allowed' \in BOOLEAN /\ cookie' \in BOOLEAN
    <2>1. /\ enabled \in BOOLEAN /\ running \in BOOLEAN /\ (running => enabled)
          /\ allowed \in BOOLEAN /\ cookie \in BOOLEAN
      BY DEF SyncInv, SyncTypes
    <2>2. CASE WriteDisk
      BY <2>1, <2>2 DEF WriteDisk
    <2>p. CASE Pause
      <3>1. running' = FALSE /\ UNCHANGED <<enabled, allowed, cookie>>
        BY <2>p DEF Pause
      <3>. QED
        BY <2>1, <3>1, Zenon
    <2>3. CASE Switch
      BY <2>1, <2>3 DEF Switch
    <2>4. CASE ChangePermission
      BY <2>1, <2>4 DEF ChangePermission
    <2>5. CASE ChangeLogin
      BY <2>1, <2>5 DEF ChangeLogin
    <2>. QED
      BY <2>2, <2>p, <2>3, <2>4, <2>5
  <1>3. link' \in Links /\ link'.wire \subseteq link'.sent
    BY <1>1, AtRest DEF SyncInv, SyncTypes
  <1>4. SyncTypes'
    BY <1>1, <1>2, <1>3 DEF SyncInv, SyncTypes, history
  <1>5. SeenInv'
    BY <1>1 DEF SyncInv, SeenInv, Accounted, history
  <1>6. AloneInv'
    BY <1>1 DEF SyncInv, AloneInv, Clean, history
  <1>. QED
    BY <1>4, <1>5, <1>6 DEF SyncInv

LEMMA NextSyncHolds == ASSUME SyncInv, [SyncNext]_syncVars PROVE SyncInv'
  <1>1. CASE \E m \in Letters : NewLetter(m) \/ Answer(m)
    BY <1>1, ServerHolds
  <1>2. CASE Poll \/ Connect \/ Disconnect
    BY <1>2, LinkHolds
  <1>3. CASE HandleMessage \/ ShowMessage \/ ReadSeen \/ RememberSeen
    BY <1>3, ReaderHolds
  <1>4. CASE Job
    BY <1>4, JobHolds
  <1>5. CASE StopJob \/ Kill
    BY <1>5, FaultHolds
  <1>6. CASE WriteDisk \/ Switch \/ Pause \/ ChangePermission \/ ChangeLogin
    BY <1>6, PhoneHolds
  <1>7. CASE UNCHANGED syncVars
    <2>1. /\ UNCHANGED <<outbox, phone, link, reader, job, history, spent>>
          /\ Rows' = Rows /\ Old' = Old
      BY <1>7 DEF syncVars, Rows, Old, phone
    <2>2. SyncTypes'
      BY <2>1 DEF SyncInv, SyncTypes, phone, history, spent
    <2>3. SeenInv' /\ AloneInv'
      BY <2>1 DEF SyncInv, SeenInv, AloneInv, Accounted, Clean, phone, history, spent
    <2>. QED
      BY <2>2, <2>3 DEF SyncInv
  <1>. QED
    BY <1>1, <1>2, <1>3, <1>4, <1>5, <1>6, <1>7 DEF SyncNext, Service

LEMMA SyncAlways == SyncSpec => []SyncInv
  <1>1. SyncInit => SyncInv
    BY InitSync
  <1>2. SyncInv /\ [SyncNext]_syncVars => SyncInv'
    BY NextSyncHolds
  <1>. QED
    BY <1>1, <1>2, PTL DEF SyncSpec

(* The phone's preferences, the connection and the hands of the two threads *)
(* keep their types, and SEEN_IDS never holds more than it may.             *)
THEOREM SyncTypesHold ==
    SyncSpec => []SyncTypeOK
  <1>1. SyncInv => SyncTypeOK
    BY DEF SyncInv, SyncTypes, SyncTypeOK, Rows
  <1>. QED
    BY <1>1, SyncAlways, PTL

(* However rememberSeen and the job overwrite each other's SEEN_IDS, and    *)
(* whatever a kill brings back from the disk, an id in it hides no letter   *)
(* that was neither notified nor refused nor old.                           *)
THEOREM NothingHiddenUnseen ==
    SyncSpec => []SeenWasShown
  <1>1. SyncInv => SeenWasShown
    BY DEF SyncInv, SeenInv, Accounted, SeenWasShown
  <1>. QED
    BY <1>1, SyncAlways, PTL

(* Without a fault, with the two never at work together and room for every  *)
(* id, neither the service nor the job notifies a letter again.             *)
THEOREM NotifiedOnce ==
    SyncSpec => []NoNeedlessRepeat
  <1>1. SyncInv => NoNeedlessRepeat
    BY DEF SyncInv, AloneInv, Clean, NoNeedlessRepeat
  <1>. QED
    BY <1>1, SyncAlways, PTL
=============================================================================
