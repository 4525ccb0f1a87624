-------------------------- MODULE OutboxLifecycle --------------------------
(***************************************************************************)
(* What the outbox promises about a message, without leases, devices or    *)
(* clocks: it is queued once, a bounded number of delivery attempts is     *)
(* charged to it one by one, the last of which delivers it or gives it up, *)
(* and whatever its state, the user's answer ends it for good.             *)
(***************************************************************************)
EXTENDS Naturals

CONSTANTS Messages, MaxAttempts

VARIABLE entry          \* phase and charged attempts of every message

Entry == [phase : {"absent", "pending", "delivered", "failed", "answered"},
          attempts : 0..MaxAttempts]

Unsent == [phase |-> "absent", attempts |-> 0]

Init == entry = [m \in Messages |-> Unsent]

Queued(old, new) == old = Unsent /\ new = [old EXCEPT !.phase = "pending"]

Charged(old, new) ==
    /\ old.phase = "pending"
    /\ new.attempts = old.attempts + 1

Retried(old, new) ==
    /\ Charged(old, new)
    /\ new.phase = "pending"
    /\ new.attempts < MaxAttempts

Ended(old, new) ==
    /\ Charged(old, new)
    /\ new.phase \in {"delivered", "failed"}

Answered(old, new) ==
    /\ old.phase # "absent"
    /\ new = [old EXCEPT !.phase = "answered"]

(* One transaction may move several messages on, each by one step.         *)
Next ==
    /\ entry' \in [Messages -> Entry]
    /\ \A m \in Messages :
          \/ entry'[m] = entry[m]
          \/ Queued(entry[m], entry'[m])
          \/ Retried(entry[m], entry'[m])
          \/ Ended(entry[m], entry'[m])
          \/ Answered(entry[m], entry'[m])

Spec == Init /\ [][Next]_entry
=============================================================================
