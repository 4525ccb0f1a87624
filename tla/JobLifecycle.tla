---------------------------- MODULE JobLifecycle ----------------------------
(***************************************************************************)
(* What the job table promises, without workers, leases or clocks: the     *)
(* life of a job as its row and the worker_job_completed events show it    *)
(* (the status comments of runtime_store.py, lines 1295-1786).  A job is   *)
(* submitted once, is attempted a bounded number of times, and is settled  *)
(* exactly once, in one of three ways.                                     *)
(***************************************************************************)
EXTENDS Naturals

CONSTANTS JobIds, Periodic, MaxAttempts

VARIABLE life           \* phase, attempts and completion events of every job

Life == [phase : {"absent", "open", "succeeded", "failed"},
         attempts : 0..MaxAttempts, events : {0, 1}]

Unborn == [phase |-> "absent", attempts |-> 0, events |-> 0]

Init == life = [j \in JobIds |-> Unborn]

Submitted(old, new) == old = Unborn /\ new = [Unborn EXCEPT !.phase = "open"]

Attempted(old, new) ==
    /\ old.phase = "open"
    /\ old.attempts < MaxAttempts
    /\ new = [old EXCEPT !.attempts = @ + 1]

Finished(old, new) ==
    /\ old.phase = "open"
    /\ old.attempts > 0
    /\ new = [old EXCEPT !.phase = "succeeded", !.events = 1]

(* A newer window of the same job type replaces a periodic job.            *)
Retired(j, old, new) ==
    /\ j \in Periodic
    /\ old.phase = "open"
    /\ new = [old EXCEPT !.phase = "succeeded"]

GivenUp(old, new) ==
    /\ old.phase = "open"
    /\ old.attempts = MaxAttempts
    /\ new = [old EXCEPT !.phase = "failed"]

(* One transaction may move several jobs on, each by one step.             *)
Next ==
    /\ life' \in [JobIds -> Life]
    /\ \A j \in JobIds :
          \/ life'[j] = life[j]
          \/ Submitted(life[j], life'[j])
          \/ Attempted(life[j], life'[j])
          \/ Finished(life[j], life'[j])
          \/ Retired(j, life[j], life'[j])
          \/ GivenUp(life[j], life'[j])

Spec == Init /\ [][Next]_life
=============================================================================
