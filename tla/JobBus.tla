-------------------------------- MODULE JobBus --------------------------------
(***************************************************************************)
(* The daemon's list of jobs (src/nyshporka/core/jobs.py): what a job's    *)
(* state may become, the idempotency keys, the stoppers.  Every mutation   *)
(* runs in one event loop with no await between its reads and its writes   *)
(* (no caller passes a precheck), so each is one step.  Modules about the  *)
(* jobs' executors extend this one.                                        *)
(***************************************************************************)
EXTENDS Naturals, FiniteSets

CONSTANTS
  Jobs,     \* job ids; an id is never given out twice
  Keys,     \* what a job is asked to do: its idempotency key
  NoJob, NoKey

ASSUME BusNames == NoJob \notin Jobs /\ NoKey \notin Keys

VARIABLES
  state,     \* job: its JobState, "none" before it is made, "gone" once forgotten
  key,       \* job: its key
  idem,      \* key: the job it stands for
  expired,   \* auxiliary: keys that ran out while their job was still going
  stoppers   \* jobs that have something registered to stop them by

bus == <<state, key, idem, expired, stoppers>>

Unfinished == {"queued", "running"}
Final      == {"done", "error", "cancelled"}
JobStates  == Unfinished \cup Final \cup {"none", "gone"}

BusType ==
  /\ state \in [Jobs -> JobStates]
  /\ key \in [Jobs -> Keys \cup {NoKey}]
  /\ idem \in [Keys -> Jobs \cup {NoJob}]
  /\ expired \subseteq Keys
  /\ stoppers \subseteq Jobs

BusInit ==
  /\ state = [j \in Jobs |-> "none"]
  /\ key = [j \in Jobs |-> NoKey]
  /\ idem = [k \in Keys |-> NoJob]
  /\ expired = {}
  /\ stoppers = {}

\* _idem_lookup: only a job that is still going answers for its key.
Hit(k) == idem[k] # NoJob /\ state[idem[k]] \in Unfinished

\* Mutation of Enqueue: the key is not looked up.
Enqueue_blind(j, k) ==
  /\ state[j] = "none"
  /\ state' = [state EXCEPT ![j] = "queued"]
  /\ key' = [key EXCEPT ![j] = k]
  /\ idem' = [idem EXCEPT ![k] = j]
  /\ UNCHANGED <<expired, stoppers>>

\* enqueue: a new job, unless the key's job is still going (then that one is
\* returned and nothing changes).
Enqueue(j, k) ==
  /\ state[j] = "none"
  /\ ~Hit(k)
  /\ state' = [state EXCEPT ![j] = "queued"]
  /\ key' = [key EXCEPT ![j] = k]
  /\ idem' = [idem EXCEPT ![k] = j]
  /\ UNCHANGED <<expired, stoppers>>

\* Mutation of Update: the last state written wins.
Update_plain(j, s) ==
  state' = [state EXCEPT ![j] = IF @ = "gone" THEN @ ELSE s]

\* update: a cancelled job stays cancelled, a forgotten one is not there.
Update(j, s) ==
  state' = [state EXCEPT ![j] = IF @ \in {"cancelled", "gone"} THEN @ ELSE s]

\* bus.cancelled
Cancelled(j) == state[j] = "cancelled"

\* cancel: the stopper is taken off (the caller of this operator runs it), the
\* key freed, the state set.
CancelJob(j) ==
  /\ state[j] \in Unfinished
  /\ stoppers' = stoppers \ {j}
  /\ idem' = [k \in Keys |-> IF idem[k] = j THEN NoJob ELSE idem[k]]
  /\ Update(j, "cancelled")
  /\ UNCHANGED <<key, expired>>

\* forget_finished
Forget ==
  /\ \E j \in Jobs : state[j] \in Final
  /\ state' = [j \in Jobs |-> IF state[j] \in Final THEN "gone" ELSE state[j]]
  /\ stoppers' = {j \in stoppers : state[j] \notin Final}
  /\ UNCHANGED <<key, idem, expired>>

\* IDEMPOTENCY_TTL_SEC after the enqueue the key is no longer remembered.
Expire(k) ==
  /\ Hit(k)
  /\ idem' = [idem EXCEPT ![k] = NoJob]
  /\ expired' = expired \cup {k}
  /\ UNCHANGED <<state, key, stoppers>>

\* load: the daemon dies and is started again; what was not finished is an error.
Reload ==
  /\ state' = [j \in Jobs |-> IF state[j] \in Unfinished THEN "error" ELSE state[j]]
  /\ idem' = [k \in Keys |-> NoJob]
  /\ stoppers' = {}
  /\ UNCHANGED <<key, expired>>

\* A retry after a lost answer does not set a second job: two unfinished jobs
\* share a key only once the key has run out (IDEMPOTENCY_TTL_SEC).
OneJobPerKey ==
  \A i, j \in Jobs :
     /\ state[i] \in Unfinished /\ state[j] \in Unfinished
     /\ key[i] = key[j] /\ key[i] \notin expired
     => i = j

\* A cancelled job never calls itself anything else again, whatever its
\* executor writes when it comes to its end; it can only be forgotten.
CancelledStays ==
  [][\A j \in Jobs : state[j] = "cancelled" => state'[j] \in {"cancelled", "gone"}]_state

=============================================================================
