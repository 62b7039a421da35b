------------------------------- MODULE ReadJobs -------------------------------
(***************************************************************************)
(* Reading a case from the daemon (src/nyshporka/daemon/workers.py): one   *)
(* asyncio task per job, one gate to the card, the runner's processes.     *)
(* The event loop runs one task at a time, so what lies between two awaits *)
(* is one step, and everything else may happen at an await: waiting for    *)
(* the gate, the look at the registry of live runs (a thread), the nap,    *)
(* the start of each process, the registration (a thread), the reading.    *)
(***************************************************************************)
EXTENDS JobBus

CONSTANTS
  Shards,     \* runner processes of one job
  Faults,     \* what may go wrong: a subset of FaultKinds
  MaxFaults,  \* bound: how often
  MaxForeign  \* bound: how many runs the terminal starts

FaultKinds == {"look", "spawn", "register", "pipe", "kill", "crash"}

ASSUME ReadSizes == /\ Shards \in Nat \ {0}
                    /\ MaxFaults \in Nat
                    /\ MaxForeign \in Nat
                    /\ Faults \subseteq FaultKinds

VARIABLES
  task,      \* job: where its asyncio task is
  gate,      \* the job that holds the gate to the card
  seen,      \* job: did the look find another case being read?
  made,      \* job: runner processes started so far
  proc,      \* job: runner processes alive
  stopping,  \* jobs with _stop_reading under way
  foreign,   \* a run of the terminal is in the registry of live runs
  toCome,    \* how many more runs the terminal will start
  faults     \* how many faults may still happen

work == <<task, gate, seen, made, proc, stopping>>
outside == <<foreign, toCome>>
vars == <<state, key, idem, expired, stoppers, task, gate, seen, made, proc,
          stopping, foreign, toCome, faults>>

Places == {"off", "gate", "look", "looked", "nap", "spawn", "register", "read",
           "cut", "share", "dead"}

GoTo(j, where) == task' = [task EXCEPT ![j] = where]

\* The task ends and lets the gate go.
EndTask(j) == GoTo(j, "off") /\ gate' = NoJob

Fault(kind) == kind \in Faults /\ faults > 0 /\ faults' = faults - 1

-----------------------------------------------------------------------------
(* The task of a job.                                                      *)

\* _start_read: the job is put in the list and its task is made.
Request(j, k) ==
  /\ Enqueue(j, k)
  /\ GoTo(j, "gate")
  /\ UNCHANGED <<gate, seen, made, proc, stopping, outside, faults>>

\* Mutation of Gate: the gate lets everybody in.
Gate_open(j) ==
  /\ task[j] = "gate"
  /\ gate' = j
  /\ GoTo(j, "look")
  /\ UNCHANGED <<bus, seen, made, proc, stopping, outside, faults>>

\* _run_read: the gate is free; a job cancelled while it waited ends here.
Gate(j) ==
  /\ task[j] = "gate"
  /\ gate = NoJob
  /\ IF Cancelled(j)
     THEN GoTo(j, "off") /\ UNCHANGED gate
     ELSE GoTo(j, "look") /\ gate' = j
  /\ UNCHANGED <<bus, seen, made, proc, stopping, outside, faults>>

\* live.others, in a thread.  Processes a failure left behind are in the registry
\* too, if they got that far and read another case.
Look(j) ==
  /\ task[j] = "look"
  /\ \E busy \in BOOLEAN :
       /\ busy = foreign \/ (busy /\ \E i \in Jobs \ {j} : proc[i] > 0)
       /\ seen' = [seen EXCEPT ![j] = busy]
  /\ GoTo(j, "looked")
  /\ UNCHANGED <<bus, gate, made, proc, stopping, outside, faults>>

\* runs.lock or the registry's file failed: nothing catches it, the task dies of
\* the exception, the gate is let go, and the job keeps the state it had.
LookFails(j) ==
  /\ task[j] = "look"
  /\ Fault("look")
  /\ GoTo(j, "dead")
  /\ gate' = NoJob
  /\ UNCHANGED <<bus, seen, made, proc, stopping, outside>>

\* The loop takes the thread's answer: another look later, or RUNNING.
Proceed(j) ==
  /\ task[j] = "looked"
  /\ \/ /\ seen[j]
        /\ GoTo(j, "nap")
        /\ UNCHANGED state
     \/ /\ ~seen[j]
        /\ GoTo(j, "spawn")
        /\ Update(j, "running")
  /\ UNCHANGED <<key, idem, expired, stoppers, gate, seen, made, proc, stopping,
                 outside, faults>>

\* FOREIGN_POLL_SEC later; a job cancelled meanwhile ends here.
Wake(j) ==
  /\ task[j] = "nap"
  /\ IF Cancelled(j)
     THEN EndTask(j)
     ELSE GoTo(j, "look") /\ UNCHANGED gate
  /\ UNCHANGED <<bus, seen, made, proc, stopping, outside, faults>>

\* Mutation of Spawn: one process too many.
Spawn_more(j) ==
  /\ task[j] = "spawn"
  /\ made' = [made EXCEPT ![j] = @ + 1]
  /\ proc' = [proc EXCEPT ![j] = @ + 1]
  /\ IF made[j] < Shards
     THEN UNCHANGED <<task, stoppers>>
     ELSE GoTo(j, "register") /\ stoppers' = stoppers \cup {j}
  /\ UNCHANGED <<state, key, idem, expired, gate, seen, stopping, outside, faults>>

\* create_subprocess_exec, one process after another; after the last one the
\* stopper is registered.
Spawn(j) ==
  /\ task[j] = "spawn"
  /\ made' = [made EXCEPT ![j] = @ + 1]
  /\ proc' = [proc EXCEPT ![j] = @ + 1]
  /\ IF made[j] + 1 < Shards
     THEN UNCHANGED <<task, stoppers>>
     ELSE GoTo(j, "register") /\ stoppers' = stoppers \cup {j}
  /\ UNCHANGED <<state, key, idem, expired, gate, seen, stopping, outside, faults>>

\* A process cannot be started, the registry's lock times out (LockTimeout is no
\* OSError), or a line of one process's output cannot be read (the others are
\* waited for): the job is an error.  Nobody ends its processes but the Job
\* Object, where there is one.
Breaks(j) ==
  /\ \/ task[j] = "spawn" /\ Fault("spawn")
     \/ task[j] = "register" /\ Fault("register")
     \/ task[j] = "read" /\ proc[j] <= 1 /\ Fault("pipe")
     \/ task[j] = "cut" /\ Fault("pipe")
  /\ Update(j, "error")
  /\ stoppers' = stoppers \ {j}
  /\ EndTask(j)
  /\ \E left \in {0, proc[j]} : proc' = [proc EXCEPT ![j] = left]
  /\ UNCHANGED <<key, idem, expired, seen, made, stopping, outside>>

\* live.register, in a thread, for each process.
Register(j) ==
  /\ task[j] = "register"
  /\ GoTo(j, "read")
  /\ UNCHANGED <<bus, gate, seen, made, proc, stopping, outside, faults>>

\* The output of all the processes has come to its end, or a stop has cut it off.
Heard(j) == (task[j] = "read" /\ proc[j] = 0) \/ task[j] = "cut"

\* Mutation of Finish: the end of the output is not waited for.
Finish_early(j) ==
  /\ task[j] \in {"read", "cut"}
  /\ stoppers' = stoppers \ {j}
  /\ \/ Update(j, "done") /\ GoTo(j, "share") /\ UNCHANGED gate
     \/ \E s \in {"done", "error"} : Update(j, s) /\ EndTask(j)
  /\ UNCHANGED <<key, idem, expired, seen, made, proc, stopping, outside, faults>>

\* Mutation of Finish: the job's state is left to somebody else.
Finish_silent(j) ==
  /\ Heard(j)
  /\ stoppers' = stoppers \ {j}
  /\ EndTask(j)
  /\ UNCHANGED <<state, key, idem, expired, seen, made, proc, stopping, outside, faults>>

\* Mutation of Finish: the gate is not let go when the reading was cancelled.
Finish_kept(j) ==
  /\ Heard(j)
  /\ stoppers' = stoppers \ {j}
  /\ IF Cancelled(j)
     THEN GoTo(j, "off") /\ UNCHANGED <<state, gate>>
     ELSE \E s \in {"done", "error"} : Update(j, s) /\ EndTask(j)
  /\ UNCHANGED <<key, idem, expired, seen, made, proc, stopping, outside, faults>>

\* _run_read_locked: the reading is over.  A cancelled job just ends; the
\* others are done or an error as the disk says, and a full reading may be
\* shared before the gate is let go.
Finish(j) ==
  /\ Heard(j)
  /\ stoppers' = stoppers \ {j}
  /\ IF Cancelled(j)
     THEN EndTask(j) /\ UNCHANGED state
     ELSE \/ Update(j, "done") /\ GoTo(j, "share") /\ UNCHANGED gate
          \/ \E s \in {"done", "error"} : Update(j, s) /\ EndTask(j)
  /\ UNCHANGED <<key, idem, expired, seen, made, proc, stopping, outside, faults>>

\* _autoshare: it raises nothing.
Shared(j) ==
  /\ task[j] = "share"
  /\ EndTask(j)
  /\ UNCHANGED <<bus, seen, made, proc, stopping, outside, faults>>

-----------------------------------------------------------------------------
(* Around it.                                                              *)

\* bus.cancel: the stopper starts _stop_reading.
Cancel(j) ==
  /\ CancelJob(j)
  /\ stopping' = IF j \in stoppers THEN stopping \cup {j} ELSE stopping
  /\ UNCHANGED <<task, gate, seen, made, proc, outside, faults>>

\* _stop_reading: every process of the job, with all it started.
StopReading(j) ==
  /\ j \in stopping
  /\ proc' = [proc EXCEPT ![j] = 0]
  /\ stopping' = stopping \ {j}
  /\ UNCHANGED <<bus, task, gate, seen, made, outside, faults>>

\* Some of them cannot be ended, or are children of one that has exited: what they
\* write is listened to for STOP_DRAIN_SEC more and then cut off, if the task had
\* come to listen.
StopFails(j) ==
  /\ j \in stopping
  /\ Fault("kill")
  /\ \E left \in 1..proc[j] : proc' = [proc EXCEPT ![j] = left]
  /\ stopping' = stopping \ {j}
  /\ IF task[j] = "read" THEN GoTo(j, "cut") ELSE UNCHANGED task
  /\ UNCHANGED <<bus, gate, seen, made, outside>>

\* A runner process comes to its end.
ProcEnds(j) ==
  /\ proc[j] > 0
  /\ proc' = [proc EXCEPT ![j] = @ - 1]
  /\ UNCHANGED <<bus, task, gate, seen, made, stopping, outside, faults>>

\* "Clear the list", and time passing for a key.
Tidy ==
  /\ Forget \/ \E k \in Keys : Expire(k)
  /\ UNCHANGED <<work, outside, faults>>

\* `nysh read` in a terminal enters the registry of live runs, or leaves it.
ForeignStarts ==
  /\ ~foreign /\ toCome > 0
  /\ foreign' = TRUE
  /\ toCome' = toCome - 1
  /\ UNCHANGED <<bus, work, faults>>

ForeignEnds ==
  /\ foreign
  /\ foreign' = FALSE
  /\ UNCHANGED <<bus, work, toCome, faults>>

\* The daemon dies and is started again.  Its children die with it where there is
\* a Job Object (core/proctree.py), and go on reading where there is none.
Restart ==
  /\ Fault("crash")
  /\ Reload
  /\ task' = [j \in Jobs |-> "off"]
  /\ gate' = NoJob
  /\ proc' \in {proc, [j \in Jobs |-> 0]}
  /\ stopping' = {}
  /\ UNCHANGED <<seen, made, outside>>

-----------------------------------------------------------------------------
Init ==
  /\ BusInit
  /\ task = [j \in Jobs |-> "off"]
  /\ gate = NoJob
  /\ seen = [j \in Jobs |-> FALSE]
  /\ made = [j \in Jobs |-> 0]
  /\ proc = [j \in Jobs |-> 0]
  /\ stopping = {}
  /\ foreign = FALSE
  /\ toCome = MaxForeign
  /\ faults = MaxFaults

TaskStep(j) ==
  \/ Gate(j) \/ Look(j) \/ Proceed(j) \/ Wake(j) \/ Spawn(j) \/ Register(j)
  \/ Finish(j) \/ Shared(j)

Next ==
  \/ \E j \in Jobs, k \in Keys : Request(j, k)
  \/ \E j \in Jobs : TaskStep(j) \/ LookFails(j) \/ Breaks(j) \/ Cancel(j)
                     \/ StopReading(j) \/ StopFails(j) \/ ProcEnds(j)
  \/ Tidy \/ ForeignStarts \/ ForeignEnds \/ Restart

Spec == Init /\ [][Next]_vars

\* The event loop serves its tasks (asyncio.Semaphore is first come, first
\* served), the runner's processes end, and so do the terminal's runs.
Fairness ==
  /\ \A j \in Jobs : /\ SF_vars(TaskStep(j))
                   /\ WF_vars(StopReading(j))
                   /\ WF_vars(ProcEnds(j))
  /\ WF_vars(ForeignEnds)

FairSpec == Spec /\ Fairness

-----------------------------------------------------------------------------
(* Properties.                                                             *)

\* The type invariant.
TypeOK ==
  /\ BusType
  /\ task \in [Jobs -> Places]
  /\ gate \in Jobs \cup {NoJob}
  /\ seen \in [Jobs -> BOOLEAN]
  /\ made \in [Jobs -> 0..Shards]
  /\ proc \in [Jobs -> 0..Shards]
  /\ stopping \subseteq Jobs
  /\ foreign \in BOOLEAN
  /\ toCome \in 0..MaxForeign
  /\ faults \in 0..MaxFaults

\* Until something fails, the card is read by the processes of the job that holds
\* the gate, of no other: two readings started from the screen never share it,
\* however they are cancelled and asked for again.  (A daemon that died, or a
\* process that could not be started, registered, listened to or ended, may leave
\* others.)
CardHeld == faults = MaxFaults => \A j \in Jobs : proc[j] > 0 => gate = j

\* An unfinished job has a task that leads it, whatever fails: nothing in the list
\* promises work nobody does, except where the look at the registry killed the task.
NobodyStranded == \A j \in Jobs : state[j] \in Unfinished => task[j] # "off"

\* Every reading comes to an end, with the same exception, and lets the next one
\* to the card.
ReadsEnd ==
  \A j \in Jobs :
    state[j] \in Unfinished ~> state[j] \notin Unfinished \/ task[j] = "dead"

\* What _run_read promises and the code does not keep (see the README): a
\* cancelled reading does not start.
NoGhostRead ==
  [][\A j \in Jobs : proc'[j] > proc[j] => state[j] \in Unfinished]_proc

=============================================================================
