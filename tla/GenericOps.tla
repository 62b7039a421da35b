----------------------------- MODULE GenericOps -----------------------------
(***************************************************************************)
(* Long operations without an executor of their own, and the rebuild of    *)
(* the registry (src/nyshporka/daemon/workers.py: _start_generic,          *)
(* _run_generic, _start_build, _run_build).  The body of an operation runs *)
(* in a thread that nothing can interrupt; the event loop learns of its    *)
(* end in two turns: the thread's future is set, then the task wakes.      *)
(* The loop takes ready callbacks first come, first served.                *)
(***************************************************************************)
EXTENDS JobBus

CONSTANTS
  Stoppable,  \* keys of operations that ask to be stopped (STOPPABLE_OPS)
  Builds,     \* keys of a rebuild of the registry
  MaxCrashes  \* bound: how often the daemon dies

ASSUME OpKinds == /\ Stoppable \cup Builds \subseteq Keys
                  /\ Stoppable \cap Builds = {}
                  /\ MaxCrashes \in Nat

VARIABLES
  body,     \* job: "off", "ready" (its task is made), "thread", "ended" (the
            \* thread is over, the task is to wake)
  told,     \* job: what its record says to the reader besides its state
  given,    \* jobs whose record has the operation's result
  notes,    \* jobs about which a "cannot be stopped" warning is to be written
  lateCancel,     \* auxiliary: jobs cancelled after their thread was over
  crashes   \* how often the daemon may still die

opVars == <<state, key, idem, expired, stoppers, body, told, given, notes,
            lateCancel, crashes>>

Said == {"nothing", "cannot stop", "finished in full", "the operation's own"}

\* The job is among bus.jobs().
Listed(j) == state[j] \notin {"none", "gone"}

\* Requests for the same work: the same operation with the same arguments; any two
\* rebuilds.
SameWork(k, l) == k = l \/ (k \in Builds /\ l \in Builds)

-----------------------------------------------------------------------------
(* _start_generic, _start_build                                            *)

\* Mutation of Going: a job is going on as long as its state says so.
Going_state(j) == state[j] \in Unfinished

\* The work of the job is going on: by the state, or by the task that is not done
\* (not for a rebuild, of which only the state is asked).
Going(j) ==
  \/ state[j] \in Unfinished
  \/ Listed(j) /\ body[j] # "off" /\ key[j] \notin Builds

\* A new job.  While the work is going on, the request gets the job it is about,
\* or a refusal, and nothing changes.
Ask(j, k) ==
  /\ state[j] = "none"
  /\ \A i \in Jobs : SameWork(key[i], k) => ~Going(i)
  /\ state' = [state EXCEPT ![j] = "queued"]
  /\ key' = [key EXCEPT ![j] = k]
  /\ body' = [body EXCEPT ![j] = "ready"]
  /\ stoppers' = IF k \in Builds THEN stoppers ELSE stoppers \cup {j}
  /\ UNCHANGED <<idem, expired, told, given, notes, lateCancel, crashes>>

-----------------------------------------------------------------------------
(* _run_generic, _run_build                                                *)

\* The task starts: RUNNING, and the thread, whatever became of the job meanwhile.
Begin(j) ==
  /\ body[j] = "ready"
  /\ Update(j, "running")
  /\ body' = [body EXCEPT ![j] = "thread"]
  /\ UNCHANGED <<key, idem, expired, stoppers, told, given, notes, lateCancel, crashes>>

\* The operation is over, and the loop sets the future.
ThreadEnds(j) ==
  /\ body[j] = "thread"
  /\ body' = [body EXCEPT ![j] = "ended"]
  /\ UNCHANGED <<bus, told, given, notes, lateCancel, crashes>>

\* A warning asked for before the thread was over is written before the task wakes,
\* one asked for later is written after it.
NoteFirst(j) == j \in notes /\ j \notin lateCancel

\* What the record says of a result.
Mutter(j) == told' = [told EXCEPT ![j] = "the operation's own"]

\* Mutation of Report: the cancelled job says nothing of it.
Report_silent(j) == Mutter(j)

\* A cancelled job that was not stopped but did all of its work says so.
Report(j) ==
  IF Cancelled(j) /\ key[j] \notin Stoppable \cup Builds
  THEN told' = [told EXCEPT ![j] = "finished in full"]
  ELSE Mutter(j)

\* The task wakes and writes the end into the record, if there still is one.
WakeUp(j) ==
  /\ body[j] = "ended"
  /\ ~NoteFirst(j)
  /\ body' = [body EXCEPT ![j] = "off"]
  /\ stoppers' = stoppers \ {j}
  /\ \/ /\ Update(j, "done")
        /\ IF Listed(j) THEN Report(j) /\ given' = given \cup {j}
                        ELSE UNCHANGED <<told, given>>
     \/ /\ Update(j, "error")
        /\ UNCHANGED <<told, given>>
  /\ UNCHANGED <<key, idem, expired, notes, lateCancel, crashes>>

\* _say_cant_stop's task: it puts back the warnings it saw, none, with its own.
WriteNote(j) ==
  /\ j \in notes
  /\ body[j] = "ended" => NoteFirst(j)
  /\ notes' = notes \ {j}
  /\ told' = IF Listed(j) THEN [told EXCEPT ![j] = "cannot stop"] ELSE told
  /\ UNCHANGED <<bus, body, given, lateCancel, crashes>>

-----------------------------------------------------------------------------
(* The list of jobs.                                                       *)

\* bus.cancel: an operation that can be stopped is asked to (it may end sooner), of
\* another the record is to say that it cannot; a rebuild has nothing to stop it by.
CancelOp(j) ==
  /\ CancelJob(j)
  /\ notes' = IF j \in stoppers /\ key[j] \notin Stoppable THEN notes \cup {j}
                                                            ELSE notes
  /\ lateCancel' = IF body[j] = "ended" THEN lateCancel \cup {j} ELSE lateCancel
  /\ UNCHANGED <<body, told, given, crashes>>

\* bus.forget_finished
ClearList == Forget /\ UNCHANGED <<body, told, given, notes, lateCancel, crashes>>

\* The daemon dies, its threads with it, and is started again.
Crash ==
  /\ crashes > 0
  /\ crashes' = crashes - 1
  /\ Reload
  /\ body' = [j \in Jobs |-> "off"]
  /\ notes' = {}
  /\ UNCHANGED <<told, given, lateCancel>>

OpInit ==
  /\ BusInit
  /\ body = [j \in Jobs |-> "off"]
  /\ told = [j \in Jobs |-> "nothing"]
  /\ given = {} /\ notes = {} /\ lateCancel = {}
  /\ crashes = MaxCrashes

OpNext ==
  \/ \E j \in Jobs, k \in Keys : Ask(j, k)
  \/ \E j \in Jobs : \/ Begin(j) \/ ThreadEnds(j) \/ WakeUp(j) \/ WriteNote(j)
                     \/ CancelOp(j)
  \/ ClearList \/ Crash

OpSpec == OpInit /\ [][OpNext]_opVars

-----------------------------------------------------------------------------
(* Properties.                                                             *)

\* The type invariant.
OpType ==
  /\ BusType
  /\ body \in [Jobs -> {"off", "ready", "thread", "ended"}]
  /\ told \in [Jobs -> Said]
  /\ given \cup notes \cup lateCancel \subseteq Jobs
  /\ crashes \in 0..MaxCrashes

\* Two runs of the same operation (two merges of one registry) never go on at the
\* same time, cancelled or not, as long as the cancelled one is not taken off the
\* list while its thread is at work.
OneRun ==
  \A i, j \in Jobs :
    /\ i # j /\ key[i] = key[j] /\ key[i] \notin Builds
    /\ body[i] # "off" /\ body[j] # "off"
    => "gone" \in {state[i], state[j]}

\* What _start_generic promises and the code does not keep (see the README): the
\* same without the exception.
OneRunEver ==
  \A i, j \in Jobs :
    i # j /\ key[i] = key[j] /\ key[i] \notin Builds
    => ~(body[i] = "thread" /\ body[j] = "thread")

\* Whoever cancelled an operation that went on to its end is told that the result is
\* a whole one, and no earlier warning takes the place of that; unless the job was
\* cancelled between the end of its thread and the waking of its task.
ResultExplained ==
  \A j \in given :
    /\ Cancelled(j) /\ key[j] \notin Stoppable \cup Builds
    /\ j \notin lateCancel
    => told[j] = "finished in full"

=============================================================================
