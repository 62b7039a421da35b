------------------------------- MODULE Rebuild -------------------------------
(***************************************************************************)
(* Rebuilding the registry of cases (src/nyshporka/cases/db.py).  The      *)
(* registry is a snapshot of the disk, made in two stages: the disk is     *)
(* walked into case_library.json, then the library is indexed into         *)
(* case_index.sqlite.  rebuild() merges simultaneous requests: every call  *)
(* takes a number, whoever holds build.lock builds for all the numbers     *)
(* given out before it looked at the disk.                                 *)
(*                                                                         *)
(* The disk is a version number.  A walk that takes minutes is credited    *)
(* with the version it started from, the least it can contain.  The        *)
(* counter file is only read and written under its own short lock, in one  *)
(* _queue() call: one step.                                                *)
(***************************************************************************)
EXTENDS Naturals, FiniteSets

CONSTANTS
  Callers,    \* processes that call rebuild() for a full build
  Wide,       \* processes that build in full without build.lock
              \* (cases take, cases build --fetch-cloud)
  Narrow,     \* processes that only index the library, without build.lock
              \* (cases rekey, cases build --no-rescan)
  MaxDisk,    \* bound: changes on the disk
  MaxAsks,    \* bound: requests
  MaxFaults,  \* bound: failed builds, killed processes, calls timed out
  NoOne

ASSUME Roles == /\ Callers \cap (Wide \cup Narrow) = {}
                /\ Wide \cap Narrow = {}
                /\ NoOne \notin Callers
ASSUME Limits == MaxDisk \in Nat /\ MaxAsks \in Nat /\ MaxFaults \in Nat

Procs == Callers \cup Wide \cup Narrow

VARIABLES
  disk,      \* the version of what lies on the disk
  asked,     \* queue.json: the last number given out
  done,      \* queue.json: the last number a finished build covers
  result,    \* queue.json: the version its "result" describes
  lock,      \* who holds build.lock
  library,   \* the version case_library.json describes
  registry,  \* the version case_index.sqlite describes
  pc,        \* where each process is
  mine,      \* caller: its number
  upto,      \* caller: the last number its build covers
  saw,       \* process: the version its walk of the disk started from
  rows,      \* process: the version the rows it collected describe
  since,     \* auxiliary: the disk's version when the caller asked
  answer,    \* caller: the version the summary it returned describes
  heard,     \* auxiliary: calls waiting when the present build looked
  closed,    \* auxiliary: calls a finished build has answered for
  aside,     \* auxiliary: a build without build.lock has written a file
  faults     \* how many faults may still happen

queue == <<asked, done, result>>
files == <<library, registry>>
local == <<mine, upto, saw, rows>>
ghost == <<since, answer, heard, closed>>
vars  == <<disk, asked, done, result, lock, library, registry, pc, mine, upto,
           saw, rows, since, answer, heard, closed, aside, faults>>

\* A call that is over.
Over == {"idle", "served", "stopped"}

Waiting(c) == c \in Callers /\ pc[c] \notin Over

GoTo(p, where) == pc' = [pc EXCEPT ![p] = where]

-----------------------------------------------------------------------------
(* The call.  As in CaseQueue, X_... before X is X with a mistake in it.   *)

\* Something changes on the disk: frames, a passport, an account.
Change ==
  /\ disk < MaxDisk
  /\ disk' = disk + 1
  /\ UNCHANGED <<aside, queue, lock, files, pc, local, ghost, faults>>

\* rebuild(): the call takes its number.
Ask(c) ==
  /\ pc[c] \in Over
  /\ asked < MaxAsks
  /\ asked' = asked + 1
  /\ mine' = [mine EXCEPT ![c] = asked + 1]
  /\ since' = [since EXCEPT ![c] = disk]
  /\ closed' = closed \ {c}
  /\ heard' = heard \ {c}
  /\ GoTo(c, "look")
  /\ UNCHANGED <<disk, aside, done, result, lock, files, upto, saw, rows, answer,
                 faults>>

\* Mutation of Covered: off by one.
Covered_early(c) == done + 1 >= mine[c]

\* q["done"] >= mine (the result is written together with the number).
Covered(c) == done >= mine[c]

\* Top of the loop: the counter, read without build.lock.
Look(c) ==
  /\ pc[c] = "look"
  /\ \/ /\ Covered(c)
        /\ answer' = [answer EXCEPT ![c] = result]
        /\ GoTo(c, "served")
     \/ /\ ~Covered(c)
        /\ GoTo(c, "try")
        /\ UNCHANGED answer
  /\ UNCHANGED <<disk, aside, queue, lock, files, local, since, heard, closed,
                 faults>>

\* Mutation of Try: the lock is no obstacle.
Try_unlocked(c) ==
  /\ pc[c] = "try"
  /\ lock' = c
  /\ GoTo(c, "again")
  /\ UNCHANGED <<disk, aside, queue, files, local, ghost, faults>>

\* build.lock is tried once; a second later the caller looks again.
Try(c) ==
  /\ pc[c] = "try"
  /\ \/ /\ lock = NoOne
        /\ lock' = c
        /\ GoTo(c, "again")
     \/ /\ lock # NoOne
        /\ GoTo(c, "look")
        /\ UNCHANGED lock
  /\ UNCHANGED <<disk, aside, queue, files, local, ghost, faults>>

Spend == faults > 0 /\ faults' = faults - 1

\* The hour is over and the lock still taken: LockTimeout.
GiveUp(c) ==
  /\ pc[c] = "try"
  /\ lock # NoOne
  /\ Spend
  /\ GoTo(c, "stopped")
  /\ UNCHANGED <<disk, aside, queue, lock, files, local, ghost>>

\* Mutation of Again: no second look under the lock.
Again_blind(c) ==
  /\ pc[c] = "again"
  /\ upto' = [upto EXCEPT ![c] = asked]
  /\ heard' = {d \in Callers : Waiting(d)}
  /\ GoTo(c, "scan")
  /\ UNCHANGED <<disk, aside, queue, lock, files, mine, saw, rows, since, answer,
                 closed, faults>>

\* Under the lock the counter is read again: another build may have covered
\* this call meanwhile.  Otherwise the last number is noted BEFORE the disk.
Again(c) ==
  /\ pc[c] = "again"
  /\ \/ /\ Covered(c)
        /\ GoTo(c, "leave")
        /\ UNCHANGED <<upto, heard>>
     \/ /\ ~Covered(c)
        /\ upto' = [upto EXCEPT ![c] = asked]
        /\ heard' = {d \in Callers : Waiting(d)}
        /\ GoTo(c, "scan")
  /\ UNCHANGED <<disk, aside, queue, lock, files, mine, saw, rows, since, answer,
                 closed, faults>>

-----------------------------------------------------------------------------
(* _rebuild_now(), by a caller under build.lock or by anybody without it.  *)

\* A build outside the queue of requests: take, rekey, --fetch-cloud,
\* --no-rescan.
Begin(p) ==
  /\ p \in Wide \cup Narrow
  /\ pc[p] = "idle"
  /\ GoTo(p, IF p \in Wide THEN "scan" ELSE "index")
  /\ UNCHANGED <<disk, aside, queue, lock, files, local, ghost, faults>>

\* build_library(): the disk is walked.
Scan(p) ==
  /\ pc[p] = "scan"
  /\ saw' = [saw EXCEPT ![p] = disk]
  /\ GoTo(p, "library")
  /\ UNCHANGED <<disk, aside, queue, lock, files, mine, upto, rows, ghost,
                 faults>>

\* Notes that p has written one of the two files.
Wrote(p) == aside' = (aside \/ p \notin Callers)

\* write_library(): case_library.json is replaced.
WriteLibrary(p) ==
  /\ pc[p] = "library"
  /\ library' = saw[p]
  /\ Wrote(p)
  /\ GoTo(p, "index")
  /\ UNCHANGED <<disk, queue, lock, registry, local, ghost, faults>>

\* build_index(), collect_rows(): the library is read back from its file.
CollectRows(p) ==
  /\ pc[p] = "index"
  /\ rows' = [rows EXCEPT ![p] = library]
  /\ GoTo(p, "replace")
  /\ UNCHANGED <<disk, aside, queue, lock, files, mine, upto, saw, ghost,
                 faults>>

\* Mutation of Replace: every build goes on to close requests.
Replace_finish(p) ==
  /\ pc[p] = "replace"
  /\ registry' = rows[p]
  /\ Wrote(p)
  /\ GoTo(p, "finish")
  /\ UNCHANGED <<disk, queue, lock, library, local, ghost, faults>>

\* build_index(), replace_retrying(): the last writer wins.
Replace(p) ==
  /\ pc[p] = "replace"
  /\ registry' = rows[p]
  /\ Wrote(p)
  /\ GoTo(p, IF p \in Callers THEN "finish" ELSE "idle")
  /\ UNCHANGED <<disk, queue, lock, library, local, ghost, faults>>

\* Mutation of Finish: the build answers for everyone who has asked by now.
Finish_late(c) ==
  /\ pc[c] = "finish"
  /\ done' = asked
  /\ result' = rows[c]
  /\ closed' = closed \cup heard
  /\ heard' = {}
  /\ GoTo(c, "leave")
  /\ UNCHANGED <<disk, aside, asked, lock, files, local, since, answer, faults>>

\* finish(): the numbers up to the one noted are covered.
Finish(c) ==
  /\ pc[c] = "finish"
  /\ done' = IF done < upto[c] THEN upto[c] ELSE done
  /\ result' = rows[c]
  /\ closed' = closed \cup heard
  /\ heard' = {}
  /\ GoTo(c, "leave")
  /\ UNCHANGED <<disk, aside, asked, lock, files, local, since, answer, faults>>

\* The call returns and lets build.lock go.
Leave(c) ==
  /\ pc[c] = "leave"
  /\ lock' = NoOne
  /\ answer' = [answer EXCEPT ![c] = result]
  /\ GoTo(c, "served")
  /\ UNCHANGED <<disk, aside, queue, files, local, since, heard, closed, faults>>

\* Mutation of Stop: the lock of a dead builder stays.
Stop_locked(p) ==
  /\ pc[p] \notin Over
  /\ Spend
  /\ heard' = IF lock = p THEN {} ELSE heard
  /\ GoTo(p, IF p \in Callers THEN "stopped" ELSE "idle")
  /\ UNCHANGED <<disk, aside, queue, lock, files, local, since, answer, closed>>

\* The build raises, or its process is killed: the lock is let go, the files
\* stay as they are, the others try in their turn.
Stop(p) ==
  /\ pc[p] \notin Over
  /\ Spend
  /\ IF lock = p
     THEN lock' = NoOne /\ heard' = {}
     ELSE UNCHANGED <<lock, heard>>
  /\ GoTo(p, IF p \in Callers THEN "stopped" ELSE "idle")
  /\ UNCHANGED <<disk, aside, queue, files, local, since, answer, closed>>

-----------------------------------------------------------------------------
Init ==
  /\ disk = 0 /\ asked = 0 /\ done = 0 /\ result = 0
  /\ lock = NoOne
  /\ library = 0 /\ registry = 0
  /\ pc = [p \in Procs |-> "idle"]
  /\ mine = [c \in Callers |-> 0]
  /\ upto = [c \in Callers |-> 0]
  /\ saw = [p \in Procs |-> 0]
  /\ rows = [p \in Procs |-> 0]
  /\ since = [c \in Callers |-> 0]
  /\ answer = [c \in Callers |-> 0]
  /\ heard = {} /\ closed = {}
  /\ aside = FALSE
  /\ faults = MaxFaults

BuildStep(p) == Scan(p) \/ WriteLibrary(p) \/ CollectRows(p) \/ Replace(p)

CallStep(c) == Look(c) \/ Try(c) \/ Again(c) \/ Finish(c) \/ Leave(c)

Next ==
  \/ Change
  \/ \E c \in Callers : Ask(c) \/ CallStep(c) \/ GiveUp(c)
  \/ \E p \in Procs : Begin(p) \/ BuildStep(p) \/ Stop(p)

Spec == Init /\ [][Next]_vars

\* A call that was made keeps going.
Fairness == \A c \in Callers : WF_vars(CallStep(c) \/ BuildStep(c))

FairSpec == Spec /\ Fairness

-----------------------------------------------------------------------------
(* Properties.                                                             *)

\* Where a build outside the queue of requests can be.
Aside(p) == {"idle", "index", "replace"}
            \cup (IF p \in Wide THEN {"scan", "library"} ELSE {})

\* The type invariant.
TypeOK ==
  /\ disk \in Nat /\ asked \in Nat /\ done \in Nat /\ result \in Nat
  /\ library \in Nat /\ registry \in Nat
  /\ lock \in Callers \cup {NoOne}
  /\ pc \in [Procs -> Over \cup {"look", "try", "again", "scan", "library",
                                 "index", "replace", "finish", "leave"}]
  /\ \A p \in Procs \ Callers : pc[p] \in Aside(p)
  /\ mine \in [Callers -> Nat]
  /\ upto \in [Callers -> Nat]
  /\ saw \in [Procs -> Nat]
  /\ rows \in [Procs -> Nat]
  /\ since \in [Callers -> Nat]
  /\ answer \in [Callers -> Nat]
  /\ heard \subseteq Callers
  /\ closed \subseteq Callers
  /\ aside \in BOOLEAN
  /\ faults \in 0..MaxFaults

\* The summary a call returns, its own build's or another's, describes a disk
\* no older than the request (rebuild's docstring), whoever was killed on the
\* way.  Needs: no build outside build.lock replaces the library between a caller's
\* writing and indexing it.
FreshSummary ==
  \A c \in Callers : pc[c] = "served" => answer[c] >= since[c]

\* The same of the registry file the caller finds when rebuild() returns, as long
\* as no build without build.lock has written the library or the registry.
FreshRegistry ==
  [][~aside => \A c \in Callers :
       pc[c] # "served" /\ pc'[c] = "served" => registry >= since[c]]_vars

\* What rebuild() promises and the code does not keep (see the README): the same
\* without the condition.
FreshAlways ==
  [][\A c \in Callers :
       pc[c] # "served" /\ pc'[c] = "served" => registry >= since[c]]_vars

\* The registry never goes back to an older disk, under the same condition.
NoStepBack == [][~aside' => registry' >= registry]_registry

\* No needless build: a caller whose request a finished build has answered for
\* (it was waiting when that build looked) does not walk the disk again.  Ten
\* requests during a build cost one more build.
NoNeedlessBuild == \A c \in Callers : pc[c] = "scan" => c \notin closed

\* Rebuild implements FreshAnswers.
Status == [c \in Callers |-> IF pc[c] \in Over THEN pc[c] ELSE "waiting"]

Promise == INSTANCE FreshAnswers WITH status <- Status
Implements == Promise!Spec

\* Every call comes to an end, though the lock may never be free when it looks.
Answered == \A c \in Callers : Waiting(c) ~> ~Waiting(c)

=============================================================================
