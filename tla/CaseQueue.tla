------------------------------ MODULE CaseQueue ------------------------------
(***************************************************************************)
(* The queue of cases: the file data/queue/queue.json, its two operating   *)
(* system locks, the runner `nysh queue run` and the commands that edit    *)
(* the file under the runner's hands (src/nyshporka/queue, ops_queue.py).  *)
(*                                                                         *)
(* `queue.lock` makes every Q.edit() one read-change-write transaction,    *)
(* and the file is replaced as a whole, so an edit is one step here.       *)
(* Everything the code reads OUTSIDE an edit (the stop flag, the pick, the *)
(* judgement of a stage on disk, the duplicate check of `queue add`, the   *)
(* probe of run.lock) is a step of its own.  One edit takes several steps: *)
(* `queue drop` of a running record probes run.lock, which no edit holds,  *)
(* between its reading and its writing; other edits wait for it.           *)
(***************************************************************************)
EXTENDS Naturals, Sequences, FiniteSets

CONSTANTS
  Cases,      \* case keys a person may order
  Slots,      \* records the file may come to hold (bounds the adds)
  Runners,    \* `nysh queue run` processes
  OneCase,    \* the runners started with --stop-after-case
  Waiters,    \* the runners started with --wait
  Adders,     \* `queue add` commands that may be under way at once
  Tools,      \* `queue status`, `queue stop` and `queue drop` commands
  NStages,    \* length of ST.STAGES
  MaxTries,   \* len(BACKOFF)
  MaxOps,     \* bound: edits by people, stop orders, kills, patient waits
  NoCase, NoOne

ASSUME Sizes == /\ NStages \in Nat \ {0}
                /\ MaxTries \in Nat
                /\ MaxOps \in Nat
ASSUME Names == /\ NoCase \notin Cases
                /\ NoOne \notin Runners \cup Tools
                /\ Runners \cap Tools = {}

Stages == 1..NStages

QUEUED  == "queued"
RUNNING == "running"
RETRY   == "retry"
BLOCKED == "blocked"
FAILED  == "failed"
DONE    == "done"
DROPPED == "dropped"
ABSENT  == "absent"      \* the slot has not been written yet

LIVE    == {QUEUED, RUNNING, RETRY}
WAITING == {BLOCKED, FAILED}
States  == LIVE \cup WAITING \cup {DONE, DROPPED, ABSENT}

NO_STOP         == ""
STOP_AFTER_CASE == "after_case"
STOP_NOW        == "now"
StopFlags       == {NO_STOP, STOP_AFTER_CASE, STOP_NOW}

\* What a stage may answer.  "again" is the retry with after=0, "patient" the
\* wait that is not counted, "interrupt" a Ctrl-C inside stage.run.
Outcomes == {"ok", "retry", "again", "patient", "blocked", "failed",
             "stopped", "interrupt"}

NoTries == [n \in Stages |-> 0]

\* A record of q["items"]: only the fields that decide what happens to it.
\* `due` says that `not_before` of a repeating case has come.
Item == [id : Cases \cup {NoCase}, state : States, stage : 0..NStages,
         tries : [Stages -> Nat], due : BOOLEAN]

NewItem(c) == [id |-> c, state |-> QUEUED, stage |-> 0,
               tries |-> NoTries, due |-> FALSE]

VARIABLES
  order,    \* the file: q["items"], as slots in file order
  item,     \* the file: the record in each slot
  stop,     \* the file: q["stop"]
  disk,     \* pairs <<case, stage>> that stage.done (or ~applies) sees on disk
  runLock,  \* who holds run.lock
  pc,       \* where each runner is
  cur,      \* runner: item_id of the case it leads
  at,       \* runner: index of the stage
  tried,    \* runner: `attempts` of its snapshot of the case
  out,      \* runner: the outcome stage.run gave
  fixed,    \* runner: cases rejudge() found repaired
  adding,   \* adder: the case it resolved and found not queued yet
  tool,     \* tool: idle, holding run.lock for the probe, about to write stop;
            \* a drop: holding run.lock for its probe, or told that nobody leads
  aim,      \* tool: the case it is dropping
  revoked,  \* auxiliary: pairs <<case, stage>> a decision took back off `disk`
  ops       \* how much of MaxOps is left

file   == <<order, item, stop>>
local  == <<cur, at, tried, out, fixed>>
people == <<adding, tool, aim, revoked>>
vars   == <<order, item, stop, disk, runLock, pc, cur, at, tried, out, fixed,
            adding, tool, aim, revoked, ops>>

-----------------------------------------------------------------------------
(* Looking a record up in the file.  An operator X_... before an operator X *)
(* is the same with a plausible mistake in it: the property that guards     *)
(* against the mistake is violated when X is replaced by it.                *)

\* Mutation of Matches: dropped records are found as well.
Matches_dropped(s, c) == item[s].id = c

\* Is this the case, and not a dropped record of it?
Matches(s, c) == item[s].id = c /\ item[s].state # DROPPED

\* runner._item and state.find: the first record of the case not dropped.
IsFirst(s, c) ==
  \E i \in DOMAIN order :
     /\ order[i] = s
     /\ Matches(s, c)
     /\ \A j \in 1..(i - 1) : ~Matches(order[j], c)

Listed(c) == \E i \in DOMAIN order : Matches(order[i], c)

Ready(s) == item[s].state = QUEUED \/ (item[s].state = RETRY /\ item[s].due)

\* runner._pick: the first record that may be taken.
IsNext(s) ==
  \E i \in DOMAIN order :
     /\ order[i] = s
     /\ Ready(s)
     /\ \A j \in 1..(i - 1) : ~Ready(order[j])

\* state.settle
Settled(it, st, n) == [it EXCEPT !.state = st, !.stage = n, !.due = FALSE]

\* Back in the queue with the attempts counted from nought.
Again(it) == [Settled(it, QUEUED, it.stage) EXCEPT !.tries = NoTries]

\* To be repeated by itself: now, or when not_before comes.
Postponed(it, n, tr, now) ==
  [Settled(it, RETRY, n) EXCEPT !.tries = tr, !.due = now]

Completed(it) == [Settled(it, DONE, 0) EXCEPT !.tries = NoTries]

Spend == ops > 0 /\ ops' = ops - 1

\* queue.lock is free: no `queue drop` is between its reading and its writing.
FileFree == \A t \in Tools : tool[t] \notin {"asking", "clear"}

-----------------------------------------------------------------------------
(* The runner.                                                             *)

GoTo(r, where) == pc' = [pc EXCEPT ![r] = where]

\* Between own() and its end the runner is in charge of the queue.
InCharge(r) == pc[r] \notin {"off", "busy"}

\* Inside process(): the runner leads cur[r].
Leading(r) == pc[r] \in {"flag", "halt", "judge", "mark", "run", "out",
                         "confirm", "close"}

\* Mutation of Start: a runner that does not look at run.lock.
Start_unlocked(r) ==
  /\ pc[r] = "off"
  /\ runLock' = r
  /\ GoTo(r, "heal")
  /\ UNCHANGED <<file, disk, local, people, ops>>

\* own(): run.lock is tried once (timeout=0).
Start(r) ==
  /\ pc[r] = "off"
  /\ \/ /\ runLock = NoOne
        /\ runLock' = r
        /\ GoTo(r, "heal")
     \/ /\ runLock # NoOne          \* LockTimeout, raised as RunnerBusy
        /\ GoTo(r, "busy")
        /\ UNCHANGED runLock
  /\ UNCHANGED <<file, disk, local, people, ops>>

Refused(r) ==
  /\ pc[r] = "busy"
  /\ GoTo(r, "off")
  /\ UNCHANGED <<file, disk, runLock, local, people, ops>>

\* Mutation of Heal: the cases of an interrupted runner are left "running".
Heal_flagOnly(r) ==
  /\ pc[r] = "heal"
  /\ FileFree
  /\ stop' = NO_STOP
  /\ GoTo(r, "rejudge")
  /\ UNCHANGED <<order, item, disk, runLock, local, people, ops>>

\* heal(): the flag is cleared, cases left "running" go back to the queue.
Heal(r) ==
  /\ pc[r] = "heal"
  /\ FileFree
  /\ stop' = NO_STOP
  /\ item' = [s \in Slots |-> IF item[s].state = RUNNING
                              THEN Settled(item[s], QUEUED, item[s].stage)
                              ELSE item[s]]
  /\ GoTo(r, "rejudge")
  /\ UNCHANGED <<order, disk, runLock, local, people, ops>>

\* rejudge(), the part before its edit: blocked cases whose stage is done now.
Rejudge(r) ==
  /\ pc[r] = "rejudge"
  /\ fixed' = [fixed EXCEPT ![r] =
                 {item[s].id : s \in {x \in Slots :
                     /\ item[x].state = BLOCKED
                     /\ <<item[x].id, item[x].stage>> \in disk}}]
  /\ GoTo(r, "requeue")
  /\ UNCHANGED <<file, disk, runLock, cur, at, tried, out, people, ops>>

\* rejudge(), its edit: a case no longer blocked by then is left alone.
Requeue(r) ==
  /\ pc[r] = "requeue"
  /\ FileFree
  /\ item' = [s \in Slots |->
                IF item[s].id \in fixed[r] /\ item[s].state = BLOCKED
                THEN Again(item[s])
                ELSE item[s]]
  /\ GoTo(r, "loop")
  /\ fixed' = [fixed EXCEPT ![r] = {}]
  /\ UNCHANGED <<order, stop, disk, runLock, cur, at, tried, out, people, ops>>

\* run(): one turn of its loop, on one Q.load() of the file.
Pick(r) ==
  /\ pc[r] = "loop"
  /\ stop = NO_STOP
  /\ \E s \in Slots :
        /\ IsNext(s)
        /\ cur' = [cur EXCEPT ![r] = item[s].id]
        /\ tried' = [tried EXCEPT ![r] = item[s].tries]
  /\ at' = [at EXCEPT ![r] = 1]
  /\ GoTo(r, "flag")
  /\ UNCHANGED <<file, disk, runLock, out, fixed, people, ops>>

\* run(): the flag is up, or there is nothing to take and nothing to wait for.
Exhausted(r) ==
  /\ pc[r] = "loop"
  /\ \/ stop # NO_STOP
     \/ /\ \A s \in Slots : ~IsNext(s)
        /\ r \in Waiters => \A i \in DOMAIN order : item[order[i]].state # RETRY
  /\ GoTo(r, "finish")
  /\ UNCHANGED <<file, disk, runLock, local, people, ops>>

\* The memory of a process that has ended.
Forget(r) ==
  /\ cur' = [cur EXCEPT ![r] = NoCase]
  /\ at' = [at EXCEPT ![r] = 1]
  /\ tried' = [tried EXCEPT ![r] = NoTries]
  /\ out' = [out EXCEPT ![r] = "ok"]
  /\ fixed' = [fixed EXCEPT ![r] = {}]

AfterCase(r) == IF r \in OneCase THEN "finish" ELSE "loop"

\* _settle(): one edit; a case dropped meanwhile is a QueueError, which nothing
\* between process() and own() catches.
Settle(r, st, n, where) ==
  /\ FileFree
  /\ \/ \E s \in Slots :
           /\ IsFirst(s, cur[r])
           /\ item' = [item EXCEPT ![s] = Settled(item[s], st, n)]
           /\ GoTo(r, where)
     \/ /\ ~Listed(cur[r])
        /\ GoTo(r, "fail")
        /\ UNCHANGED item

\* process(), top of the stage loop: the flag is read outside an edit.
CheckFlag(r) ==
  /\ pc[r] = "flag"
  /\ GoTo(r, IF stop = STOP_NOW THEN "halt" ELSE "judge")
  /\ UNCHANGED <<file, disk, runLock, local, people, ops>>

Halt(r) ==
  /\ pc[r] = "halt"
  /\ Settle(r, QUEUED, at[r], AfterCase(r))
  /\ UNCHANGED <<order, stop, disk, runLock, local, people, ops>>

\* Mutation of NextStage: no end of the list of stages.
NextStage_endless(r) ==
  /\ at' = [at EXCEPT ![r] = @ + 1]
  /\ GoTo(r, IF at[r] < NStages THEN "flag" ELSE "close")

\* The stage after `at`, or the end of the case.
NextStage(r) ==
  /\ at' = [at EXCEPT ![r] = IF @ < NStages THEN @ + 1 ELSE @]
  /\ GoTo(r, IF at[r] < NStages THEN "flag" ELSE "close")

\* process(): does the stage apply, and does the disk say it is done?
Judge(r) ==
  /\ pc[r] = "judge"
  /\ IF <<cur[r], at[r]>> \in disk
     THEN NextStage(r)
     ELSE GoTo(r, "mark") /\ UNCHANGED at
  /\ UNCHANGED <<file, disk, runLock, cur, tried, out, fixed, people, ops>>

\* process(): "in work, stage X" goes to the file BEFORE the action; the
\* snapshot of the case is renewed from it.
Mark(r) ==
  /\ pc[r] = "mark"
  /\ FileFree
  /\ \/ \E s \in Slots :
           /\ IsFirst(s, cur[r])
           /\ item' = [item EXCEPT ![s] = Settled(item[s], RUNNING, at[r])]
           /\ tried' = [tried EXCEPT ![r] = item[s].tries]
           /\ GoTo(r, "run")
     \/ /\ ~Listed(cur[r])
        /\ GoTo(r, "fail")
        /\ UNCHANGED <<item, tried>>
  /\ UNCHANGED <<order, stop, disk, runLock, cur, at, out, fixed, people, ops>>

\* stage.run: any answer, and the disk may hold the stage's result or not.
RunStage(r) ==
  /\ pc[r] = "run"
  /\ \E o \in Outcomes :
        /\ o = "stopped" => stop = STOP_NOW
        /\ IF o \in {"patient", "interrupt"} THEN Spend ELSE UNCHANGED ops
        /\ out' = [out EXCEPT ![r] = o]
  /\ \/ disk' = disk \cup {<<cur[r], at[r]>>}
     \/ UNCHANGED disk
  /\ GoTo(r, "out")
  /\ UNCHANGED <<file, runLock, cur, at, tried, fixed, people>>

\* process(): the answers that end or interrupt the case without a retry.
SettleOutcome(r) ==
  /\ pc[r] = "out"
  /\ CASE out[r] = "ok"        -> Settle(r, RUNNING, at[r], "confirm")
       [] out[r] = "stopped"   -> Settle(r, QUEUED, at[r], AfterCase(r))
       [] out[r] = "interrupt" -> Settle(r, QUEUED, at[r], "finish")
       [] out[r] = "blocked"   -> Settle(r, BLOCKED, at[r], AfterCase(r))
       [] out[r] = "failed"    -> Settle(r, FAILED, at[r], AfterCase(r))
       [] OTHER                -> FALSE
  /\ out' = [out EXCEPT ![r] = "ok"]
  /\ UNCHANGED <<order, stop, disk, runLock, cur, at, tried, fixed, people, ops>>

\* Mutation of Counted: no retry is counted.
Counted_never(r) == tried[r][at[r]]

Counted(r) == tried[r][at[r]] + (IF out[r] = "patient" THEN 0 ELSE 1)

\* Mutation of TooMany: one retry more than BACKOFF has delays for.
TooMany_late(r) == Counted(r) > MaxTries + 1

TooMany(r) == Counted(r) > MaxTries

\* process(): a temporary refusal.  The fourth counted one waits for a person.
SettleRetry(r) ==
  /\ pc[r] = "out"
  /\ out[r] \in {"retry", "again", "patient"}
  /\ FileFree
  /\ IF TooMany(r)
     THEN Settle(r, BLOCKED, at[r], AfterCase(r))
     ELSE \/ \E s \in Slots :
               /\ IsFirst(s, cur[r])
               /\ item' = [item EXCEPT ![s] =
                    Postponed(item[s], at[r],
                              [tried[r] EXCEPT ![at[r]] = Counted(r)],
                              out[r] = "again")]
               /\ GoTo(r, AfterCase(r))
          \/ /\ ~Listed(cur[r])
             /\ GoTo(r, "fail")
             /\ UNCHANGED item
  /\ out' = [out EXCEPT ![r] = "ok"]
  /\ UNCHANGED <<order, stop, disk, runLock, cur, at, tried, fixed, people, ops>>

\* Mutation of Confirm: the answer "ok" is taken at its word.
Confirm_trusting(r) ==
  /\ pc[r] = "confirm"
  /\ NextStage(r)
  /\ UNCHANGED <<file, disk, runLock, cur, tried, out, fixed, people, ops>>

\* process(): "ok" is believed only when the disk confirms it.
Confirm(r) ==
  /\ pc[r] = "confirm"
  /\ IF <<cur[r], at[r]>> \in disk
     THEN NextStage(r) /\ UNCHANGED item
     ELSE Settle(r, BLOCKED, at[r], AfterCase(r)) /\ UNCHANGED at
  /\ UNCHANGED <<order, stop, disk, runLock, cur, tried, out, fixed, people, ops>>

\* process(): every stage passed.
Close(r) ==
  /\ pc[r] = "close"
  /\ FileFree
  /\ \/ \E s \in Slots :
           /\ IsFirst(s, cur[r])
           /\ item' = [item EXCEPT ![s] = Completed(item[s])]
           /\ GoTo(r, AfterCase(r))
     \/ /\ ~Listed(cur[r])
        /\ GoTo(r, "fail")
        /\ UNCHANGED item
  /\ UNCHANGED <<order, stop, disk, runLock, local, people, ops>>

\* run(), the `finally`: the flag is cleared, also when an exception passes.
Finish(r) ==
  /\ pc[r] \in {"finish", "fail"}
  /\ FileFree
  /\ stop' = NO_STOP
  /\ GoTo(r, "leave")
  /\ UNCHANGED <<order, item, disk, runLock, local, people, ops>>

\* own(), the `finally`: run.lock is let go.
Leave(r) ==
  /\ pc[r] = "leave"
  /\ runLock' = NoOne
  /\ GoTo(r, "off")
  /\ Forget(r)
  /\ UNCHANGED <<file, disk, people, ops>>

\* Ctrl-C outside stage.run, or stage.done raising, which process() does not
\* catch: inside the loop of run() its `finally` clears the flag, before the loop
\* only own() sees the exception; the record stays as it is.
Interrupt(r) ==
  /\ Spend
  /\ \/ pc[r] \in {"heal", "rejudge", "requeue"} /\ GoTo(r, "leave")
     \/ (pc[r] = "loop" \/ Leading(r)) /\ pc[r] # "run" /\ GoTo(r, "finish")
  /\ UNCHANGED <<file, disk, runLock, local, people>>

\* The process is killed: the system lets go of its lock, the file stays.
Kill(r) ==
  /\ InCharge(r)
  /\ Spend
  /\ runLock' = NoOne
  /\ GoTo(r, "off")
  /\ Forget(r)
  /\ UNCHANGED <<file, disk, people>>

-----------------------------------------------------------------------------
(* People and the clock.                                                   *)

\* Mutation of AddLook: no duplicate check.
AddLook_blind(a, c) ==
  /\ adding[a] = NoCase
  /\ adding' = [adding EXCEPT ![a] = c]
  /\ UNCHANGED <<file, disk, runLock, pc, local, tool, aim, revoked, ops>>

\* queue_add: the duplicate check looks at a snapshot taken before the edit.
AddLook(a, c) ==
  /\ adding[a] = NoCase
  /\ ~Listed(c)
  /\ adding' = [adding EXCEPT ![a] = c]
  /\ UNCHANGED <<file, disk, runLock, pc, local, tool, aim, revoked, ops>>

\* queue_add: the edit appends (or, with --first, prepends) the new record.
AddWrite(a) ==
  /\ adding[a] # NoCase
  /\ FileFree
  /\ \E s \in Slots :
        /\ item[s].state = ABSENT
        /\ item' = [item EXCEPT ![s] = NewItem(adding[a])]
        /\ order' \in {Append(order, s), <<s>> \o order}
  /\ adding' = [adding EXCEPT ![a] = NoCase]
  /\ UNCHANGED <<stop, disk, runLock, pc, local, tool, aim, revoked, ops>>

\* queue_retry of one case: anything but "running" goes back, a done one too.
RetryCase(c) ==
  /\ Spend
  /\ FileFree
  /\ \E s \in Slots :
        /\ IsFirst(s, c)
        /\ item[s].state # RUNNING
        /\ item' = [item EXCEPT ![s] = Again(item[s])]
  /\ UNCHANGED <<order, stop, disk, runLock, pc, local, people>>

\* queue_retry --all
RetryAll ==
  /\ Spend
  /\ FileFree
  /\ item' = [s \in Slots |->
                IF item[s].state \in WAITING \cup {RETRY}
                THEN Again(item[s])
                ELSE item[s]]
  /\ UNCHANGED <<order, stop, disk, runLock, pc, local, people>>

\* queue_set: a decision may make a stage pass (pool read, partial accepted) or
\* undo that (--partial -, --share); a case that stood goes back to the queue.
Decide(c) ==
  /\ Spend
  /\ FileFree
  /\ \E s \in Slots :
        /\ IsFirst(s, c)
        /\ item' = [item EXCEPT ![s] =
                      IF item[s].state \in WAITING \cup {RETRY}
                      THEN Again(item[s])
                      ELSE @]
  /\ \E n \in Stages :
        \/ disk' \in {disk, disk \cup {<<c, n>>}} /\ UNCHANGED revoked
        \/ /\ <<c, n>> \in disk
           /\ disk' = disk \ {<<c, n>>}
           /\ revoked' = revoked \cup {<<c, n>>}
  /\ UNCHANGED <<order, stop, runLock, pc, local, adding, tool, aim>>

\* queue_drop of a record nobody works on: one edit.
Drop(c) ==
  /\ Spend
  /\ FileFree
  /\ \E s \in Slots :
        /\ IsFirst(s, c)
        /\ item[s].state # RUNNING
        /\ item' = [item EXCEPT ![s] = Settled(item[s], DROPPED, item[s].stage)]
  /\ UNCHANGED <<order, stop, disk, runLock, pc, local, people>>

\* Is the record that `queue drop` finds for the case marked "running"?
AtWork(c) == \E s \in Slots : IsFirst(s, c) /\ item[s].state = RUNNING

\* Mutation of DropProbe: run.lock is not asked.
DropProbe_unasked(t, c) ==
  /\ tool[t] = "idle"
  /\ FileFree
  /\ AtWork(c)
  /\ aim' = [aim EXCEPT ![t] = c]
  /\ tool' = [tool EXCEPT ![t] = "clear"]
  /\ UNCHANGED <<file, disk, runLock, pc, local, adding, revoked, ops>>

\* queue_drop of a running record, inside its edit: runner_alive() takes run.lock
\* to see whether a runner lives.  If one does the command is refused.
DropProbe(t, c) ==
  /\ tool[t] = "idle"
  /\ FileFree
  /\ AtWork(c)
  /\ runLock = NoOne
  /\ runLock' = t
  /\ aim' = [aim EXCEPT ![t] = c]
  /\ tool' = [tool EXCEPT ![t] = "asking"]
  /\ UNCHANGED <<file, disk, pc, local, adding, revoked, ops>>

\* ... and lets it go: own() does not wait for queue.lock, so a runner may be in
\* charge again before the record is written.
DropAsked(t) ==
  /\ tool[t] = "asking"
  /\ runLock' = NoOne
  /\ tool' = [tool EXCEPT ![t] = "clear"]
  /\ UNCHANGED <<file, disk, pc, local, adding, aim, revoked, ops>>

\* The end of the edit, or of a command killed in the middle of it.
DropWrite(t) ==
  /\ tool[t] = "clear"
  /\ \/ \E s \in Slots :
           /\ IsFirst(s, aim[t])
           /\ item' = [item EXCEPT ![s] = Settled(item[s], DROPPED, item[s].stage)]
           /\ UNCHANGED ops
     \/ Spend /\ UNCHANGED item
  /\ tool' = [tool EXCEPT ![t] = "idle"]
  /\ aim' = [aim EXCEPT ![t] = NoCase]
  /\ UNCHANGED <<order, stop, disk, runLock, pc, local, adding, revoked>>

\* runner_alive(): the probe is an attempt to take run.lock.
Probe(t) ==
  /\ tool[t] = "idle"
  /\ Spend
  /\ IF runLock = NoOne
     THEN runLock' = t /\ tool' = [tool EXCEPT ![t] = "holding"]
     ELSE UNCHANGED runLock /\ tool' = [tool EXCEPT ![t] = "alive"]
  /\ UNCHANGED <<file, disk, pc, local, adding, aim, revoked>>

EndProbe(t) ==
  /\ tool[t] = "holding"
  /\ runLock' = NoOne
  /\ tool' = [tool EXCEPT ![t] = "idle"]
  /\ UNCHANGED <<file, disk, pc, local, adding, aim, revoked, ops>>

\* queue_stop after the probe said "alive" (queue_status just reports).
StopWrite(t) ==
  /\ tool[t] = "alive"
  /\ FileFree
  /\ stop' \in {stop, STOP_AFTER_CASE, STOP_NOW}
  /\ tool' = [tool EXCEPT ![t] = "idle"]
  /\ UNCHANGED <<order, item, disk, runLock, pc, local, adding, aim, revoked, ops>>

\* A person puts on disk what a blocked case is waiting for (the passport, the
\* frames), without a word to the queue.
Repair(c, n) ==
  /\ Spend
  /\ \E s \in Slots : item[s].id = c /\ item[s].state = BLOCKED /\ item[s].stage = n
  /\ disk' = disk \cup {<<c, n>>}
  /\ UNCHANGED <<file, runLock, pc, local, people>>

\* not_before of a repeating case comes.
Tick(s) ==
  /\ item[s].state = RETRY /\ ~item[s].due
  /\ item' = [item EXCEPT ![s].due = TRUE]
  /\ UNCHANGED <<order, stop, disk, runLock, pc, local, people, ops>>

-----------------------------------------------------------------------------
Init ==
  /\ order = <<>>
  /\ item = [s \in Slots |-> [NewItem(NoCase) EXCEPT !.state = ABSENT]]
  /\ stop = NO_STOP
  /\ disk = {}
  /\ runLock = NoOne
  /\ pc = [r \in Runners |-> "off"]
  /\ cur = [r \in Runners |-> NoCase]
  /\ at = [r \in Runners |-> 1]
  /\ tried = [r \in Runners |-> NoTries]
  /\ out = [r \in Runners |-> "ok"]
  /\ fixed = [r \in Runners |-> {}]
  /\ adding = [a \in Adders |-> NoCase]
  /\ tool = [t \in Tools |-> "idle"]
  /\ aim = [t \in Tools |-> NoCase]
  /\ revoked = {}
  /\ ops = MaxOps

\* What a runner does by itself once it has been started.
RunnerStep(r) ==
  \/ Refused(r) \/ Heal(r) \/ Rejudge(r) \/ Requeue(r) \/ Pick(r) \/ Exhausted(r)
  \/ CheckFlag(r) \/ Halt(r) \/ Judge(r) \/ Mark(r) \/ RunStage(r)
  \/ SettleOutcome(r) \/ SettleRetry(r) \/ Confirm(r) \/ Close(r)
  \/ Finish(r) \/ Leave(r)

ToolStep(t) == EndProbe(t) \/ StopWrite(t) \/ DropAsked(t) \/ DropWrite(t)

Next ==
  \/ \E r \in Runners : Start(r) \/ RunnerStep(r) \/ Interrupt(r) \/ Kill(r)
  \/ \E a \in Adders : AddWrite(a) \/ \E c \in Cases : AddLook(a, c)
  \/ \E c \in Cases : RetryCase(c) \/ Decide(c) \/ Drop(c)
  \/ RetryAll
  \/ \E t \in Tools : Probe(t) \/ ToolStep(t) \/ \E c \in Cases : DropProbe(t, c)
  \/ \E c \in Cases, n \in Stages : Repair(c, n)
  \/ \E s \in Slots : Tick(s)

Spec == Init /\ [][Next]_vars

\* A started runner keeps going, a command ends, the clock runs.
Fairness ==
  /\ \A r \in Runners : WF_vars(RunnerStep(r))
  /\ \A t \in Tools : WF_vars(ToolStep(t))
  /\ \A s \in Slots : WF_vars(Tick(s))

FairSpec == Spec /\ Fairness

-----------------------------------------------------------------------------
(* Properties.                                                             *)

\* Where a runner can be.
Places == {"off", "busy", "heal", "rejudge", "requeue", "loop", "flag", "halt",
           "judge", "mark", "run", "out", "confirm", "close", "finish", "fail",
           "leave"}

\* The type invariant.
TypeOK ==
  /\ order \in Seq(Slots)
  /\ item \in [Slots -> Item]
  /\ stop \in StopFlags
  /\ disk \subseteq (Cases \cup {NoCase}) \X Stages
  /\ runLock \in Runners \cup Tools \cup {NoOne}
  /\ pc \in [Runners -> Places]
  /\ cur \in [Runners -> Cases \cup {NoCase}]
  /\ at \in [Runners -> Stages]
  /\ tried \in [Runners -> [Stages -> Nat]]
  /\ out \in [Runners -> Outcomes]
  /\ fixed \in [Runners -> SUBSET (Cases \cup {NoCase})]
  /\ adding \in [Adders -> Cases \cup {NoCase}]
  /\ tool \in [Tools -> {"idle", "holding", "alive", "asking", "clear"}]
  /\ aim \in [Tools -> Cases \cup {NoCase}]
  /\ revoked \subseteq Cases \X Stages
  /\ ops \in 0..MaxOps

\* Two runners are never in charge of one queue (state.own): the cases are not
\* read twice, whatever is killed, restarted or probing the lock.
SingleRunner ==
  \A r, q \in Runners : InCharge(r) /\ InCharge(q) => r = q

\* A record marked "running" is the case the runner in charge leads, or led
\* when it was interrupted: after heal() nothing an earlier runner left behind
\* keeps that mark, and process() gives its own mark up before the next pick.
LedCaseOnly ==
  \A r \in Runners :
     /\ pc[r] \in {"rejudge", "requeue", "loop"} =>
          \A s \in Slots : item[s].state # RUNNING
     /\ Leading(r) \/ pc[r] \in {"finish", "fail"} =>
          \A s \in Slots : item[s].state = RUNNING => item[s].id = cur[r]

\* Unless two `queue add` of one case run at once, the file holds a case once,
\* apart from its dropped records: _settle() finds by key the very record _pick() chose.
UniqueLive ==
  \A s, t \in Slots :
     /\ item[s].state \notin {ABSENT, DROPPED}
     /\ item[t].state \notin {ABSENT, DROPPED}
     /\ item[s].id = item[t].id
     => s = t

\* A case is "done" only when the disk confirmed every stage of it, and still
\* does unless a person took a decision back: neither an answer "ok" nor a
\* record of an interrupted runner is enough.
DoneIsPassed ==
  \A s \in Slots : item[s].state = DONE =>
     \A n \in Stages : <<item[s].id, n>> \in disk \cup revoked

\* A stage is repeated by itself at most MaxTries times in a row, across
\* restarts, edits and interruptions (BACKOFF).
TriesBounded ==
  \A s \in Slots, n \in Stages : item[s].tries[n] <= MaxTries

\* The runner does not overrule people: work on a record starts only from
\* "queued" or "repeats itself", and a dropped record stays dropped, although
\* the runner decided to lead it on an older reading of the file.
NoOverrule ==
  [][\A s \in Slots :
       /\ item'[s].state = RUNNING => item[s].state \in {QUEUED, RETRY, RUNNING}
       /\ item[s].state = DROPPED => item'[s] = item[s]]_item

\* A record that is written and not dropped.
Standing(s) == item[s].state \notin {ABSENT, DROPPED}

\* How the queue shows as LedQueue: a case is its standing record, the case in
\* hand is the one the runner in charge leads.  A runner that holds run.lock and
\* has not healed the file yet is coming; one that only has to let the lock go is
\* in charge no more.
StatusOf(c) ==
  IF \E s \in Slots : Standing(s) /\ item[s].id = c
  THEN item[CHOOSE s \in Slots : Standing(s) /\ item[s].id = c].state
  ELSE ABSENT

Status == [c \in Cases |-> StatusOf(c)]
Phase(r) ==
  CASE pc[r] = "heal"                        -> "comes"
    [] pc[r] \in {"off", "busy", "leave"} -> "nobody"
    [] OTHER                                 -> "leads"
Charge == IF \E r \in Runners : Phase(r) # "nobody"
          THEN Phase(CHOOSE r \in Runners : Phase(r) # "nobody")
          ELSE "nobody"
Hand   == IF \E r \in Runners : Leading(r)
          THEN cur[CHOOSE r \in Runners : Leading(r)]
          ELSE NoCase
Passed == {c \in Cases : \A n \in Stages : <<c, n>> \in disk \cup revoked}

Led == INSTANCE LedQueue
         WITH status <- Status, charge <- Charge, hand <- Hand, passed <- Passed

\* CaseQueue implements LedQueue, unless two `queue add` of one case run at once:
\* the record found by key is the case's only one, whoever read the file when.
ImplementsLedQueue == Led!Spec

\* A runner that is left alone comes to an end: it takes the cases while there
\* are any, and the stages' retries run out.
RunEnds == \A r \in Runners : InCharge(r) ~> ~InCharge(r)

=============================================================================
