# Nyshporka: TLA+ models and proofs

Nyshporka (`src/src/nyshporka`) is a Python program for genealogical work with
archive cases: it downloads scanned pages, has them read by handwriting models on
the local card or a rented one, keeps what was read in a registry and a search
index, and shares readings through a public pool. It runs as short command-line
processes (`nysh ...`), one long runner (`nysh queue run`) and one daemon with an
asyncio loop and a browser in front of it. All of them work on one folder of JSON
and SQLite files, guarded by operating-system file locks. There is no server that
orders anything, so what is hard is what several processes, tasks and people do to
one file between somebody's reading and writing it.

This directory holds models of the parts where that matters most, the instances
TLC checks and the theorems TLAPS proves. Paths below are relative to
`src/src/nyshporka`. `PROJECT.json` lists, definition by definition, the lines each
one translates.

## 1. The system's parts

### Modelled

| Part | State | Operations | What is hard | What makes it right |
|---|---|---|---|---|
| Case queue: file and commands (`queue/state.py`, `ops_queue.py`) | `queue.json` (records in order: state, stage, attempts, `not_before`; the stop flag), `queue.lock`, `run.lock` | add, retry, retry --all, set, drop, stop, status | people edit under the runner's hands; every check outside an edit is old when the edit comes; the probe of `run.lock` takes it | a case is in the file once; people are not overruled; one runner |
| Case queue: the runner (`queue/runner.py`) | where it is, the case it leads, its snapshot of the attempts | own, heal, rejudge, pick, flag, judge, mark, run a stage, settle, confirm, close, finish | killed or interrupted anywhere; an answer "ok" that is not true; retries that must end | done means confirmed by the disk; retries bounded; the run ends |
| Registry of cases (`cases/db.py`) | `case_library.json`, `case_index.sqlite`, the counter of requests, `build.lock` | rebuild (ask, look, try, build in two stages, finish), builds that go round the lock | ten callers at once, one build of minutes; a builder that dies; writers without the lock | no call returns something older than its request; no needless build |
| Daemon: list of jobs (`core/jobs.py`) | jobs with their state, idempotency keys, stoppers | enqueue, update, cancel, forget, expire, reload | executors that write after a cancel; answers lost and asked again; restart | a key gives one job; a cancelled job stays cancelled |
| Daemon: readings (`daemon/workers.py`) | the task of each job, the gate to the card, its processes | request, gate, look at live runs, spawn, register, read, finish, share, stop | a cancel at any await; partial failures between the processes; a restart that leaves processes | one reading on the card; no job without a task; each reading ends |
| Daemon: operations in threads (`daemon/workers.py`) | the task and thread of each operation, its warnings | ask, begin, thread ends, wake, cancel, warn | a thread cannot be interrupted; its end and the task that writes it are two turns of the loop | one run of an operation at a time; who cancelled is told what happened |
| Rate limiter (`core/xrate.py`) | a file of granted times | reserve, acquire, load, save | any number of processes; they die while they sleep; a damaged file; a clock that is set | no window of the server sees more than `max_events`; the queue never freezes |
| Page store (`pagestore/store.py`) | the notes of a case, a lock file, a guard file | annotate_pages, move_pages, take over a lock | locks by name and by age; a dead owner; a crash between two cases | no note is lost |
| Reading in the cloud, one case (`cloud/run.py`, `state.py`, `go.py`, `control.py`) | the record of the run, the machine, the pages on it and here | start, adopt, clear, rent, prepare, launch, watch, fetch, judge, release; fetch, verify, stop | a machine costs money until released; every step may fail or be killed; commands without the lock | no machine is left alone; one at a time; no page is thrown away |
| Change of case keys (`cases/rekey.py`) | files of notes, archive and journal of each apply, the marker | apply, rollback, both again after a kill | dozens of files, one after another; applies on top of each other; people write in between | a rollback brings back what was there; no note is lost |

How they interact: the runner's stages and the daemon's tasks both end in
`cases/db.py` `rebuild()`; readings from the daemon and from a terminal see each
other only through the registry of live runs (`htr/runs.py`); everything else is
shared through files. In the models a component sees its neighbours by their
contract: a stage of the queue is any answer with or without a result on disk, the
registry of live runs is one flag, the walk of the disk is a version number, the
machine of a cloud run is any course of pages read and work that ends. Three of the
modules share code, as the program does: `ReadJobs` and `GenericOps` are two
executors over the list of jobs of `JobBus`.

### Not modelled

| Part | Why |
|---|---|
| Registry of live runs (`htr/runs.py`) | its header says that two runs started together may both pass; a module would have that exception as its main property. `ReadJobs` keeps what the daemon sees of it |
| Workspace lock (`core/lock.py`) | what could go wrong takes a third daemon that died and two started within one moment (or one that finds the file created and not yet written); nothing in the repository promises more. A hazard without a property |
| The event log of the jobs (`since`, `wait` of `core/jobs.py`) | every answer of the HTTP application carries the whole list as well, so a missed event only delays the screen |
| Batches, convoys and supervised runs in the cloud | plans over many cases, each of which goes through the record and steps of `CloudRun` |
| Sharing readings (`share/`) | bundles and formats; uploads are idempotent by content |
| The seven stages (`queue/stages.py`), case library (`library.py`, `cases/walk.py`) | sequential work over data; the queue and the registry keep only their contract |
| Process trees (`core/proctree.py`, `htr/session.py`) | the operating system's behaviour; `ReadJobs` keeps its two outcomes |
| HTTP application, operations, command line | routing, arguments, texts; no state of their own |
| Handwriting runner, search, sources, inventories, canon, training, site and formats | numerical work, parsing, ranking, conversion |

The lines the models translate are about one percent of the repository. That is
what the program is: most of its 168 thousand lines are data conversion, parsing,
numerical work, texts of answers and their tests. What keeps shared state under
concurrency and failure is a few thousand lines, and the modules are about those.

## 2. The modules

    LedQueue <- CaseQueue - MCCaseQueue   CaseQueue_proofs
    FreshAnswers <- Rebuild -- MCRebuild  Rebuild_proofs
    JobBus -+- ReadJobs -- MCReadJobs     ReadJobs_proofs
            +- GenericOps -+              GenericOps_proofs
    XRate -----------------+              XRate_proofs
    PageStore -------------+- MCSide      PageStore_proofs
    CloudRun --------------+              CloudRun_proofs
    Rekey -----------------+              Rekey_proofs

`LedQueue` and `FreshAnswers` are abstract: what the queue and the registry promise,
with nothing of how. An arrow points to what a module implements.

`MC...` modules only make instances. `MCSide` puts five independent components side
by side: each behaviour moves one of them, so that one run of TLC checks what five
would. It also orders requests, jobs and machines, which are numbers there and
interchangeable: `InTurn` lets them be used in their order only, which does for
them what a symmetry set does for model values.

An operator `X_something` written just before an operator `X` is `X` with a
plausible mistake in it (a dropped check, an off-by-one, a reset that is
forgotten); no specification uses them. They show that the properties can fail:
when `X` is replaced by it, TLC finds the property broken.

### CaseQueue: the file, the runner, people

*State.* `order`, `item`, `stop` are the fields of `queue.json` that decide
anything. A record (`Item`) has its key, state, stage, attempts per stage, and `due`
in place of the time `not_before`: `Tick` is that time coming. `disk` is what the
stages find on disk (`stage.done`, or a stage that does not apply); `runLock` is
`run.lock`; `pc`, `cur`, `at`, `tried`, `out`, `fixed` are the memory of each
`nysh queue run`; `adding` is the memory of a `queue add` between its duplicate
check and its edit; `tool` is a `queue status`, `queue stop` or `queue drop` around
its probe, and `aim` the case such a drop is about.
`revoked` is auxiliary: results a person took back by changing a decision.

*Grain.* `Q.edit()` loads, changes and atomically replaces the file under
`queue.lock`, so an edit is one step. Whatever the code reads outside an edit is a
step of its own: the stop flag, the pick, the judgement of a stage, `rejudge`'s
judgement, the duplicate check of `queue add`, the probe of `run.lock`. One edit is
more than a step: `queue drop` of a record marked "running" holds `queue.lock` while
it takes `run.lock` (`DropProbe`), lets it go (`DropAsked`) and writes (`DropWrite`).
`own` asks for `run.lock` alone, so a runner may start in between; its first edit has
to wait (`FileFree`), as every other edit has.

*Actions.* `Start`/`Refused` = `own`; `Heal` = `heal`; `Rejudge` and `Requeue` =
`rejudge` before and in its edit; `Pick`, `Exhausted`, `Finish` = `run`;
`CheckFlag` ... `Close` = the branches of `process`; `Leave` = the end of `own`;
`Interrupt` = Ctrl-C, or an exception of `stage.done`; `Kill` = the process is gone
and the system frees its lock. `AddLook`/`AddWrite`, `RetryCase`, `RetryAll`,
`Decide`, `Drop`, `DropProbe`/`DropAsked`/`DropWrite`, `Probe`/`EndProbe`/`StopWrite`
are the commands; `Repair` is a
person putting on disk what a blocked case waits for.

*Left out.* The journal, the pulse and the runner's record (people read them, no
code decides by them); an edit that cannot get `queue.lock` in time and a file that
cannot be parsed; a failure of the edit in a `finally`; `queue add` of several
references at once (it does the same for each); `--limit` is only there as the runner
that stops after one case. `Judge` looks at the decisions of the moment, where
`process` goes by those in its snapshot of the record (`runner.py:142`), which a
person may have changed since the last `Mark`. A result on `disk` disappears
only by a decision: nobody deletes frames or readings under a running queue.

### LedQueue: what the queue promises

`LedQueue` knows no records, slots, stages, locks or snapshots. A case has one
`status`; nobody is in `charge`, or somebody comes to be, or leads; one case is in
`hand` or none; `passed` are the cases every stage of which has been confirmed, now or
before a person took that back. People order, put back and withdraw cases. Who comes
restores what was left running and leads from then on; who leads takes a queued or
repeating case while none is running, works on the case in hand and on no other, and
concludes it; "done" only if it has passed. A case that is being worked on is not
withdrawn from under somebody who leads. It may be while the next runner is only
coming: `queue drop` asks whether a runner lives and writes later
(`ops_queue.py:380-383`), and what it drops then is what a dead one has left.

`CaseQueue` implements it (`ImplementsLedQueue`): `Status` is the state of a case's one
record that stands, `Charge` and `Hand` come from where the runners are and what they
lead (a runner comes until its `Heal`, and is no longer in charge when it has only to
let its lock go), `Passed` from `disk` and `revoked`. Most steps of the runner are
stutters, as are the probes, the stop flag, the clock and the reading half of every
command; `Finish`, `Kill`, and `Interrupt` before the loop are `Leave`, `Interrupt`
within it is `LetGo`; `RetryCase`, `Decide`, `RetryAll` and `Requeue` are `PutBack`. That the mapping is a
function at all (one record a case, one leader) is `OneRecord` and `OneRunner`.

### FreshAnswers and Rebuild: one build for many requests

`FreshAnswers` is what `rebuild()` promises: whoever asks is answered with the disk
as it was at some moment between the question and the answer, or is stopped by a
fault. `Rebuild` is the code: `asked`, `done`, `result` are the counter file,
`lock` is `build.lock`, `library` and `registry` the two files a build writes, in
versions of the disk; `mine`, `upto`, `saw`, `rows` are the memory of a call; and
`since`, `answer`, `heard`, `closed` are auxiliary. `Ask`, `Look`, `Try`, `GiveUp`,
`Again`, `Finish`, `Leave` are the steps of `rebuild`, and `Scan`, `WriteLibrary`,
`CollectRows`, `Replace` those of `_rebuild_now`; `Begin` starts the same build
without the lock (`Wide`: `cases take`, `cases build --fetch-cloud`; `Narrow`: only
the index, `cases rekey`, `cases build --no-rescan`), and `aside` notes that such a
build has written the library or the registry. `Stop` is a build that raises
or a process that is killed, `GiveUp` the hour that ran out.

A walk of the disk takes minutes. Its result is credited with the version the disk
had when the walk began, the least it can hold, so a property that says "no older
than" is not made true by the model. The counter is read and written in one call
under a short lock, one step. The saved `result` is there exactly when `done`
covers somebody (`finish` writes both). The content of the registry is left out.

### JobBus and ReadJobs: the daemon

`JobBus` is the list: the state of every job, its key, what the key stands for, who
has a stopper. Its operations have no `await` between reading and writing (`enqueue`
has one only for a `precheck`, and no caller passes one), so each is one step.
`Expire` is the 600 seconds of a key, `Reload` the restart of the daemon.

`ReadJobs` is the executor over it. `task[j]` is where the coroutine of a job stands
and every value of it is an await of `_start_read`, `_run_read` or
`_run_read_locked`: the gate, the look at the registry of live runs (in a thread),
the nap when another case is being read, the start of each process, their
registration (in a thread), the reading, the sharing. Anything may happen there: a
cancel (`Cancel` and then `StopReading`, the task that ends the processes), another
job, a run of the terminal (`ForeignStarts`/`ForeignEnds`), the clearing of the
list. Faults are named by where they strike (`FaultKinds`): the look
raises, which nothing catches, and leaves a job whose task is "dead" (`LookFails`); a
process does not start, its registration times out, its output cannot be read
(`Breaks`); a stop leaves some processes alive, which it could not end or whose root had
exited before, so the output is cut off after 15 s and the task goes on with them there
(`StopFails`, `Heard`); the daemon dies (`Restart`). After a fault of the task or the
daemon the processes of a job are all gone or all left, as there is a Job Object on
Windows and nothing elsewhere. `CardHeld` is stated until the first of these faults.
`proc[j]` counts runner processes; each stands for the whole tree it
started. Titles, progress, events, results and the other kinds of jobs are left out.

### GenericOps: operations in threads

Over the same `JobBus`: `_start_generic`, `_run_generic`, and the rebuild of the
registry. `body[j]` is where the work is: the task is made, the thread runs, the
thread has ended and the task is to wake. Those are two turns of the event loop and
a cancel may fall between them (`lateCancel`). `told[j]` is the last warning in the
job's record, since which of two warnings stays is what `ResultExplained` is about;
`notes` are the tasks of `_say_cant_stop` that have not yet run. The loop takes its
callbacks in order, which is the guard `NoteFirst`. Left out: progress, `pick.ask`.

### XRate: the limit of requests

`reserve` runs under its file lock and is one step: load (`LoadGrants`, with its
answer to a damaged file and to times from the future), sort, `Slot`, append, keep
the end. (`Near` drops what is too far ahead and keeps the order of the rest, `Sorted`
gives each place of the list the value of that rank, which is what sorting is.) `Send` is the end of a sleep, at most `Slack` late: the margin the code
adds to the window. `Tick`, `Jump`, `Damage`, `Die` are the world. `upset` marks
histories in which the clock was set, or a time somebody still waits for has left
the file; `Limit` holds until then. Times are small numbers of one unit.

### PageStore: notes on pages

A file is the set of the agents whose note it has. Merging two texts of one note,
views, records and totals are data. `_lock` is modelled step by step, because it
works with names and ages: create, look at the age, make the guard, look again,
remove. `Unguard`, `Unlink` and `Free` remove by name whatever is there by then, as
the code does. `late` marks histories with an owner slower than 30 s, a guard that
outlived its owner or a page annotated while it is moved, in which the code does
lose notes.

### CloudRun: a rented machine

`record` is the file; each process has a copy of it (`mine`) and saves the copy
whole, as `state.save` does. Only `start` and `go` take the lock (`lease`). The
steps are the places between two saves or two calls of the machine: `Intend`,
`Acquire`, `Book`, `Prepare`, `Spawned`, `BookPid`, the handler `Undo`; then `Watch`,
`Fetch`, `Judge`, `Drop`, `BookRelease` of `go`; `LoadRun` with `FetchIt`,
`VerifyIt`, `StopIt` for the commands beside it (which of them a command is shows only
in what it does). `Watch` ends when the work has ended by itself. `BreakOff` is a
ceiling, Ctrl-C or an error: `stop_job` ends the work or fails, which `_salvage` passes
over, and one more fetch follows before the release, with the work perhaps going on
behind it. Pages are read whenever the work runs on a machine that is there
(`PageRead`), so also where the starter has lost the answer to `spawn` and is about to
release it. `Perish` kills a process anywhere. `billing` is the truth about what costs
money. Auxiliary: `cut` (machines whose renter died before the record named them),
`stale` (a command without the lock saved an old copy), and `excused`, the exceptions of
`NothingThrown`:
- a machine released by force, or after fetching was given up;
- a machine that went by itself;
- a machine whose starter died before it had noted the pid, or failed after the work
  had begun (`run.py:859-868` releases it and says that it had not come to work);
- a machine whose work could not be stopped before the last fetch
  (`go.py:1782-1786`): what it reads after the archive is lost.

Left out: money and hours (a ceiling may come at any moment of `BreakOff`), frames,
prices.

### Rekey: the change of case keys

A file is a set of notes, found by case and name; `proper` is the name a case's key
gives now. `Start` is everything up to the journal, which is written atomically
before the first move. A move is two steps (`MoveIn` writes the merged file,
`MoveOut` removes the old one), `SetMarker` and `EndApply` follow. `ApplyFails` is an
exception: up to the marker it leads into the same undo that `rollback` does, after
it the command ends with its journal open. `StartBack` is rollback's choice of an
apply and its refusals; `Remove`, `Restore`, `RestoreMarker`, `EndBack` its writes.
Applies lie on each other up to `MaxMoves`. `KillRekey` ends a command anywhere;
what rollback writes is not written atomically, so a kill may leave half a file
(`Torn`), half a marker or half a journal (`broken`). `newer` is what times of files
tell `_changed_since`. People write (`Annotate`) and correct passports (`Correct`)
while no command runs: both commands refuse when a lock of a store is fresh. Left
out: the stores that are rewritten in place and the views, which are archived and
restored like the files here, and the final census, which only warns.

## 3. What TLC checks

| Run | Instance | What it shows | States |
|---|---|---|---|
| `queue_stages` | 1 case, 2 records, 2 runners (one stops after a case), 1 adder, 1 tool, 2 stages, 1 retry, 3 ops | `TypeOK`, `SingleRunner`, `DoneIsPassed`, `TriesBounded`, `NoOverrule` | 1.63 M |
| `queue_live` | 2 cases, 2 records, 1 waiting runner, 1 adder, 1 tool, 1 op | `LedCaseOnly`, `UniqueLive`, `RunEnds`, `ImplementsLedQueue` | 0.15 M |
| `rebuild` | 2 callers and an indexing without the lock, 3 requests, 2 changes of the disk, 1 fault | `TypeOK`, `FreshSummary`, `NoNeedlessBuild`, `Answered`, `FreshRegistry`, `NoStepBack`, `Implements` | 0.89 M |
| `read` | 2 jobs of 2 processes, 2 keys, 1 run of the terminal, any one fault | `TypeOK`, `CardHeld`, `NobodyStranded`, `OneJobPerKey`, `ReadsEnd`, `CancelledStays` | 0.28 M |
| `side` | `XRate`: 3 requests, 2 a window, clock to 9, 1 mishap | `Limit`, `NoFreeze` | 1.62 M in all |
| | `PageStore`: 2 agents (one's page is moved), 2 movers, 2 deaths, 1 slow owner | `NothingLost` | |
| | `GenericOps`: 2 jobs, 3 operations (one can be stopped, one is a rebuild), 1 death of the daemon | `OneRun`, `ResultExplained` | |
| | `CloudRun`: 2 processes, 2 machines, 1 page, 2 kills or stray commands | `NoOrphan`, `OneMachine`, `NothingThrown` | |
| | `Rekey`: 2 cases, 1 later note, names 0 to 2, 2 applies, 2 kills | `WorkKept`, `Restores` | |

The seven runs that end in a violation are in section 5.

*Bounds and why they are enough.* `MaxOps`, `MaxFaults`, `MaxForeign`, `MaxDisk`,
`MaxAsks`, `MaxClock`, `MaxMishaps`, `MaxDeaths`, `MaxSlow`, `MaxCrashes`,
`MaxExtras`, `MaxMoves` and `MaxKills` are the only bounds, and every one is a
constant. The hard cases of the queue need a second runner after a killed one and a
result taken back, a case retried and a runner killed in one history: three ops in
`queue_stages`, with one case. Two cases, of which one is picked in place of the
other, are in `queue_live`, with one runner; histories of two cases and two runners
are left to the theorems. Two stages are the fewest with an earlier one to be taken
back while a later one runs; one retry is the fewest at which "one too many" and
"none" differ; a case dropped and added again needs the second record. For the
registry one caller waits while another builds, the third request is one made during
a build, and two changes of the disk separate the version before the walk, during it
and after it. One gate is contended by two jobs, and two processes per job are the
fewest that can be started in part. Jobs are never reused, so two of them cover "the
same reading asked for again" and "the same operation clicked again". Three requests
are one more than a window takes, and nine units of the clock let four windows pass
after a mishap. A lock is taken over by one process from a dead one while another
tries the same, and each of two movers can die. The first machine of a cloud run
fails and a second is rented; two extras are a stray command and a kill. Two applies
are one on top of the other, and two kills strike an apply and its rollback. In
`MCSide` a cloud run stops once an old copy was saved, or all machines were rented and
none costs money: its three properties can no longer become false. The theorems of section 4 hold without these bounds.

Deadlock is checked in the queue's runs (people can always add, or a runner start).
It is switched off where the system really stops: in `Rebuild` when the requests are
used up, in `ReadJobs` when every job has been read and forgotten, in the components
of `MCSide` when all requests, agents, machines or applies are used up.

*Symmetry* is used in safety runs only: records and cases of the queue, the processes
of `CloudRun`, the cases of `Rekey`.

*Fairness.*
- `CaseQueue`: a started runner keeps going (it is one sequential process, and every
  stage it calls returns or raises), a command that has begun ends, the clock runs.
  Nothing makes people act, and nobody has to start a runner. `RunEnds` also needs
  that they stop disturbing it: the ops are finite, and so are the records.
- `Rebuild`: a call keeps going. There is no fairness on getting the lock beyond the
  caller's own attempts once a second. `Answered` holds nevertheless, because a
  caller that finds the lock taken looks at the counter again, and the requests
  other callers can make are finite here. In the code the hour (`GiveUp`) ends what
  is left.
- `ReadJobs`: the event loop serves its tasks. That is strong fairness for a task,
  because the gate is an `asyncio.Semaphore`, which is first come, first served: a
  task that waits gets it although it is not always free. The processes of a reading
  end (they have a finite list of pages, and the executor's watchdog), a stop that
  was begun is carried out, and runs of the terminal end and are finitely many.
- The other modules state safety only: a process in them may stop anywhere.

## 4. What is proved

The theorems are in the `..._proofs` modules, for every value of the constants: any
number of cases, records, runners, stages, callers, jobs, processes, machines,
applies and faults. The assumptions on the constants are named `ASSUME`s of the
modules (sizes are natural numbers, names differ). Anything further is a hypothesis
of the theorem, by name.

| Theorem | Hypothesis | Inductive invariant, and why it is needed |
|---|---|---|
| `CaseQueue!TypeCorrect` | | `TypeOK` is inductive by itself |
| `OneRunner` | | `LockInv`: whoever is in charge holds `run.lock`, and so does a probe under way. Without the second half the end of a probe could free a runner's lock. |
| `OneRecord` | `NoTwin` | `FileInv`: written records and `order` agree, and a case somebody is adding is not standing in the file. Adding is two steps and this is what the first one leaves for the second. |
| `OnlyTheLedCase` | `NoTwin` | `LedInv`: what the runner leads is in a live state, if it stands at all. Rests on `LockInv` (another runner writes nothing) and `FileInv` (the record found by key is the one picked). |
| `PeopleObeyed` | `NoTwin` | from `LedInv`: the record marked was picked on an older file, yet it can only have been put back or dropped since |
| `QueueImplements` | `NoTwin` | `QueueInv`, the conjunction of `TypeOK`, `LockInv`, `FileInv`, `LedInv` and `PassedInv`. `FileInv` makes a case's state that of one record (`StatusIs`), `LockInv` the case in hand that of one runner (`HandIs`); `LedInv` says that the record the runner settles by key is in a state it may settle; `PassedInv` that "done" is deserved. That a drop under way lands on no runner that has healed is in `LockInv`: while its probe is asked or answered no file edit is made, so whoever started since is still coming (`WaitsOrWorks`). Each step is then a step of `LedQueue` or leaves its variables alone (`EditShows`, `RunnerShows`, `PeopleShow` ...). |
| `DoneMeansPassed` | | `PassedInv`: the stages before the present one are on disk or were taken back. Holds with any number of adders, although `OneRecord` does not. |
| `RetriesEnd` | | `TriesInv`: the count in the runner's snapshot is bounded as well as the one in the file, since it is the snapshot that is written back |
| `Rebuild!TypeCorrect` | | `TypeOK` |
| `NobodyBuildsTwice` | | `LockInv` and `CountInv`: a builder's own number is not covered, it covers all it heard, and whoever it answered for is covered |
| `SummaryIsFresh` | `Undisturbed` | `CallInv`: no version is in the future; what the builder saw is no older than any request it will close; library and rows are what it saw; whatever `done` covers was asked no later than `result` |
| `RebuildImplements` | `Undisturbed` | `CallInv`; each step of `Rebuild` is a step of `FreshAnswers` or leaves its variables alone (`Look` and `Leave` serve, `Stop` and `GiveUp` give up) |
| `RegistryMovesOn`, `RegistryIsFresh` | | `RegistryInv`: until a build without the lock writes one of the two files, the registry is between `result` and what the builder saw. No hypothesis: a step that disturbs a locked build is such a write, after which these two promise nothing more; what such builds begin, walk or read does no harm. |
| `ReadJobs!TypeCorrect` | | `TypeOK` with `StageInv`: how far a job can have come where its task is; without it the count of processes has no bound |
| `KeysAreObeyed` | | `KeyInv`: an unfinished job is the one its key stands for, until the key runs out |
| `CancelIsFinal` | | `StageInv`: a task never writes to a job but through `update`, and `enqueue` only to a new one |
| `ListIsHonest` | | `LedInv`: an unfinished job is in a place of its task where it is still to be ended |
| `OneReadsAtATime` | | `CardInv`: the gate is held from the look to the end of the task, and only a task that leads processes has any |
| `GhostsAreUntimely` | `Timely` | `ToldInv`: a task past its last question is that of a job nobody cancelled, and one before it will still be told |
| `LimitHolds` | | `RateInv`, of the days on which nothing upsets the file. The file tells of every request still to be counted (`FileTells`: the i-th time from its end is not before the ticket of whoever has i requests behind it), so tickets a round of `max_events` apart are a window apart (`Apart`). Then two requests of one window have different turns modulo `max_events`, which bounds their number. |
| `NeverFreezes` | | the types: what is loaded is at most four windows ahead, so a ticket is at most five |
| `ShortQueueKeepsPace`, `ShortQueueKeepsLimit` | `ShortQueue` | `LineInv`: the file is `Calm`, every number up to the last is one request's (`Turns`), and the tickets in their order are a window apart every `max_events`. So whatever is more than four windows ahead has `4 * max_events` others ahead of the clock before it, and a shorter queue drops nothing. |
| `StoreTypeCorrect` | | `StoreType` |
| `NotesSurvive` | | `StoreInv`, while nothing was late: an old lock belongs to a dead process (`OldIsDead`), who works under a lock or a guard made it (`OneHolder`), what is about to be written back is based on what is there (`Fresh`), and what a mover will clear is in the other case (`Carried`) |
| `PromptLoseNothing` | `Prompt` | `NotesSurvive`, and that nothing is late |
| `OpTypeCorrect` | | `OpType` |
| `MergesAlone` | | `OpInv`: with it, a job that is not yet made has neither thread nor result |
| `MergesAloneUnlessCleared` | `ClearsTheIdle` | `OnTheList`: a job with a thread is on the list |
| `CancelledSaysWhole` | | `SaidInv`: a result comes with the end of the task, after which the job is over and no earlier warning is still to be written |
| `CloudTypeCorrect` | | `CloudType` |
| `NoMachineAlone`, `OneAtATime`, `NothingGivenAway` | | `CloudInv`, one invariant for the three. Always: who works in `start` or `go` holds the lock, and no copy tells of a release that did not take place (`Base`). Until an old copy is saved: the holder's copy names the machine of the record, or a newer one (`InHand`); what costs money is that machine (`Sole`); a verdict that lets `stop` go ahead is true in the record and in every copy, and each step has behind it what it relies on (`Work`) |
| `MachinesAreFound` | `NotesItsMachine`, never `stale` | `NoMachineAlone`, and that no machine is cut off |
| `RekeyTypeCorrect` | | `RekeyType` |
| `NotesAreKept`, `RollbackRestores` | | `RekeyInv`: the applies that stand lie on each other like a stack; what an apply did not touch is, below it, as that apply found it, but for newer notes (`Stack`), so an archive of what was touched is enough; the sums of a finished apply see every note made since (`Seen`); where a command stands says what it has still to do (`Place1`, `Place2`) |

*The hypotheses.* Each is false of some real histories, and a run shows what happens
then. Each is as weak as that run allows: it excludes steps, or states that only those
steps reach, and nothing else, so that hypothesis and run together say when the code
keeps the promise and when it does not.

| Hypothesis | What it excludes | The run without it |
|---|---|---|
| `NoTwin` | two `queue add` of one case between duplicate check and edit at once (different cases may be added by any number of people) | `queue_twice` |
| `Undisturbed` | the library written by a build outside the lock while a locked build is between its two stages | `rebuild_outside`; TLC breaks `FreshSummary` without it on `rebuild` with a `Wide` process |
| `Timely` | a cancel while the look at the registry is under way or between the starts of two processes; the list cleared of a cancelled job that has yet to ask for its state. TLC finds a ghost when any one of the five places is let in | `read_ghost` |
| `ShortQueue` | more than `4 * max_events` granted times ahead of the clock; a mishap | `rate_crowd` |
| `Prompt` | a page annotated while it is being moved; a living owner of a lock slower than 30 s; a guard as old. TLC loses a note when any one of the three is let in (for the guard it takes three agents) | `pages_move` |
| `ClearsTheIdle` | the list cleared of a cancelled operation still in its thread | `generic_twice` |
| `NotesItsMachine`, `[]~stale` | a renter killed before it has noted the machine; an old copy saved without the lock. TLC loses a machine when either is let in | `cloud_orphan` |

The conditions inside the properties (`~late`, `~stale`, `~upset`, `cut`, `excused`,
`forgone`, "until something fails") are histories as well: each is one in which TLC
shows the plain property broken, and each is named in section 5 or in a comment of its
module.

*Only model-checked:* the liveness properties `RunEnds`, `Answered` and `ReadsEnd`:
fairness and ENABLED are beyond the prover here. Every safety and action property of
the passing runs, and every one of the violated ones but `RunEnds` and `FreshAlways`, is
a theorem, the latter under the hypotheses above. (`FreshAlways` is `FreshRegistry`
without its exception, which `RegistryIsFresh` is about.) The refinement of `LedQueue`
is one of safety: that a queued case is taken at last is part of `RunEnds`.

## 5. Where the code does not keep a promise

Each of these is a run with one property, stating what a comment, message or test
says.

- `queue_twice` (`ops_queue.py:247`): the duplicate check of `queue add` is made on
  a snapshot and not repeated in the edit. Two at once put a case in the file twice.
  `_item` finds the first record by key, `_pick` the second, so the runner settles
  the first and picks the second for ever: `RunEnds` fails.
- `rebuild_outside` (`cases/take.py:356`): `cases take` builds without `build.lock`,
  and a call of `rebuild()` beside it returns with a registry older than its
  request: `FreshAlways`.
- `read_ghost` (`daemon/workers.py:643`): a reading cancelled while the registry of
  live runs is read in a thread starts its processes all the same, and nothing stops
  them: `NoGhostRead`. A cancel between the starts of two processes does the same, and
  so does clearing the list of a cancelled reading that still waits: `bus.cancelled` is
  false of a job that is not there (`core/jobs.py:286`).
- `rate_crowd` (`core/xrate.py:239`): with more than `4 * max_events` granted times
  ahead of the clock, real grants are taken for those of a clock that jumped and are dropped;
  from then on every caller gets the same time: `Spaced`.
- `pages_move` (`pagestore/store.py:882`): `move_pages` clears pages by name, not by
  what it copied; a note written in between is in neither case: `NothingEverLost`.
- `generic_twice` (`daemon/workers.py:197`): an operation cancelled and cleared from
  the list goes on in its thread and is no longer seen by the gate; a second one
  starts beside it: `OneRunEver`.
- `cloud_orphan` (`cloud/run.py:728`): a process killed between the renting of a
  machine and its noting leaves a machine no record names: `MachineFound`.

Others were met on the way. They are in the models, as exceptions of the properties,
and have no run of their own:

- A case picked and not yet marked may be dropped; the next `_settle` raises
  `QueueError`, which ends the whole run and not that case (`queue/runner.py:106`).
- The probe of `run.lock` takes it, so `queue status` can make a starting runner say
  that another process leads the queue (`queue/state.py:135`).
- A cancel between the end of a thread and the waking of its task replaces the
  warning "the result is whole" by "cannot be interrupted"
  (`daemon/workers.py:226`, 292-301). Without the exception `lateCancel` TLC shows it
  in 7 states.
- `fetch`, `verify` and `stop` in the cloud save a whole copy without the lock and
  can put an old address over that of a machine rented meanwhile
  (`cloud/control.py:24`). Without the exception `stale` TLC shows the lost machine
  in 16 states. A process killed between the start of the work and the noting of its
  pid makes the next start release the machine with the work on it (`run.py:921`); one
  that fails there releases it itself (`run.py:859-868`) and reports that it had not
  come to work.
- `go` that is broken off and cannot stop the work on the machine notes `stop_failed`,
  fetches and releases it all the same (`cloud/go.py:1782-1786`): what the machine read
  after the archive was made is lost. Without the exception TLC breaks `NothingThrown`
  in 14 states.
- `queue drop` of a case a dead runner left "running" may be written when the next
  runner is already in charge, because the lock it asked is let go before the write
  (`ops_queue.py:380-383`). The runner has changed nothing by then, so only the order of
  the two is lost: LedQueue allows it while a runner "comes".
- A guard of the page store is removed by name, whoever has made it by then, and a
  lock is taken from an owner that is only slow (`pagestore/store.py:600-646`).
- An apply of `cases rekey` that ends in `build_index`, after the marker was set
  (`cases/rekey.py:621`), or is killed there, leaves its journal open. People then
  work under the new keys, and `rekey --rollback` without `--force` erases what they
  wrote, because `_changed_since` returns nothing for such a journal (956-957); the
  docstring of `rollback` (971-974) promises a refusal. Without the exception
  `forgone` TLC shows it in 11 states. What rollback writes is not written
  atomically (1018, 1023): a kill can leave half a page file (a repeated rollback
  mends it), half a marker (no command resolves the workspace any more) or half a
  journal (every later rollback stops at it).

## 6. What is left

Done, in the order of the original plan: the queue, the registry and the daemon's
readings first, because everything else hands its work to them; then `GenericOps`,
`XRate`, `PageStore`, `CloudRun` and `Rekey`, each with its proofs.

Considered and not done, with the reasons in section 1: the event log of the jobs,
the registry of live runs, the workspace lock, sharing. What would be worth adding:
`WorkspaceLock` with two takeovers at once, if the file ever gets a promise to keep;
`ReadJobs` over a model of `htr/runs.py`, if `others` and `register` become one
transaction; and an abstract list of jobs that both of its executors implement.
