------------------------------ MODULE CloudRun ------------------------------
(***************************************************************************)
(* Reading one case on a rented machine (src/nyshporka/cloud/run.py,       *)
(* state.py, control.py and the thin path of go.py).  What is known of the *)
(* run lies in a file, each command loads it, works on its copy and saves  *)
(* the copy whole.  `start` and `go` hold an OS lock that dies with them;  *)
(* `fetch`, `verify` and `stop` do not.  A machine costs money from the    *)
(* moment the backend has it until it is released.                         *)
(***************************************************************************)
EXTENDS Naturals, FiniteSets

CONSTANTS
  Shells,   \* processes, each running one command after another
  Boxes,    \* machines the backend may give
  Pages,    \* pages of the case
  MaxExtras, \* bound: commands given beside start and go, processes killed, machines
             \* gone by themselves
  NoBox, NoShell

ASSUME CloudNames == NoBox \notin Boxes /\ NoShell \notin Shells
ASSUME CloudSizes == MaxExtras \in Nat

VARIABLES
  record,   \* the file: [box, released, pid, again, verdict]
  mine,     \* process: its copy of the record
  at,       \* process: where it is
  auto,     \* process: is it `go`, which leads the run to its end?
  lease,    \* who holds the lock of the run
  billing,  \* machines that cost money
  taken,    \* machines that were ever rented
  job,      \* machine: "none", "runs" or "over"
  texts,    \* machine: pages read on it
  home,     \* pages whose text is here
  extras,   \* how many of them there may still be
  cut,      \* auxiliary: machines whose renter died before it had noted them
  stale,    \* auxiliary: a command without the lock has saved a copy that was old
  excused   \* auxiliary: machines thrown away knowingly or gone by themselves; whose
            \* starter died, or failed, with the work begun; whose work could not be
            \* stopped before the last fetch

cloudVars == <<record, mine, at, auto, lease, billing, taken, job, texts, home, extras,
               cut, stale, excused>>
world  == <<billing, taken, job, texts, home, extras>>
ghosts == <<cut, excused>>

NoRun == [box |-> NoBox, released |-> FALSE, pid |-> FALSE, again |-> FALSE,
          verdict |-> "none"]

\* RunState.needs_release, for a machine that is rented.
NeedsRelease(r) == r.box # NoBox /\ ~r.released

To(p, where) == at' = [at EXCEPT ![p] = where]

\* state.save: the copy, whole.
Save(p, r) ==
  /\ record' = r
  /\ stale' = (stale \/ (lease # p /\ <<r.box, r.pid>> # <<record.box, record.pid>>))

\* The command goes on with what it saved.
GoOn(p, r, where) ==
  /\ Save(p, r)
  /\ mine' = [mine EXCEPT ![p] = r]
  /\ To(p, where)
  /\ UNCHANGED <<auto, lease>>

\* The command is over, and with it its copy and the lock.
Over(p) ==
  /\ To(p, "idle")
  /\ mine' = [mine EXCEPT ![p] = NoRun]
  /\ auto' = [auto EXCEPT ![p] = FALSE]
  /\ lease' = IF lease = p THEN NoShell ELSE lease

Unsaved == UNCHANGED <<record, stale>>

-----------------------------------------------------------------------------
(* start                                                                   *)

\* owned(), then state.load.
StartRun(p) ==
  /\ at[p] = "idle" /\ lease = NoShell
  /\ lease' = p
  /\ mine' = [mine EXCEPT ![p] = record]
  /\ \E a \in BOOLEAN : auto' = [auto EXCEPT ![p] = a]
  /\ To(p, "adopt")
  /\ UNCHANGED <<record, stale, world, ghosts>>

\* adopt: the run's own machine, still at work, is all there is to start; a machine
\* that does not answer ends the command; one that is gone is nothing to adopt, nor is
\* one whose pid is that of the first run while the second runs.
Adopt(p) ==
  /\ at[p] = "adopt"
  /\ LET r == mine[p]
         open == r.box # NoBox /\ r.pid /\ ~r.released
     IN  \/ /\ open /\ r.box \in billing /\ job[r.box] = "runs"
            /\ IF auto[p] THEN GoOn(p, r, "watch") ELSE Save(p, r) /\ Over(p)
         \/ open /\ Over(p) /\ Unsaved
         \/ /\ open => r.box \notin billing \/ job[r.box] # "runs" \/ r.again
            /\ To(p, "fresh")
            /\ Unsaved /\ UNCHANGED <<mine, auto, lease>>
  /\ UNCHANGED <<world, ghosts>>

\* Mutation of Clear: whatever the earlier attempt left is not looked at.
Clear_skip(p) ==
  /\ at[p] = "fresh"
  /\ To(p, "cleared")
  /\ UNCHANGED <<record, mine, stale, auto, lease, world, ghosts>>

\* _start: a machine left by an earlier attempt is released if no work was started
\* on it; where the work is over, the results are to be fetched first.
Clear(p) ==
  /\ at[p] = "fresh"
  /\ ~(NeedsRelease(mine[p]) /\ mine[p].pid)
  /\ IF NeedsRelease(mine[p])
     THEN /\ billing' = billing \ {mine[p].box}
          /\ mine' = [mine EXCEPT ![p].released = TRUE]
     ELSE UNCHANGED <<billing, mine>>
  /\ To(p, "cleared")
  /\ UNCHANGED <<record, auto, lease, taken, job, texts, home, extras, stale, ghosts>>

\* The command refuses, or the backend does: nothing is noted.
Refuse(p) ==
  /\ \/ at[p] = "fresh" /\ NeedsRelease(mine[p])
     \/ at[p] = "acquire"
  /\ Over(p)
  /\ Unsaved /\ UNCHANGED <<world, ghosts>>

\* enter("acquiring"): the intent is saved.
Intend(p) ==
  /\ at[p] = "cleared"
  /\ GoOn(p, mine[p], "acquire")
  /\ UNCHANGED <<world, ghosts>>

\* Mutation of Acquire: the record of the attempt before is kept, but for the machine.
Acquire_over(p) ==
  /\ at[p] = "acquire"
  /\ \E b \in Boxes \ taken :
       /\ billing' = billing \cup {b}
       /\ taken' = taken \cup {b}
       /\ mine' = [mine EXCEPT ![p].box = b]
  /\ To(p, "acquired")
  /\ UNCHANGED <<record, auto, lease, job, texts, home, extras, stale, ghosts>>

\* backend.acquire: a new machine, with a clean record.
Acquire(p) ==
  /\ at[p] = "acquire"
  /\ \E b \in Boxes \ taken :
       /\ billing' = billing \cup {b}
       /\ taken' = taken \cup {b}
       /\ mine' = [mine EXCEPT ![p] = [NoRun EXCEPT !.box = b]]
  /\ To(p, "acquired")
  /\ UNCHANGED <<record, auto, lease, job, texts, home, extras, stale, ghosts>>

\* The machine is noted.
Book(p) ==
  /\ at[p] = "acquired"
  /\ GoOn(p, mine[p], "prepare")
  /\ UNCHANGED <<world, ghosts>>

\* The engines, the frames; then enter("running").  Whatever is raised on the way,
\* Ctrl+C too, leads to the handler.
Prepare(p) ==
  /\ at[p] = "prepare"
  /\ \E where \in {"spawn", "undo"} : GoOn(p, mine[p], where)
  /\ UNCHANGED <<world, ghosts>>

\* session.spawn
Spawned(p) ==
  /\ at[p] = "spawn"
  /\ job' = [job EXCEPT ![mine[p].box] = "runs"]
  /\ To(p, "spawned")
  /\ UNCHANGED <<record, mine, stale, auto, lease, billing, taken, texts, home, extras, ghosts>>

\* The pid is noted, and is the work alive?  If it is not, or the look at it fails,
\* or the answer to spawn is lost and no pid is known: the handler of start.  In a
\* second run for the tail (always go's) that is BreakOff.
BookPid(p) ==
  /\ at[p] = "spawned"
  /\ LET r == [mine[p] EXCEPT !.pid = TRUE]
     IN  \/ /\ IF auto[p] THEN GoOn(p, r, "watch") ELSE Save(p, r) /\ Over(p)
            /\ UNCHANGED excused
         \/ ~r.again /\ GoOn(p, r, "undo") /\ UNCHANGED excused
         \/ /\ ~r.again /\ GoOn(p, mine[p], "undo")
            /\ excused' = excused \cup {r.box}
  /\ UNCHANGED <<world, cut>>

\* The handler: the machine is released, with whatever was begun on it, or cannot be.
Undo(p) ==
  /\ at[p] = "undo"
  /\ LET b == mine[p].box
     IN  \/ /\ billing' = billing \ {b}
            /\ excused' = IF job[b] = "none" THEN excused ELSE excused \cup {b}
            /\ To(p, "dropped")
            /\ Unsaved /\ UNCHANGED <<mine, auto, lease>>
         \/ /\ Save(p, mine[p])
            /\ Over(p)
            /\ UNCHANGED <<billing, excused>>
  /\ UNCHANGED <<taken, job, texts, home, extras, cut>>

-----------------------------------------------------------------------------
(* go: the supervision                                                     *)

\* Mutation of Watch: the work need not be over.
Watch_early(p) ==
  /\ at[p] = "watch"
  /\ To(p, "fetch")
  /\ UNCHANGED <<record, mine, stale, auto, lease, world, ghosts>>

\* _wait: the work is over by itself.
Watch(p) ==
  /\ at[p] = "watch"
  /\ job[mine[p].box] # "runs"
  /\ To(p, "fetch")
  /\ UNCHANGED <<record, mine, stale, auto, lease, world, ghosts>>

\* A ceiling, Ctrl+C or an error breaks the supervision off, in a second run from its
\* launch on: the work is stopped (stop_job), or that fails and is passed over.
BreakOff(p) ==
  /\ \/ at[p] \in {"watch", "fetch", "judge"}
     \/ at[p] \in {"spawn", "spawned"} /\ mine[p].again
  /\ job' \in {job, [job EXCEPT ![mine[p].box] = IF @ = "runs" THEN "over" ELSE @]}
  /\ To(p, "salvage")
  /\ UNCHANGED <<record, mine, stale, auto, lease, billing, taken, texts, home, extras, ghosts>>

\* _fetch_with_retries: in the end all that is on the machine is here; or the archive
\* could not be made, and the machine is left as it is; or, the supervision being
\* broken off, it is given up.  What a machine still at work reads later is lost.
Fetch(p) ==
  /\ at[p] \in {"fetch", "salvage"}
  /\ LET b == mine[p].box
         stopped == [mine[p] EXCEPT !.verdict = "stopped"]
     IN  \/ /\ b \in billing
            /\ home' = home \cup texts[b]
            /\ IF at[p] = "fetch"
               THEN GoOn(p, mine[p], "judge") /\ UNCHANGED excused
               ELSE /\ GoOn(p, stopped, "release")
                    /\ excused' = IF job[b] = "runs" THEN excused \cup {b} ELSE excused
         \/ /\ at[p] = "salvage"
            /\ GoOn(p, stopped, "release")
            /\ excused' = excused \cup {b}
            /\ UNCHANGED home
         \/ /\ Save(p, [mine[p] EXCEPT !.verdict = "unfetched"])
            /\ Over(p)
            /\ UNCHANGED <<home, excused>>
  /\ UNCHANGED <<billing, taken, job, texts, extras, cut>>

\* The verdict; or, once, another run for the tail that is missing.
Judge(p) ==
  /\ at[p] = "judge"
  /\ \/ /\ home # Pages /\ ~mine[p].again
        /\ GoOn(p, [mine[p] EXCEPT !.again = TRUE], "spawn")
     \/ /\ LET v == IF home = Pages THEN "ok" ELSE "incomplete"
           IN  GoOn(p, [mine[p] EXCEPT !.verdict = v], "release")
  /\ UNCHANGED <<world, ghosts>>

\* _release: forced where the verdict says no; when it fails, the record stays.
Drop(p) ==
  /\ at[p] = "release"
  /\ \/ /\ billing' = billing \ {mine[p].box}
        /\ job' = [job EXCEPT ![mine[p].box] = "over"]
        /\ To(p, "dropped")
        /\ Unsaved /\ UNCHANGED <<mine, auto, lease>>
     \/ /\ Save(p, mine[p])
        /\ Over(p)
        /\ UNCHANGED <<billing, job>>
  /\ UNCHANGED <<taken, texts, home, extras, ghosts>>

\* The release is noted.
BookRelease(p) ==
  /\ at[p] = "dropped"
  /\ Save(p, [mine[p] EXCEPT !.released = TRUE])
  /\ Over(p)
  /\ UNCHANGED <<world, ghosts>>

-----------------------------------------------------------------------------
(* The commands without the lock                                           *)

\* need_run, of fetch, verify and stop alike: which of them it is shows in what it does.
LoadRun(p) ==
  /\ at[p] = "idle" /\ record.box # NoBox
  /\ extras > 0 /\ extras' = extras - 1
  /\ mine' = [mine EXCEPT ![p] = record]
  /\ To(p, "command")
  /\ UNCHANGED <<record, stale, auto, lease, billing, taken, job, texts, home,
                 ghosts>>

\* fetch
FetchIt(p) ==
  /\ at[p] = "command"
  /\ IF mine[p].box \in billing
     THEN Save(p, mine[p]) /\ home' = home \cup texts[mine[p].box]
     ELSE Unsaved /\ UNCHANGED home
  /\ Over(p)
  /\ UNCHANGED <<billing, taken, job, texts, extras, ghosts>>

\* verify, settle
VerifyIt(p) ==
  /\ at[p] = "command"
  /\ Save(p, [mine[p] EXCEPT !.verdict = IF home = Pages THEN "ok" ELSE "incomplete"])
  /\ Over(p)
  /\ UNCHANGED <<world, ghosts>>

\* The verdicts that let `stop` release the machine ("stopped": failed, cancelled, or
\* a ceiling).
MayStop(r) == r.verdict \in {"ok", "stopped"}

\* stop, release: refused until the run is verified, or forced.
StopIt(p) ==
  /\ at[p] = "command"
  /\ LET b == mine[p].box
     IN  \/ \E forced \in BOOLEAN :
              /\ forced \/ MayStop(mine[p])
              /\ billing' = billing \ {b}
              /\ job' = [job EXCEPT ![b] = IF @ = "runs" THEN "over" ELSE @]
              /\ excused' = IF forced THEN excused \cup {b} ELSE excused
              /\ To(p, "dropped")
              /\ UNCHANGED <<mine, auto, lease>>
         \/ /\ ~MayStop(mine[p])
            /\ Over(p)
            /\ UNCHANGED <<billing, job, excused>>
  /\ UNCHANGED <<record, stale, taken, texts, home, extras, cut>>

-----------------------------------------------------------------------------
(* Processes die; machines work, and are gone.                             *)

\* A process is killed at any point.
Perish(p) ==
  /\ at[p] # "idle" /\ extras > 0
  /\ extras' = extras - 1
  /\ Over(p)
  /\ cut' = IF at[p] = "acquired" THEN cut \cup {mine[p].box} ELSE cut
  /\ excused' = IF at[p] = "spawned" /\ ~mine[p].pid THEN excused \cup {mine[p].box}
                                                     ELSE excused
  /\ UNCHANGED <<record, stale, billing, taken, job, texts, home>>

\* A page is read.
PageRead(b) ==
  /\ b \in billing /\ job[b] = "runs"
  /\ \E pg \in Pages : texts' = [texts EXCEPT ![b] = @ \cup {pg}]
  /\ UNCHANGED <<record, mine, stale, at, auto, lease, billing, taken, job, home, extras, ghosts>>

\* The work comes to its end, with pages unread or not.
JobEnds(b) ==
  /\ job[b] = "runs"
  /\ job' = [job EXCEPT ![b] = "over"]
  /\ UNCHANGED <<record, mine, stale, at, auto, lease, billing, taken, texts, home, extras, ghosts>>

\* The machine is gone by itself (the backend's timer, a market).
BoxGone(b) ==
  /\ b \in billing /\ extras > 0
  /\ extras' = extras - 1
  /\ billing' = billing \ {b}
  /\ excused' = excused \cup {b}
  /\ job' = [job EXCEPT ![b] = "over"]
  /\ UNCHANGED <<record, mine, stale, at, auto, lease, taken, texts, home, cut>>

CloudInit ==
  /\ record = NoRun
  /\ mine = [p \in Shells |-> NoRun]
  /\ at = [p \in Shells |-> "idle"]
  /\ auto = [p \in Shells |-> FALSE]
  /\ lease = NoShell
  /\ billing = {} /\ taken = {}
  /\ job = [b \in Boxes |-> "none"]
  /\ texts = [b \in Boxes |-> {}]
  /\ home = {}
  /\ extras = MaxExtras
  /\ cut = {} /\ excused = {} /\ stale = FALSE

StartStep(p) ==
  \/ StartRun(p) \/ Adopt(p) \/ Clear(p) \/ Refuse(p) \/ Intend(p) \/ Acquire(p)
  \/ Book(p) \/ Prepare(p) \/ Spawned(p) \/ BookPid(p) \/ Undo(p)

GoStep(p) == Watch(p) \/ BreakOff(p) \/ Fetch(p) \/ Judge(p) \/ Drop(p) \/ BookRelease(p)

Command(p) == LoadRun(p) \/ FetchIt(p) \/ VerifyIt(p) \/ StopIt(p)

CloudNext ==
  \/ \E p \in Shells : StartStep(p) \/ GoStep(p) \/ Command(p) \/ Perish(p)
  \/ \E b \in Boxes : PageRead(b) \/ JobEnds(b) \/ BoxGone(b)

CloudSpec == CloudInit /\ [][CloudNext]_cloudVars

-----------------------------------------------------------------------------
(* Properties.                                                             *)

Verdicts == {"none", "ok", "incomplete", "stopped", "unfetched"}

Records == [box : Boxes \cup {NoBox}, released : BOOLEAN, pid : BOOLEAN,
            again : BOOLEAN, verdict : Verdicts]

Steps == {"idle", "adopt", "fresh", "cleared", "acquire", "acquired", "prepare", "spawn",
          "spawned", "undo", "watch", "fetch", "salvage", "judge", "release", "dropped",
          "command"}

\* What concerns the record and the processes, and what they deal with.
ShellType ==
  /\ record \in Records
  /\ mine \in [Shells -> Records]
  /\ at \in [Shells -> Steps]
  /\ auto \in [Shells -> BOOLEAN]
  /\ lease \in Shells \cup {NoShell}
  /\ stale \in BOOLEAN

WorldType ==
  /\ billing \subseteq taken /\ taken \subseteq Boxes
  /\ job \in [Boxes -> {"none", "runs", "over"}]
  /\ texts \in [Boxes -> SUBSET Pages] /\ home \subseteq Pages
  /\ extras \in 0..MaxExtras
  /\ cut \cup excused \subseteq Boxes \cup {NoBox}

\* The type invariant.
CloudType == ShellType /\ WorldType

\* The process that holds the lock is about to note machine b.
Noting(b) == lease # NoShell /\ mine[lease].box = b /\ at[lease] = "acquired"

\* No machine is left alone: what costs money is named by the record as not released,
\* or its renter is about to note it, whichever command died, failed, was repeated
\* or ran beside another; unless the renter died before it noted the machine, or a
\* command without the lock saved an old copy.
NoOrphan ==
  ~stale => \A b \in billing \ cut :
              \/ record.box = b /\ ~record.released
              \/ Noting(b)

\* Under the same conditions a case never costs two machines.
OneMachine == ~stale => Cardinality(billing \ cut) <= 1

\* No machine is released with pages on it that are not here, unless somebody forced
\* it, fetching was given up, the machine went by itself, the starter died or failed
\* with the work begun and not yet left to itself, or the work could not be stopped
\* before the last fetch.
NothingThrown ==
  ~stale => \A b \in taken \ (billing \cup excused) : texts[b] \subseteq home

\* What state.py promises and the code does not keep (see the README): a machine
\* rented after the intent was noted is found, even if its renter dies at once.
MachineFound ==
  \A b \in billing : (record.box = b /\ ~record.released) \/ Noting(b)

=============================================================================
