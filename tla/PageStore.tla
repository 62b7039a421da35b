------------------------------ MODULE PageStore ------------------------------
(***************************************************************************)
(* The notes on the pages of a case (src/nyshporka/pagestore/store.py).    *)
(* Agents annotate pages of one case in parallel: each loads the file of   *)
(* the case, changes it and writes it back under a lock file made with     *)
(* O_EXCL.  A lock older than 30 s is taken for one whose owner is dead,   *)
(* and is removed by whoever holds a second file, the guard.  move_pages   *)
(* takes the notes of some pages into another case.                        *)
(*                                                                         *)
(* Every note has an agent of its own, so a file is the set of the agents  *)
(* whose notes it has: merging never takes anything away.                  *)
(***************************************************************************)
EXTENDS Naturals, FiniteSets

CONSTANTS
  Agents,     \* processes that annotate one page each
  Movers,     \* processes that run move_pages
  Wanted,     \* agents whose page is among the pages to be moved
  MaxDeaths,  \* bound: processes killed
  MaxSlow,    \* bound: times a living owner is slower than 30 s
  Nobody

ASSUME StoreNames == /\ Agents \cap Movers = {}
                     /\ Wanted \subseteq Agents
                     /\ Nobody \notin Agents \cup Movers
ASSUME StoreSizes == MaxDeaths \in Nat /\ MaxSlow \in Nat

Writers == Agents \cup Movers

VARIABLES
  here,      \* the file of the case
  there,     \* the file of the case the pages go to
  owner,     \* who made the lock file of the case
  aged,      \* the lock file is older than 30 s
  guard,     \* who made the guard
  guardAged, \* the guard is older than 30 s
  place,     \* process: where it is
  copy,      \* process: what it has loaded
  deaths, slow,
  late       \* auxiliary: a living owner was slow, a guard grew old, or a page
             \* was annotated while it was being moved

lockFile  == <<owner, aged>>
guardFile == <<guard, guardAged>>
cases     == <<here, there>>
budget    == <<deaths, slow>>
storeVars == <<here, there, owner, aged, guard, guardAged, place, copy, deaths,
               slow, late>>

Go(w, where) == place' = [place EXCEPT ![w] = where]

-----------------------------------------------------------------------------
(* _lock                                                                   *)

\* os.open(O_EXCL), and when it fails a look at the age of the lock.  (The five
\* seconds a process waits may run out: TimeOut.)
TryLock(w) ==
  /\ place[w] = "try"
  /\ \/ /\ owner = Nobody
        /\ owner' = w /\ aged' = FALSE
        /\ Go(w, "load")
     \/ /\ owner # Nobody /\ aged
        /\ Go(w, "steal")
        /\ UNCHANGED lockFile
  /\ UNCHANGED <<cases, guardFile, copy, budget, late>>

\* TimeoutError
TimeOut(w) ==
  /\ place[w] = "try"
  /\ owner # Nobody
  /\ Go(w, "failed")
  /\ UNCHANGED <<cases, lockFile, guardFile, copy, budget, late>>

\* _steal_stale: the guard is made, or somebody else has it; one left behind is
\* removed, by name, in a second step.
Steal(w) ==
  /\ place[w] = "steal"
  /\ \/ /\ guard = Nobody
        /\ guard' = w /\ guardAged' = FALSE
        /\ Go(w, "check")
     \/ /\ guard # Nobody
        /\ Go(w, IF guardAged THEN "unguard" ELSE "try")
        /\ UNCHANGED guardFile
  /\ UNCHANGED <<cases, lockFile, copy, budget, late>>

\* guard.unlink, in both places where it stands; it does not ask whose guard it is.
Unguard(w) ==
  /\ place[w] = "unguard"
  /\ guard' = Nobody /\ guardAged' = FALSE
  /\ Go(w, "try")
  /\ UNCHANGED <<cases, lockFile, copy, budget, late>>

\* Under the guard the age of the lock is read once more.
Check(w) ==
  /\ place[w] = "check"
  /\ Go(w, IF owner # Nobody /\ aged THEN "unlink" ELSE "unguard")
  /\ UNCHANGED <<cases, lockFile, guardFile, copy, budget, late>>

\* lockp.unlink: whatever lock is there now.
Unlink(w) ==
  /\ place[w] = "unlink"
  /\ owner' = Nobody /\ aged' = FALSE
  /\ Go(w, "unguard")
  /\ UNCHANGED <<cases, guardFile, copy, budget, late>>

\* The end of _lock: is the lock still ours?
UnlockHub(w) ==
  /\ place[w] = "release"
  /\ Go(w, IF owner = w THEN "free" ELSE "done")
  /\ UNCHANGED <<cases, lockFile, guardFile, copy, budget, late>>

Free(w) ==
  /\ place[w] = "free"
  /\ owner' = Nobody /\ aged' = FALSE
  /\ Go(w, "done")
  /\ UNCHANGED <<cases, guardFile, copy, budget, late>>

-----------------------------------------------------------------------------
(* The operations.                                                         *)

\* annotate_pages; or move_pages, which reads the case without the lock.
StartWork(w) ==
  /\ place[w] = "idle"
  /\ IF w \in Agents
     THEN Go(w, "try") /\ UNCHANGED copy
     ELSE /\ copy' = [copy EXCEPT ![w] = here \cap Wanted]
          /\ Go(w, IF here \cap Wanted = {} THEN "done" ELSE "put")
  /\ UNCHANGED <<cases, lockFile, guardFile, budget, late>>

\* Mutation of Put: the old case is cleared before the new one has the notes.
Put_last(w) ==
  /\ place[w] = "put"
  /\ Go(w, "try")
  /\ UNCHANGED <<cases, lockFile, guardFile, copy, budget, late>>

\* _put_pages, add_records, add_notes: the other case has them first.
Put(w) ==
  /\ place[w] = "put"
  /\ there' = there \cup copy[w]
  /\ Go(w, "try")
  /\ UNCHANGED <<here, lockFile, guardFile, copy, budget, late>>

\* _load_hub, under the lock.
LoadHub(w) ==
  /\ place[w] = "load"
  /\ copy' = [copy EXCEPT ![w] = here]
  /\ Go(w, "write")
  /\ UNCHANGED <<cases, lockFile, guardFile, budget, late>>

\* Somebody is between reading the pages and clearing them away.
Moving ==
  \E m \in Movers :
     place[m] \notin {"idle", "release", "free", "done", "failed", "dead"}

\* _write: the note is added; or the pages that were moved are taken away, by name.
SaveHub(w) ==
  /\ place[w] = "write"
  /\ here' = IF w \in Agents THEN copy[w] \cup {w} ELSE copy[w] \ Wanted
  /\ late' = (late \/ (w \in Wanted /\ Moving))
  /\ Go(w, "release")
  /\ UNCHANGED <<there, lockFile, guardFile, copy, budget>>

-----------------------------------------------------------------------------
(* Time and death.                                                         *)

Alive(w) == w \in Writers /\ place[w] # "dead"

\* Is it w, dead or too slow, whose file is older than 30 s?
Lagging(w) ==
  IF Alive(w) THEN slow > 0 /\ slow' = slow - 1 ELSE UNCHANGED slow

\* Thirty seconds pass for the lock.
LockAges ==
  /\ owner # Nobody /\ ~aged
  /\ aged' = TRUE
  /\ Lagging(owner)
  /\ late' = (late \/ Alive(owner))
  /\ UNCHANGED <<cases, owner, guardFile, place, copy, deaths>>

\* Thirty seconds pass for the guard.
GuardAges ==
  /\ guard # Nobody /\ ~guardAged
  /\ guardAged' = TRUE
  /\ Lagging(guard)
  /\ late' = TRUE
  /\ UNCHANGED <<cases, lockFile, guard, place, copy, deaths>>

\* A process is killed.
Killed(w) ==
  /\ place[w] \notin {"idle", "done", "failed", "dead"}
  /\ deaths > 0
  /\ deaths' = deaths - 1
  /\ Go(w, "dead")
  /\ UNCHANGED <<cases, lockFile, guardFile, copy, slow, late>>

StoreInit ==
  /\ here = {} /\ there = {}
  /\ owner = Nobody /\ aged = FALSE
  /\ guard = Nobody /\ guardAged = FALSE
  /\ place = [w \in Writers |-> "idle"]
  /\ copy = [w \in Writers |-> {}]
  /\ deaths = MaxDeaths /\ slow = MaxSlow
  /\ late = FALSE

LockStep(w) ==
  \/ TryLock(w) \/ TimeOut(w) \/ Steal(w) \/ Unguard(w) \/ Check(w) \/ Unlink(w)
  \/ UnlockHub(w) \/ Free(w)

StoreNext ==
  \/ \E w \in Writers : \/ LockStep(w) \/ StartWork(w)
                         \/ Put(w) \/ LoadHub(w) \/ SaveHub(w) \/ Killed(w)
  \/ LockAges \/ GuardAges

StoreSpec == StoreInit /\ [][StoreNext]_storeVars

-----------------------------------------------------------------------------
(* Properties.                                                             *)

Places == {"idle", "try", "steal", "check", "unlink", "unguard", "put", "load", "write",
           "release", "free", "done", "failed", "dead"}

\* The type invariant.
StoreType ==
  /\ here \subseteq Agents /\ there \subseteq Agents
  /\ owner \in Writers \cup {Nobody} /\ guard \in Writers \cup {Nobody}
  /\ aged \in BOOLEAN /\ guardAged \in BOOLEAN
  /\ place \in [Writers -> Places]
  /\ copy \in [Writers -> SUBSET Agents]
  /\ deaths \in 0..MaxDeaths /\ slow \in 0..MaxSlow
  /\ late \in BOOLEAN

\* Agents whose note is on disk as far as they know.
Saved == {w \in Agents : place[w] \in {"release", "free", "done"}}

\* No note is lost to another agent, to whoever takes over the lock of a dead one,
\* or to a move of pages that is killed on the way and run again; as long as nobody
\* holds a lock for more than 30 s, no guard is left by a dead process, and nobody
\* annotates a page while it is being moved.
NothingLost == ~late => Saved \subseteq here \cup there

\* What move_pages promises and the code does not keep (see the README): the same
\* without conditions.
NothingEverLost == Saved \subseteq here \cup there

=============================================================================
