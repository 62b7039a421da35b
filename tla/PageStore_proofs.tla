--------------------------- MODULE PageStore_proofs ---------------------------
(***************************************************************************)
(* Proofs about PageStore, for any processes and any bounds.               *)
(***************************************************************************)
EXTENDS PageStore, TLAPS

-----------------------------------------------------------------------------
(* Type correctness.                                                       *)

LEMMA GoTyped ==
  ASSUME StoreType, NEW w \in Writers, NEW p \in Places, Go(w, p)
  PROVE  place' \in [Writers -> Places]
BY DEF StoreType, Go

LEMMA StoreTypeStep == ASSUME StoreType, [StoreNext]_storeVars PROVE StoreType'
<1> USE StoreNames, StoreSizes DEF StoreType, cases, lockFile, guardFile, budget
<1>1. ASSUME NEW w \in Writers, TryLock(w) PROVE StoreType'
  BY <1>1, GoTyped DEF TryLock, Places
<1>2. ASSUME NEW w \in Writers, TimeOut(w) PROVE StoreType'
  BY <1>2, GoTyped DEF TimeOut, Places
<1>3. ASSUME NEW w \in Writers, Steal(w) PROVE StoreType'
  BY <1>3, GoTyped DEF Steal, Places
<1>4. ASSUME NEW w \in Writers, Unguard(w) PROVE StoreType'
  BY <1>4, GoTyped DEF Unguard, Places
<1>5. ASSUME NEW w \in Writers, Check(w) PROVE StoreType'
  BY <1>5, GoTyped DEF Check, Places
<1>6. ASSUME NEW w \in Writers, Unlink(w) PROVE StoreType'
  BY <1>6, GoTyped DEF Unlink, Places
<1>7. ASSUME NEW w \in Writers, UnlockHub(w) PROVE StoreType'
  BY <1>7, GoTyped DEF UnlockHub, Places
<1>8. ASSUME NEW w \in Writers, Free(w) PROVE StoreType'
  BY <1>8, GoTyped DEF Free, Places
<1>9. ASSUME NEW w \in Writers, StartWork(w) PROVE StoreType'
  <2>1. place' \in [Writers -> Places]
    BY <1>9, GoTyped DEF StartWork, Places
  <2>2. copy' \in [Writers -> SUBSET Agents]
    BY <1>9 DEF StartWork
  <2> QED BY <1>9, <2>1, <2>2 DEF StartWork
<1>10. ASSUME NEW w \in Writers, Put(w) PROVE StoreType'
  BY <1>10, GoTyped DEF Put, Places
<1>11. ASSUME NEW w \in Writers, LoadHub(w) PROVE StoreType'
  BY <1>11, GoTyped DEF LoadHub, Places
<1>12. ASSUME NEW w \in Writers, SaveHub(w) PROVE StoreType'
  <2>1. place' \in [Writers -> Places]
    BY <1>12, GoTyped DEF SaveHub, Places
  <2>2. here' \subseteq Agents
    BY <1>12 DEF SaveHub
  <2>3. late' \in BOOLEAN
    BY <1>12 DEF SaveHub
  <2> QED BY <1>12, <2>1, <2>2, <2>3 DEF SaveHub
<1>13. ASSUME NEW w \in Writers, Killed(w) PROVE StoreType'
  <2>1. place' \in [Writers -> Places]
    BY <1>13, GoTyped DEF Killed, Places
  <2>2. deaths' \in 0..MaxDeaths
    BY <1>13 DEF Killed
  <2> QED BY <1>13, <2>1, <2>2 DEF Killed
<1>14. ASSUME NEW w, Lagging(w) PROVE slow' \in 0..MaxSlow
  BY <1>14 DEF Lagging
<1>15. CASE LockAges
  <2>1. slow' \in 0..MaxSlow
    BY <1>14, <1>15 DEF LockAges
  <2>2. late' \in BOOLEAN
    BY <1>15 DEF LockAges
  <2> QED BY <1>15, <2>1, <2>2 DEF LockAges
<1>16. CASE GuardAges
  BY <1>14, <1>16 DEF GuardAges
<1>17. CASE UNCHANGED storeVars
  BY <1>17 DEF storeVars
<1> QED BY <1>1, <1>2, <1>3, <1>4, <1>5, <1>6, <1>7, <1>8, <1>9, <1>10, <1>11, <1>12,
           <1>13, <1>15, <1>16, <1>17 DEF StoreNext, LockStep

LEMMA StoreTypeInit == StoreInit => StoreType
<1> SUFFICES ASSUME StoreInit PROVE StoreType
  OBVIOUS
<1>1. place \in [Writers -> Places] /\ copy \in [Writers -> SUBSET Agents]
  BY DEF StoreInit, Places
<1>2. deaths \in 0..MaxDeaths /\ slow \in 0..MaxSlow
  BY StoreSizes DEF StoreInit
<1> QED BY <1>1, <1>2 DEF StoreInit, StoreType

-----------------------------------------------------------------------------
(* The lock is held by one living process at a time.                       *)

Holding == {"load", "write", "release", "free"}
Guarding == {"check", "unlink", "unguard"}

\* A lock that is old belongs to a dead process, and no guard is old.
OldIsDead == /\ aged => owner \in Writers /\ place[owner] = "dead"
             /\ ~guardAged

\* Whoever works under the lock or the guard is the one who made it; and whoever is
\* about to remove the lock of another removes an old one.
OneHolder ==
  \A w \in Writers :
    /\ place[w] \in Holding => owner = w
    /\ place[w] \in Guarding => guard = w
    /\ place[w] = "unlink" => aged

LockInv == OldIsDead /\ OneHolder

\* One process moves; the locks and their age stay.
LEMMA StepAside ==
  ASSUME StoreType, LockInv, NEW w \in Writers, NEW p \in Places, Go(w, p),
         UNCHANGED <<lockFile, guardFile>>,
         place[w] # "dead",
         p \in Holding => owner = w,
         p \in Guarding => guard = w,
         p = "unlink" => aged
  PROVE  LockInv'
<1>1. OldIsDead'
  BY DEF StoreType, Go, LockInv, OldIsDead, lockFile, guardFile
<1>2. OneHolder'
  BY DEF StoreType, Go, LockInv, OneHolder, lockFile, guardFile
<1> QED BY <1>1, <1>2 DEF LockInv

LEMMA LockStepKeeps ==
  ASSUME StoreType, LockInv, ~late', [StoreNext]_storeVars
  PROVE  LockInv'
<1> USE StoreNames DEF Holding, Guarding
<1>1. ASSUME NEW w \in Writers, TryLock(w) PROVE LockInv'
  <2>1. CASE owner = Nobody /\ owner' = w /\ aged' = FALSE /\ Go(w, "load")
    <3>1. ~aged /\ \A v \in Writers : place[v] \notin Holding
      BY <2>1 DEF LockInv, OldIsDead, OneHolder, Writers
    <3>2. /\ place'[w] = "load"
          /\ \A v \in Writers : v # w => place'[v] = place[v]
      BY <2>1 DEF Go, StoreType
    <3> QED BY <1>1, <2>1, <3>1, <3>2
            DEF TryLock, LockInv, OldIsDead, OneHolder, guardFile
  <2>2. CASE Go(w, "steal") /\ UNCHANGED lockFile
    BY <1>1, <2>2, StepAside DEF TryLock, Places
  <2> QED BY <1>1, <2>1, <2>2 DEF TryLock
<1>2. ASSUME NEW w \in Writers, TimeOut(w) PROVE LockInv'
  BY <1>2, StepAside DEF TimeOut, Places
<1>3. ASSUME NEW w \in Writers, Steal(w) PROVE LockInv'
  <2>1. CASE guard = Nobody /\ guard' = w /\ guardAged' = FALSE /\ Go(w, "check")
    <3>1. \A v \in Writers : place[v] \notin Guarding
      BY <2>1 DEF LockInv, OneHolder, Writers
    <3> QED BY <1>3, <2>1, <3>1
            DEF Steal, StoreType, Go, LockInv, OldIsDead, OneHolder, lockFile
  <2>2. CASE UNCHANGED guardFile /\ Go(w, "try")
    BY <1>3, <2>2, StepAside DEF Steal, Places
  <2> QED BY <1>3, <2>1, <2>2 DEF Steal, LockInv, OldIsDead
<1>4. ASSUME NEW w \in Writers, Unguard(w) PROVE LockInv'
  BY <1>4 DEF Unguard, StoreType, Go, LockInv, OldIsDead, OneHolder, lockFile, guardFile
<1>5. ASSUME NEW w \in Writers, Check(w) PROVE LockInv'
  BY <1>5, StepAside DEF Check, Places, LockInv, OneHolder
<1>6. ASSUME NEW w \in Writers, Unlink(w) PROVE LockInv'
  <2>1. /\ owner \in Writers /\ place[owner] = "dead"
        /\ guard = w
    BY <1>6 DEF Unlink, LockInv, OldIsDead, OneHolder
  <2>2. \A v \in Writers : place[v] \notin Holding
    BY <2>1 DEF LockInv, OneHolder
  <2> QED BY <1>6, <2>1, <2>2
          DEF Unlink, StoreType, Go, LockInv, OldIsDead, OneHolder, guardFile
<1>7. ASSUME NEW w \in Writers, UnlockHub(w) PROVE LockInv'
  BY <1>7, StepAside DEF UnlockHub, Places
<1>8. ASSUME NEW w \in Writers, Free(w) PROVE LockInv'
  <2>1. owner = w /\ ~aged
    BY <1>8 DEF Free, LockInv, OldIsDead, OneHolder
  <2> QED BY <1>8, <2>1
          DEF Free, StoreType, Go, LockInv, OldIsDead, OneHolder, guardFile
<1>9. ASSUME NEW w \in Writers, StartWork(w) PROVE LockInv'
  BY <1>9, StepAside DEF StartWork, Places
<1>10. ASSUME NEW w \in Writers, Put(w) PROVE LockInv'
  BY <1>10, StepAside DEF Put, Places
<1>11. ASSUME NEW w \in Writers, LoadHub(w) PROVE LockInv'
  BY <1>11, StepAside DEF LoadHub, Places, LockInv, OneHolder
<1>12. ASSUME NEW w \in Writers, SaveHub(w) PROVE LockInv'
  BY <1>12, StepAside DEF SaveHub, Places, LockInv, OneHolder
<1>13. ASSUME NEW w \in Writers, Killed(w) PROVE LockInv'
  BY <1>13, StepAside DEF Killed, Places
<1>14. CASE LockAges
  BY <1>14 DEF LockAges, Alive, StoreType, LockInv, OldIsDead, OneHolder, guardFile
<1>15. CASE GuardAges
  BY <1>15 DEF GuardAges
<1>16. CASE UNCHANGED storeVars
  BY <1>16 DEF storeVars, LockInv, OldIsDead, OneHolder
<1> QED BY <1>1, <1>2, <1>3, <1>4, <1>5, <1>6, <1>7, <1>8, <1>9, <1>10, <1>11, <1>12,
           <1>13, <1>14, <1>15, <1>16 DEF StoreNext, LockStep

-----------------------------------------------------------------------------
(* No note is lost.                                                        *)

\* What is written back is the file with the note of the writer.
Fresh == \A w \in Writers : place[w] = "write" => copy[w] = here

Clearing == {"try", "steal", "check", "unlink", "unguard", "load", "write"}

\* What a mover read is all there was to be moved, and once it has put it into the
\* other case, all of it is there.
Carried ==
  \A m \in Movers :
    /\ place[m] = "put" => here \cap Wanted \subseteq copy[m]
    /\ place[m] \in Clearing => here \cap Wanted \subseteq there

\* Only a mover puts notes into the other case.
AgentsStay == \A w \in Agents : place[w] # "put"

NotesInv == Fresh /\ Carried

StoreInv == /\ StoreType
            /\ AgentsStay
            /\ ~late => LockInv /\ NotesInv /\ Saved \subseteq here \cup there

SavedAt == {"release", "free", "done"}

\* One process moves and no file of notes changes.
LEMMA FilesStay ==
  ASSUME StoreType, AgentsStay, NotesInv, Saved \subseteq here \cup there,
         NEW w \in Writers, NEW p \in Places, Go(w, p),
         UNCHANGED <<here, there, copy>>,
         p \notin {"write", "put"},
         w \in Agents /\ p \in SavedAt => place[w] \in SavedAt,
         p \in Clearing => place[w] \in Clearing
  PROVE  NotesInv' /\ Saved' \subseteq here' \cup there'
<1>1. Fresh'
  BY DEF NotesInv, Fresh, Go, StoreType
<1>2. Carried'
  BY DEF NotesInv, Carried, Go, StoreType, Writers
<1>3. Saved' \subseteq Saved
  BY DEF Saved, Go, StoreType, SavedAt
<1> QED BY <1>1, <1>2, <1>3 DEF NotesInv

\* Agents never put notes into another case, whatever the locks do.
LEMMA AgentsStayStep ==
  ASSUME StoreType, AgentsStay, [StoreNext]_storeVars PROVE AgentsStay'
<1>0. ASSUME NEW w \in Writers, NEW p, Go(w, p), p # "put" \/ w \notin Agents
      PROVE  AgentsStay'
  <2> SUFFICES ASSUME NEW a \in Agents PROVE place'[a] # "put"
    BY DEF AgentsStay
  <2>1. a \in Writers
    BY DEF Writers
  <2> QED BY <1>0, <2>1 DEF Go, AgentsStay, StoreType
<1>1. ASSUME NEW w \in Writers, LockStep(w) PROVE AgentsStay'
  BY <1>0, <1>1 DEF LockStep, TryLock, TimeOut, Steal, Unguard, Check, Unlink, UnlockHub,
     Free
<1>2. ASSUME NEW w \in Writers, StartWork(w) PROVE AgentsStay'
  BY <1>0, <1>2 DEF StartWork
<1>3. ASSUME NEW w \in Writers, Put(w) \/ LoadHub(w) \/ SaveHub(w) \/ Killed(w)
      PROVE  AgentsStay'
  BY <1>0, <1>3 DEF Put, LoadHub, SaveHub, Killed
<1>4. CASE LockAges \/ GuardAges \/ UNCHANGED storeVars
  BY <1>4 DEF LockAges, GuardAges, storeVars, AgentsStay
<1> QED BY <1>1, <1>2, <1>3, <1>4 DEF StoreNext

LEMMA NotesStep ==
  ASSUME StoreType, AgentsStay, LockInv, NotesInv, Saved \subseteq here \cup there,
         ~late', [StoreNext]_storeVars
  PROVE  NotesInv' /\ Saved' \subseteq here' \cup there'
<1> DEFINE Kept == NotesInv' /\ Saved' \subseteq here' \cup there'
<1> USE StoreNames DEF cases
<1>1. ASSUME NEW w \in Writers, LockStep(w) PROVE Kept
  <2> USE FilesStay DEF Places, SavedAt, Clearing
  <2>1. CASE TryLock(w)
    <3>1. CASE Go(w, "load")
      BY <2>1, <3>1 DEF TryLock
    <3>2. CASE Go(w, "steal")
      BY <2>1, <3>2 DEF TryLock
    <3> QED BY <2>1, <3>1, <3>2 DEF TryLock
  <2>2. CASE TimeOut(w)
    BY <2>2 DEF TimeOut
  <2>3. CASE Steal(w)
    <3>1. CASE Go(w, "check")
      BY <2>3, <3>1 DEF Steal
    <3>2. CASE Go(w, IF guardAged THEN "unguard" ELSE "try")
      BY <2>3, <3>2 DEF Steal
    <3> QED BY <2>3, <3>1, <3>2 DEF Steal
  <2>4. CASE Unguard(w)
    BY <2>4 DEF Unguard
  <2>5. CASE Check(w)
    BY <2>5 DEF Check
  <2>6. CASE Unlink(w)
    BY <2>6 DEF Unlink
  <2>7. CASE UnlockHub(w)
    BY <2>7 DEF UnlockHub
  <2>8. CASE Free(w)
    BY <2>8 DEF Free
  <2> QED BY <1>1, <2>1, <2>2, <2>3, <2>4, <2>5, <2>6, <2>7, <2>8 DEF LockStep
<1>2. ASSUME NEW w \in Writers, Killed(w) PROVE Kept
  BY <1>2, FilesStay DEF Killed, Places, SavedAt, Clearing
<1>3. ASSUME NEW w \in Writers, StartWork(w) PROVE Kept
  <2>1. CASE w \in Agents
    <3>1. place[w] = "idle" /\ Go(w, "try") /\ UNCHANGED <<here, there, copy>>
      BY <1>3, <2>1 DEF StartWork
    <3>2. Fresh'
      BY <3>1 DEF NotesInv, Fresh, Go, StoreType
    <3>3. Carried'
      BY <2>1, <3>1 DEF NotesInv, Carried, Go, StoreType, Writers
    <3>4. Saved' \subseteq Saved
      BY <3>1 DEF Saved, Go, StoreType
    <3> QED BY <3>1, <3>2, <3>3, <3>4 DEF NotesInv
  <2>2. CASE w \in Movers
    <3>1. /\ UNCHANGED <<here, there>>
          /\ copy' = [copy EXCEPT ![w] = here \cap Wanted]
          /\ Go(w, "done") \/ Go(w, "put")
      BY <1>3, <2>2 DEF StartWork
    <3>2. Fresh'
      BY <3>1 DEF NotesInv, Fresh, Go, StoreType
    <3>3. Carried'
      BY <3>1 DEF NotesInv, Carried, Go, StoreType, Writers, Clearing
    <3>4. Saved' \subseteq Saved
      <4>1. \A a \in Agents : a \in Writers /\ a # w
        BY <2>2 DEF Writers
      <4> QED BY <3>1, <4>1 DEF Saved, Go, StoreType
    <3> QED BY <3>1, <3>2, <3>3, <3>4 DEF NotesInv
  <2> QED BY <2>1, <2>2 DEF Writers
<1>4. ASSUME NEW w \in Writers, Put(w) PROVE Kept
  <2>1. w \in Movers /\ here \cap Wanted \subseteq copy[w]
    BY <1>4 DEF Put, AgentsStay, NotesInv, Carried, Writers
  <2>2. /\ here' = here /\ copy' = copy
        /\ there \subseteq there' /\ here \cap Wanted \subseteq there'
        /\ Go(w, "try")
    BY <1>4, <2>1 DEF Put
  <2>3. Fresh'
    BY <2>2 DEF NotesInv, Fresh, Go, StoreType
  <2>4. Carried'
    BY <2>1, <2>2 DEF NotesInv, Carried, Go, StoreType, Writers
  <2>5. Saved' \subseteq Saved
    BY <2>2 DEF Saved, Go, StoreType
  <2> QED BY <2>2, <2>3, <2>4, <2>5 DEF NotesInv
<1>5. ASSUME NEW w \in Writers, LoadHub(w) PROVE Kept
  <2>1. /\ UNCHANGED <<here, there>> /\ place[w] = "load"
        /\ copy' = [copy EXCEPT ![w] = here]
        /\ Go(w, "write")
    BY <1>5 DEF LoadHub
  <2>2. Fresh'
    BY <2>1 DEF NotesInv, Fresh, Go, StoreType
  <2>3. Carried'
    BY <2>1 DEF NotesInv, Carried, Go, StoreType, Writers, Clearing
  <2>4. Saved' \subseteq Saved
    BY <2>1 DEF Saved, Go, StoreType
  <2> QED BY <2>1, <2>2, <2>3, <2>4 DEF NotesInv
<1>6. ASSUME NEW w \in Writers, SaveHub(w) PROVE Kept
  <2>1. /\ place[w] = "write" /\ owner = w /\ copy[w] = here
        /\ there' = there /\ copy' = copy
        /\ here' = IF w \in Agents THEN here \cup {w} ELSE here \ Wanted
        /\ Go(w, "release")
    BY <1>6 DEF SaveHub, LockInv, OneHolder, NotesInv, Fresh, Holding
  <2>2. \A v \in Writers : v # w => place[v] # "write"
    BY <2>1 DEF LockInv, OneHolder, Holding
  <2>3. Fresh'
    BY <2>1, <2>2 DEF Fresh, Go, StoreType
  <2>4. CASE w \in Agents
    <3>1. w \in Wanted => ~Moving
      BY <1>6 DEF SaveHub
    <3>2. Carried'
      <4>1. CASE w \notin Wanted
        BY <2>1, <2>4, <4>1 DEF NotesInv, Carried, Go, StoreType, Writers
      <4>2. CASE ~Moving
        BY <2>1, <2>4, <4>2 DEF Moving, Carried, Clearing, Go, StoreType, Writers
      <4> QED BY <3>1, <4>1, <4>2
    <3>3. Saved' \subseteq Saved \cup {w}
      BY <2>1 DEF Saved, Go, StoreType
    <3> QED BY <2>1, <2>3, <2>4, <3>2, <3>3 DEF NotesInv
  <2>5. CASE w \in Movers
    <3>1. here \cap Wanted \subseteq there
      BY <2>1, <2>5 DEF NotesInv, Carried, Clearing
    <3>2. here' = here \ Wanted
      BY <2>1, <2>5
    <3>3. Carried'
      BY <2>1, <3>2 DEF Carried
    <3>4. Saved' \subseteq Saved
      BY <2>1, <2>5 DEF Saved, Go, StoreType
    <3> QED BY <2>1, <2>3, <3>1, <3>2, <3>3, <3>4 DEF NotesInv
  <2> QED BY <2>4, <2>5 DEF Writers
<1>7. CASE LockAges \/ GuardAges \/ UNCHANGED storeVars
  BY <1>7 DEF LockAges, GuardAges, storeVars, NotesInv, Fresh, Carried, Saved
<1> QED BY <1>1, <1>2, <1>3, <1>4, <1>5, <1>6, <1>7 DEF StoreNext

\* Once a hazard the property leaves out has happened, it stays on record.
LEMMA LateStays == ASSUME StoreType, [StoreNext]_storeVars, late PROVE late'
BY DEF StoreNext, LockStep, TryLock, TimeOut, Steal, Unguard, Check, Unlink, UnlockHub,
   Free, StartWork, Put, LoadHub, SaveHub, Killed, LockAges, GuardAges, storeVars,
   StoreType

LEMMA StoreInvAlways == StoreSpec => []StoreInv
<1>1. StoreInit => StoreInv
  BY StoreTypeInit, StoreNames
     DEF StoreInit, StoreInv, AgentsStay, LockInv, OldIsDead, OneHolder, NotesInv, Fresh,
         Carried, Saved, Writers, Holding, Guarding, Clearing
<1>2. ASSUME StoreInv, [StoreNext]_storeVars PROVE StoreInv'
  <2>1. StoreType' /\ AgentsStay'
    BY <1>2, StoreTypeStep, AgentsStayStep DEF StoreInv
  <2>2. CASE late'
    BY <2>1, <2>2 DEF StoreInv
  <2>3. CASE ~late'
    <3>1. ~late
      BY <1>2, <2>3, LateStays DEF StoreInv
    <3> QED BY <1>2, <2>1, <2>3, <3>1, LockStepKeeps, NotesStep DEF StoreInv
  <2> QED BY <2>2, <2>3
<1> QED BY <1>1, <1>2, PTL DEF StoreSpec

\* Every variable keeps its type.
THEOREM StoreTypeCorrect == StoreSpec => []StoreType
<1>1. StoreInv => StoreType
  BY DEF StoreInv
<1> QED BY <1>1, StoreInvAlways, PTL

\* However many agents and movers, whoever is killed: no note that its agent knows to
\* be on disk is missing from both cases.
THEOREM NotesSurvive == StoreSpec => []NothingLost
<1>1. StoreInv => NothingLost
  BY DEF StoreInv, NothingLost
<1> QED BY <1>1, StoreInvAlways, PTL

-----------------------------------------------------------------------------
(* What move_pages promises.                                               *)

\* Nobody annotates a page while it is being moved, and no owner of a lock who lives,
\* and no guard, grows older than 30 s.
Prompt ==
  /\ \A w \in Wanted : Moving => ~SaveHub(w)
  /\ LockAges => ~Alive(owner)
  /\ ~GuardAges

LEMMA PromptIsNotLate ==
  ASSUME StoreType, ~late, [StoreNext]_storeVars, [Prompt]_storeVars
  PROVE  ~late'
<1>1. ASSUME NEW w \in Writers, SaveHub(w) PROVE ~late'
  <2>1. Prompt
    BY <1>1 DEF SaveHub, Go, storeVars, StoreType
  <2> QED BY <1>1, <2>1 DEF SaveHub, Prompt
<1>2. CASE LockAges \/ GuardAges
  <2>1. Prompt
    BY <1>2 DEF LockAges, GuardAges, storeVars
  <2> QED BY <1>2, <2>1 DEF LockAges, Prompt
<1>3. ASSUME NEW w \in Writers, LockStep(w) PROVE ~late'
  BY <1>3 DEF LockStep, TryLock, TimeOut, Steal, Unguard, Check, Unlink, UnlockHub, Free
<1>4. ASSUME NEW w \in Writers, StartWork(w) \/ Put(w) \/ LoadHub(w) \/ Killed(w)
      PROVE  ~late'
  BY <1>4 DEF StartWork, Put, LoadHub, Killed
<1>5. CASE UNCHANGED storeVars
  BY <1>5 DEF storeVars
<1> QED BY <1>1, <1>2, <1>3, <1>4, <1>5 DEF StoreNext

\* No note its agent knows to be on disk is ever lost, whoever is killed and whoever
\* takes over the lock of a dead one, if everybody is as prompt as the code supposes.
THEOREM PromptLoseNothing == StoreSpec /\ [][Prompt]_storeVars => []NothingEverLost
<1>1. StoreInit => ~late
  BY DEF StoreInit
<1>2. StoreType /\ ~late /\ [StoreNext]_storeVars /\ [Prompt]_storeVars => ~late'
  BY PromptIsNotLate
<1>3. NothingLost /\ ~late => NothingEverLost
  BY DEF NothingLost, NothingEverLost
<1> QED BY <1>1, <1>2, <1>3, StoreTypeCorrect, NotesSurvive, PTL DEF StoreSpec

=============================================================================
