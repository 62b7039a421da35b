--------------------------- MODULE ReadJobs_proofs ---------------------------
(***************************************************************************)
(* Proofs about JobBus and ReadJobs, for any number of jobs, keys, runner  *)
(* processes and faults.                                                   *)
(***************************************************************************)
EXTENDS ReadJobs, TLAPS

\* Where a task has not started its processes yet, and where it leads them.
Before == {"gate", "look", "looked", "nap"}
After  == {"spawn", "register", "read", "cut"}

-----------------------------------------------------------------------------
(* The type invariant, together with how far a job can have come where its *)
(* task is: a task starts at most Shards processes because it spawns once. *)

StageInv ==
  \A j \in Jobs :
    /\ state[j] = "none" => task[j] = "off" /\ made[j] = 0
    /\ task[j] \in Before => state[j] \in {"queued", "cancelled", "gone"} /\ made[j] = 0
    /\ task[j] \in After => state[j] \in {"running", "cancelled", "gone"}
    /\ task[j] = "spawn" => made[j] < Shards
    /\ proc[j] <= made[j]

LEMMA TypeInit == Init => TypeOK /\ StageInv
<1> SUFFICES ASSUME Init PROVE TypeOK /\ StageInv
  OBVIOUS
<1> USE DEF Init, BusInit
<1>1. BusType
  BY BusNames DEF BusType, JobStates
<1>2. TypeOK
  <2>1. /\ 0 \in 0..Shards
        /\ toCome \in 0..MaxForeign
        /\ faults \in 0..MaxFaults
    BY ReadSizes
  <2> QED
    BY <1>1, <2>1 DEF TypeOK, Places
<1>3. StageInv
  BY ReadSizes DEF StageInv, Before, After
<1> QED
  BY <1>2, <1>3

LEMMA TypeStep == TypeOK /\ StageInv /\ [Next]_vars => TypeOK'
<1> SUFFICES ASSUME TypeOK, StageInv, [Next]_vars PROVE TypeOK'
  OBVIOUS
<1> USE DEF TypeOK, BusType, JobStates, Unfinished, Final, Places, StageInv,
            Before, After, GoTo, bus, work, outside
<1>1. ASSUME NEW j \in Jobs, NEW k \in Keys, Request(j, k) PROVE TypeOK'
  BY <1>1 DEF Request, Enqueue
<1>2. ASSUME NEW j \in Jobs, Gate(j) PROVE TypeOK'
  BY <1>2, ReadSizes DEF Gate, Cancelled
<1>3. ASSUME NEW j \in Jobs, Look(j) PROVE TypeOK'
  BY <1>3 DEF Look
<1>4. ASSUME NEW j \in Jobs, Proceed(j) PROVE TypeOK'
  BY <1>4, ReadSizes DEF Proceed, Update
<1>5. ASSUME NEW j \in Jobs, Wake(j) PROVE TypeOK'
  BY <1>5 DEF Wake, EndTask, Cancelled
<1>6. ASSUME NEW j \in Jobs, Spawn(j) PROVE TypeOK'
  BY <1>6, ReadSizes DEF Spawn
<1>7. ASSUME NEW j \in Jobs, Register(j) PROVE TypeOK'
  BY <1>7 DEF Register
<1>8. ASSUME NEW j \in Jobs, Finish(j) PROVE TypeOK'
  BY <1>8 DEF Finish, Heard, EndTask, Cancelled, Update
<1>9. ASSUME NEW j \in Jobs, Shared(j) PROVE TypeOK'
  BY <1>9 DEF Shared, EndTask
<1>10. ASSUME NEW j \in Jobs, LookFails(j) PROVE TypeOK'
  BY <1>10, ReadSizes DEF LookFails, Fault
<1>11. ASSUME NEW j \in Jobs, Breaks(j) PROVE TypeOK'
  BY <1>11, ReadSizes DEF Breaks, EndTask, Fault, Update
<1>12. ASSUME NEW j \in Jobs, Cancel(j) PROVE TypeOK'
  BY <1>12, BusNames DEF Cancel, CancelJob, Update
<1>13. ASSUME NEW j \in Jobs, StopReading(j) PROVE TypeOK'
  BY <1>13, ReadSizes DEF StopReading
<1>14. ASSUME NEW j \in Jobs, StopFails(j) PROVE TypeOK'
  BY <1>14, ReadSizes DEF StopFails, Fault
<1>15. ASSUME NEW j \in Jobs, ProcEnds(j) PROVE TypeOK'
  BY <1>15, ReadSizes DEF ProcEnds
<1>16. CASE Tidy
  BY <1>16, BusNames DEF Tidy, Forget, Expire
<1>17. CASE ForeignStarts
  BY <1>17, ReadSizes DEF ForeignStarts
<1>18. CASE ForeignEnds
  BY <1>18 DEF ForeignEnds
<1>19. CASE Restart
  BY <1>19, ReadSizes DEF Restart, Reload, Fault
<1>20. CASE UNCHANGED vars
  BY <1>20 DEF vars
<1> QED
  BY <1>1, <1>2, <1>3, <1>4, <1>5, <1>6, <1>7, <1>8, <1>9, <1>10, <1>11,
     <1>12, <1>13, <1>15, <1>16, <1>17, <1>18, <1>19, <1>20, <1>14
  DEF Next, TaskStep

LEMMA StageStep == TypeOK /\ StageInv /\ [Next]_vars => StageInv'
<1> SUFFICES ASSUME TypeOK, StageInv, [Next]_vars PROVE StageInv'
  OBVIOUS
<1> USE DEF TypeOK, BusType, JobStates, Unfinished, Final, Places, StageInv,
            Before, After, GoTo, bus, work, outside
<1>1. ASSUME NEW j \in Jobs, NEW k \in Keys, Request(j, k) PROVE StageInv'
  BY <1>1 DEF Request, Enqueue
<1>2. ASSUME NEW j \in Jobs, Gate(j) PROVE StageInv'
  BY <1>2, ReadSizes DEF Gate, Cancelled
<1>3. ASSUME NEW j \in Jobs, Look(j) PROVE StageInv'
  BY <1>3 DEF Look
<1>4. ASSUME NEW j \in Jobs, Proceed(j) PROVE StageInv'
  BY <1>4, ReadSizes DEF Proceed, Update
<1>5. ASSUME NEW j \in Jobs, Wake(j) PROVE StageInv'
  BY <1>5 DEF Wake, EndTask, Cancelled
<1>6. ASSUME NEW j \in Jobs, Spawn(j) PROVE StageInv'
  BY <1>6, ReadSizes DEF Spawn
<1>7. ASSUME NEW j \in Jobs, Register(j) PROVE StageInv'
  BY <1>7 DEF Register
<1>8. ASSUME NEW j \in Jobs, Finish(j) PROVE StageInv'
  BY <1>8 DEF Finish, Heard, EndTask, Cancelled, Update
<1>9. ASSUME NEW j \in Jobs, Shared(j) PROVE StageInv'
  BY <1>9 DEF Shared, EndTask
<1>10. ASSUME NEW j \in Jobs, LookFails(j) PROVE StageInv'
  BY <1>10, ReadSizes DEF LookFails, Fault
<1>11. ASSUME NEW j \in Jobs, Breaks(j) PROVE StageInv'
  BY <1>11, ReadSizes DEF Breaks, EndTask, Fault, Update
<1>12. ASSUME NEW j \in Jobs, Cancel(j) PROVE StageInv'
  BY <1>12 DEF Cancel, CancelJob, Update
<1>13. ASSUME NEW j \in Jobs, StopReading(j) PROVE StageInv'
  BY <1>13, ReadSizes DEF StopReading
<1>14. ASSUME NEW j \in Jobs, StopFails(j) PROVE StageInv'
  BY <1>14, ReadSizes DEF StopFails, Fault
<1>15. ASSUME NEW j \in Jobs, ProcEnds(j) PROVE StageInv'
  BY <1>15, ReadSizes DEF ProcEnds
<1>16. CASE Tidy
  BY <1>16 DEF Tidy, Forget, Expire
<1>17. CASE ForeignStarts
  BY <1>17, ReadSizes DEF ForeignStarts
<1>18. CASE ForeignEnds
  BY <1>18 DEF ForeignEnds
<1>19. CASE Restart
  BY <1>19, ReadSizes DEF Restart, Reload, Fault
<1>20. CASE UNCHANGED vars
  BY <1>20 DEF vars
<1> QED
  BY <1>1, <1>2, <1>3, <1>4, <1>5, <1>6, <1>7, <1>8, <1>9, <1>10, <1>11,
     <1>12, <1>13, <1>15, <1>16, <1>17, <1>18, <1>19, <1>20, <1>14
  DEF Next, TaskStep

\* Every variable keeps its type (ReadJobs' type invariant).
THEOREM TypeCorrect == Spec => []TypeOK
<1> QED
  BY TypeInit, TypeStep, StageStep, PTL DEF Spec

-----------------------------------------------------------------------------
(* The keys: an unfinished job is the one its key stands for, until the    *)
(* key runs out.                                                           *)

KeyInv ==
  \A j \in Jobs :
    state[j] \in Unfinished =>
      /\ key[j] \in Keys
      /\ key[j] \notin expired => idem[key[j]] = j

LEMMA KeyInit == Init => KeyInv
  BY DEF Init, BusInit, KeyInv, Unfinished

LEMMA KeyStep == TypeOK /\ StageInv /\ KeyInv /\ [Next]_vars => KeyInv'
<1> SUFFICES ASSUME TypeOK, StageInv, KeyInv, [Next]_vars PROVE KeyInv'
  OBVIOUS
<1> USE DEF TypeOK, BusType, Unfinished, Final, StageInv, KeyInv, Before,
            After, GoTo, bus, work, outside
<1>1. ASSUME NEW j \in Jobs, NEW k \in Keys, Request(j, k) PROVE KeyInv'
  BY <1>1, BusNames DEF Request, Enqueue, Hit
<1>2. ASSUME NEW j \in Jobs, Gate(j) PROVE KeyInv'
  BY <1>2 DEF Gate, Cancelled
<1>3. ASSUME NEW j \in Jobs, Look(j) PROVE KeyInv'
  BY <1>3 DEF Look
<1>4. ASSUME NEW j \in Jobs, Proceed(j) PROVE KeyInv'
  BY <1>4 DEF Proceed, Update
<1>5. ASSUME NEW j \in Jobs, Wake(j) PROVE KeyInv'
  BY <1>5 DEF Wake, EndTask, Cancelled
<1>6. ASSUME NEW j \in Jobs, Spawn(j) PROVE KeyInv'
  BY <1>6 DEF Spawn
<1>7. ASSUME NEW j \in Jobs, Register(j) PROVE KeyInv'
  BY <1>7 DEF Register
<1>8. ASSUME NEW j \in Jobs, Finish(j) PROVE KeyInv'
  BY <1>8 DEF Finish, Heard, EndTask, Cancelled, Update
<1>9. ASSUME NEW j \in Jobs, Shared(j) PROVE KeyInv'
  BY <1>9 DEF Shared, EndTask
<1>10. ASSUME NEW j \in Jobs, LookFails(j) PROVE KeyInv'
  BY <1>10 DEF LookFails, Fault
<1>11. ASSUME NEW j \in Jobs, Breaks(j) PROVE KeyInv'
  BY <1>11 DEF Breaks, EndTask, Fault, Update
<1>12. ASSUME NEW j \in Jobs, Cancel(j) PROVE KeyInv'
  BY <1>12, BusNames DEF Cancel, CancelJob, Update, Cancelled
<1>13. ASSUME NEW j \in Jobs, StopReading(j) PROVE KeyInv'
  BY <1>13 DEF StopReading
<1>14. ASSUME NEW j \in Jobs, StopFails(j) PROVE KeyInv'
  BY <1>14 DEF StopFails, Fault
<1>15. ASSUME NEW j \in Jobs, ProcEnds(j) PROVE KeyInv'
  BY <1>15 DEF ProcEnds
<1>16. CASE Tidy
  BY <1>16, BusNames DEF Tidy, Forget, Expire, Hit
<1>17. CASE ForeignStarts
  BY <1>17 DEF ForeignStarts
<1>18. CASE ForeignEnds
  BY <1>18 DEF ForeignEnds
<1>19. CASE Restart
  BY <1>19 DEF Restart, Reload, Fault
<1>20. CASE UNCHANGED vars
  BY <1>20 DEF vars
<1> QED
  BY <1>1, <1>2, <1>3, <1>4, <1>5, <1>6, <1>7, <1>8, <1>9, <1>10, <1>11,
     <1>12, <1>13, <1>15, <1>16, <1>17, <1>18, <1>19, <1>20, <1>14
  DEF Next, TaskStep

\* Whatever fails, two unfinished jobs share a key only if it has run out: a
\* repeated request does not read a case a second time (JobBus' OneJobPerKey).
THEOREM KeysAreObeyed == Spec => []OneJobPerKey
<1>1. KeyInv => OneJobPerKey
  BY DEF KeyInv, OneJobPerKey
<1> QED
  BY <1>1, TypeInit, TypeStep, StageStep, KeyInit, KeyStep, PTL DEF Spec

-----------------------------------------------------------------------------
(* Cancelled jobs.                                                         *)

StaysCancelled ==
  \A j \in Jobs : state[j] = "cancelled" => state'[j] \in {"cancelled", "gone"}

LEMMA CancelStep == TypeOK /\ StageInv /\ [Next]_vars => StaysCancelled
<1> SUFFICES ASSUME TypeOK, StageInv, [Next]_vars PROVE StaysCancelled
  OBVIOUS
<1> USE DEF TypeOK, BusType, Unfinished, Final, StageInv, StaysCancelled,
            Before, After, GoTo, bus, work, outside
<1>1. ASSUME NEW j \in Jobs, NEW k \in Keys, Request(j, k) PROVE StaysCancelled
  BY <1>1 DEF Request, Enqueue
<1>2. ASSUME NEW j \in Jobs, Gate(j) PROVE StaysCancelled
  BY <1>2 DEF Gate, Cancelled
<1>3. ASSUME NEW j \in Jobs, Look(j) PROVE StaysCancelled
  BY <1>3 DEF Look
<1>4. ASSUME NEW j \in Jobs, Proceed(j) PROVE StaysCancelled
  BY <1>4 DEF Proceed, Update
<1>5. ASSUME NEW j \in Jobs, Wake(j) PROVE StaysCancelled
  BY <1>5 DEF Wake, EndTask, Cancelled
<1>6. ASSUME NEW j \in Jobs, Spawn(j) PROVE StaysCancelled
  BY <1>6 DEF Spawn
<1>7. ASSUME NEW j \in Jobs, Register(j) PROVE StaysCancelled
  BY <1>7 DEF Register
<1>8. ASSUME NEW j \in Jobs, Finish(j) PROVE StaysCancelled
  BY <1>8 DEF Finish, Heard, EndTask, Cancelled, Update
<1>9. ASSUME NEW j \in Jobs, Shared(j) PROVE StaysCancelled
  BY <1>9 DEF Shared, EndTask
<1>10. ASSUME NEW j \in Jobs, LookFails(j) PROVE StaysCancelled
  BY <1>10 DEF LookFails, Fault
<1>11. ASSUME NEW j \in Jobs, Breaks(j) PROVE StaysCancelled
  BY <1>11 DEF Breaks, EndTask, Fault, Update
<1>12. ASSUME NEW j \in Jobs, Cancel(j) PROVE StaysCancelled
  BY <1>12 DEF Cancel, CancelJob, Update
<1>13. ASSUME NEW j \in Jobs, StopReading(j) PROVE StaysCancelled
  BY <1>13 DEF StopReading
<1>14. ASSUME NEW j \in Jobs, StopFails(j) PROVE StaysCancelled
  BY <1>14 DEF StopFails, Fault
<1>15. ASSUME NEW j \in Jobs, ProcEnds(j) PROVE StaysCancelled
  BY <1>15 DEF ProcEnds
<1>16. CASE Tidy
  BY <1>16 DEF Tidy, Forget, Expire
<1>17. CASE ForeignStarts
  BY <1>17 DEF ForeignStarts
<1>18. CASE ForeignEnds
  BY <1>18 DEF ForeignEnds
<1>19. CASE Restart
  BY <1>19 DEF Restart, Reload, Fault
<1>20. CASE UNCHANGED vars
  BY <1>20 DEF vars
<1> QED
  BY <1>1, <1>2, <1>3, <1>4, <1>5, <1>6, <1>7, <1>8, <1>9, <1>10, <1>11,
     <1>12, <1>13, <1>15, <1>16, <1>17, <1>18, <1>19, <1>20, <1>14
  DEF Next, TaskStep

\* Whatever its executor writes at its end, a cancelled job stays cancelled until
\* it is forgotten (JobBus' CancelledStays).
THEOREM CancelIsFinal == Spec => CancelledStays
<1>1. StaysCancelled => [StaysCancelled]_state
  OBVIOUS
<1> QED
  BY <1>1, TypeInit, TypeStep, StageStep, CancelStep, PTL
  DEF Spec, CancelledStays, StaysCancelled

-----------------------------------------------------------------------------
(* Every unfinished job has its task, unless that one died of its look at  *)
(* the registry of live runs.                                              *)

LedInv ==
  \A j \in Jobs : state[j] \in Unfinished => task[j] \in Before \cup After \cup {"dead"}

LEMMA LedInit == Init => LedInv
  BY DEF Init, BusInit, LedInv, Unfinished

LEMMA LedStep == TypeOK /\ StageInv /\ LedInv /\ [Next]_vars => LedInv'
<1> SUFFICES ASSUME TypeOK, StageInv, LedInv, [Next]_vars PROVE LedInv'
  OBVIOUS
<1> USE DEF TypeOK, BusType, Unfinished, Final, StageInv, LedInv, Before,
            After, GoTo, bus, work, outside
<1>1. ASSUME NEW j \in Jobs, NEW k \in Keys, Request(j, k) PROVE LedInv'
  BY <1>1 DEF Request, Enqueue
<1>2. ASSUME NEW j \in Jobs, Gate(j) PROVE LedInv'
  BY <1>2 DEF Gate, Cancelled
<1>3. ASSUME NEW j \in Jobs, Look(j) PROVE LedInv'
  BY <1>3 DEF Look
<1>4. ASSUME NEW j \in Jobs, Proceed(j) PROVE LedInv'
  BY <1>4 DEF Proceed, Update
<1>5. ASSUME NEW j \in Jobs, Wake(j) PROVE LedInv'
  BY <1>5 DEF Wake, EndTask, Cancelled
<1>6. ASSUME NEW j \in Jobs, Spawn(j) PROVE LedInv'
  BY <1>6 DEF Spawn
<1>7. ASSUME NEW j \in Jobs, Register(j) PROVE LedInv'
  BY <1>7 DEF Register
<1>8. ASSUME NEW j \in Jobs, Finish(j) PROVE LedInv'
  BY <1>8 DEF Finish, Heard, EndTask, Cancelled, Update
<1>9. ASSUME NEW j \in Jobs, Shared(j) PROVE LedInv'
  BY <1>9 DEF Shared, EndTask
<1>10. ASSUME NEW j \in Jobs, LookFails(j) PROVE LedInv'
  BY <1>10 DEF LookFails, Fault
<1>11. ASSUME NEW j \in Jobs, Breaks(j) PROVE LedInv'
  BY <1>11 DEF Breaks, EndTask, Fault, Update
<1>12. ASSUME NEW j \in Jobs, Cancel(j) PROVE LedInv'
  BY <1>12 DEF Cancel, CancelJob, Update
<1>13. ASSUME NEW j \in Jobs, StopReading(j) PROVE LedInv'
  BY <1>13 DEF StopReading
<1>14. ASSUME NEW j \in Jobs, StopFails(j) PROVE LedInv'
  BY <1>14 DEF StopFails, Fault
<1>15. ASSUME NEW j \in Jobs, ProcEnds(j) PROVE LedInv'
  BY <1>15 DEF ProcEnds
<1>16. CASE Tidy
  BY <1>16 DEF Tidy, Forget, Expire
<1>17. CASE ForeignStarts
  BY <1>17 DEF ForeignStarts
<1>18. CASE ForeignEnds
  BY <1>18 DEF ForeignEnds
<1>19. CASE Restart
  BY <1>19 DEF Restart, Reload, Fault
<1>20. CASE UNCHANGED vars
  BY <1>20 DEF vars
<1> QED
  BY <1>1, <1>2, <1>3, <1>4, <1>5, <1>6, <1>7, <1>8, <1>9, <1>10, <1>11,
     <1>12, <1>13, <1>15, <1>16, <1>17, <1>18, <1>19, <1>20, <1>14
  DEF Next, TaskStep

\* Nothing in the list promises work that nobody does, through cancels, failures
\* and restarts (ReadJobs' NobodyStranded).
THEOREM ListIsHonest == Spec => []NobodyStranded
<1>1. LedInv => NobodyStranded
  BY DEF LedInv, NobodyStranded, Before, After
<1> QED
  BY <1>1, TypeInit, TypeStep, StageStep, LedInit, LedStep, PTL DEF Spec

-----------------------------------------------------------------------------
(* The card.                                                               *)

\* Until something fails the gate is held from the look to the end of the task, only
\* a task that leads processes has any, and none is cut off from them.
CardInv ==
  faults = MaxFaults =>
    \A j \in Jobs :
      /\ task[j] \in {"look", "looked", "nap", "share"} \cup After => gate = j
      /\ proc[j] > 0 => task[j] \in After
      /\ task[j] # "cut"

LEMMA CardInit == Init => CardInv
  BY BusNames DEF Init, CardInv, After

LEMMA CardStep == TypeOK /\ StageInv /\ CardInv /\ [Next]_vars => CardInv'
<1> SUFFICES ASSUME TypeOK, StageInv, CardInv, [Next]_vars PROVE CardInv'
  OBVIOUS
<1> USE DEF TypeOK, StageInv, CardInv, Before, After, GoTo, bus, work, outside
<1>1. ASSUME NEW j \in Jobs, NEW k \in Keys, Request(j, k) PROVE CardInv'
  BY <1>1, BusNames, ReadSizes DEF Request, Enqueue
<1>2. ASSUME NEW j \in Jobs, Gate(j) PROVE CardInv'
  BY <1>2, BusNames, ReadSizes DEF Gate, Cancelled
<1>3. ASSUME NEW j \in Jobs, Look(j) PROVE CardInv'
  BY <1>3, BusNames, ReadSizes DEF Look
<1>4. ASSUME NEW j \in Jobs, Proceed(j) PROVE CardInv'
  BY <1>4, BusNames, ReadSizes DEF Proceed, Update
<1>5. ASSUME NEW j \in Jobs, Wake(j) PROVE CardInv'
  BY <1>5, BusNames, ReadSizes DEF Wake, EndTask, Cancelled
<1>6. ASSUME NEW j \in Jobs, Spawn(j) PROVE CardInv'
  BY <1>6, BusNames, ReadSizes DEF Spawn
<1>7. ASSUME NEW j \in Jobs, Register(j) PROVE CardInv'
  BY <1>7, BusNames, ReadSizes DEF Register
<1>8. ASSUME NEW j \in Jobs, Finish(j) PROVE CardInv'
  BY <1>8, BusNames, ReadSizes DEF Finish, Heard, EndTask, Cancelled, Update
<1>9. ASSUME NEW j \in Jobs, Shared(j) PROVE CardInv'
  BY <1>9, BusNames, ReadSizes DEF Shared, EndTask
<1>10. ASSUME NEW j \in Jobs, LookFails(j) PROVE CardInv'
  BY <1>10, ReadSizes DEF LookFails, Fault
<1>11. ASSUME NEW j \in Jobs, Breaks(j) PROVE CardInv'
  BY <1>11, ReadSizes DEF Breaks, Fault
<1>12. ASSUME NEW j \in Jobs, Cancel(j) PROVE CardInv'
  BY <1>12 DEF Cancel, CancelJob, Update
<1>13. ASSUME NEW j \in Jobs, StopReading(j) PROVE CardInv'
  BY <1>13, BusNames, ReadSizes DEF StopReading
<1>14. ASSUME NEW j \in Jobs, StopFails(j) PROVE CardInv'
  BY <1>14, ReadSizes DEF StopFails, Fault
<1>15. ASSUME NEW j \in Jobs, ProcEnds(j) PROVE CardInv'
  BY <1>15, BusNames, ReadSizes DEF ProcEnds
<1>16. CASE Tidy
  BY <1>16 DEF Tidy, Forget, Expire
<1>17. CASE ForeignStarts
  BY <1>17 DEF ForeignStarts
<1>18. CASE ForeignEnds
  BY <1>18 DEF ForeignEnds
<1>19. CASE Restart
  BY <1>19, ReadSizes DEF Restart, Fault
<1>20. CASE UNCHANGED vars
  BY <1>20 DEF vars
<1> QED
  BY <1>1, <1>2, <1>3, <1>4, <1>5, <1>6, <1>7, <1>8, <1>9, <1>10, <1>11,
     <1>12, <1>13, <1>15, <1>16, <1>17, <1>18, <1>19, <1>20, <1>14
  DEF Next, TaskStep

\* Until something fails, only the job that holds the gate has processes on the card,
\* however jobs are cancelled, forgotten and asked for again (ReadJobs' CardHeld).
THEOREM OneReadsAtATime == Spec => []CardHeld
<1>1. CardInv => CardHeld
  BY DEF CardInv, CardHeld
<1> QED
  BY <1>1, TypeInit, TypeStep, StageStep, CardInit, CardStep, PTL DEF Spec

-----------------------------------------------------------------------------
(* A cancelled reading that starts all the same.                           *)

\* The steps that leave the task able to notice a cancel: none while the look at
\* the registry is under way or between the starts of two processes, and the list
\* is not cleared of a cancelled job whose task has yet to ask for its state.
Timely ==
  /\ \A j \in Jobs : Cancel(j) => task[j] \notin {"look", "looked", "spawn"}
  /\ Forget => \A j \in Jobs : Cancelled(j) => task[j] \notin {"gate", "nap"}

\* A task past its question is that of a job nobody cancelled, and one before it
\* will be told.
ToldInv ==
  \A j \in Jobs :
    /\ task[j] \in {"look", "looked", "spawn"} => state[j] \in Unfinished
    /\ task[j] \in {"gate", "nap"} => state[j] \in Unfinished \cup {"cancelled"}

LEMMA ToldInit == Init => ToldInv
  BY DEF Init, BusInit, ToldInv

LEMMA ToldStep == 
  TypeOK /\ StageInv /\ ToldInv /\ [Next]_vars /\ [Timely]_vars => ToldInv'
<1> SUFFICES ASSUME TypeOK, StageInv, ToldInv, [Next]_vars, [Timely]_vars PROVE ToldInv'
  OBVIOUS
<1> USE DEF TypeOK, BusType, Unfinished, Final, StageInv, ToldInv, Before,
            After, GoTo, bus, work, outside
<1>1. ASSUME NEW j \in Jobs, NEW k \in Keys, Request(j, k) PROVE ToldInv'
  BY <1>1 DEF Request, Enqueue
<1>2. ASSUME NEW j \in Jobs, Gate(j) PROVE ToldInv'
  BY <1>2 DEF Gate, Cancelled
<1>3. ASSUME NEW j \in Jobs, Look(j) PROVE ToldInv'
  BY <1>3 DEF Look
<1>4. ASSUME NEW j \in Jobs, Proceed(j) PROVE ToldInv'
  BY <1>4 DEF Proceed, Update
<1>5. ASSUME NEW j \in Jobs, Wake(j) PROVE ToldInv'
  BY <1>5 DEF Wake, EndTask, Cancelled
<1>6. ASSUME NEW j \in Jobs, Spawn(j) PROVE ToldInv'
  BY <1>6 DEF Spawn
<1>7. ASSUME NEW j \in Jobs, Register(j) PROVE ToldInv'
  BY <1>7 DEF Register
<1>8. ASSUME NEW j \in Jobs, Finish(j) PROVE ToldInv'
  BY <1>8 DEF Finish, Heard, EndTask, Cancelled, Update
<1>9. ASSUME NEW j \in Jobs, Shared(j) PROVE ToldInv'
  BY <1>9 DEF Shared, EndTask
<1>10. ASSUME NEW j \in Jobs, LookFails(j) PROVE ToldInv'
  BY <1>10 DEF LookFails, Fault
<1>11. ASSUME NEW j \in Jobs, Breaks(j) PROVE ToldInv'
  BY <1>11 DEF Breaks, EndTask, Update
<1>12. ASSUME NEW j \in Jobs, Cancel(j) PROVE ToldInv'
  <2>1. task[j] \notin {"look", "looked", "spawn"}
    BY <1>12 DEF Timely, vars, Cancel, CancelJob, Update, JobStates
  <2> QED
    BY <1>12, <2>1 DEF Cancel, CancelJob, Update
<1>13. ASSUME NEW j \in Jobs, StopReading(j) PROVE ToldInv'
  BY <1>13 DEF StopReading
<1>14. ASSUME NEW j \in Jobs, StopFails(j) PROVE ToldInv'
  BY <1>14 DEF StopFails, Fault
<1>15. ASSUME NEW j \in Jobs, ProcEnds(j) PROVE ToldInv'
  BY <1>15 DEF ProcEnds
<1>16. CASE Tidy
  <2>1. CASE Forget
    <3>1. \A j \in Jobs : Cancelled(j) => task[j] \notin {"gate", "nap"}
      BY <2>1 DEF Timely, Forget, vars, JobStates
    <3> QED
      BY <1>16, <2>1, <3>1 DEF Tidy, Forget, Cancelled
  <2>2. ASSUME NEW k \in Keys, Expire(k) PROVE ToldInv'
    BY <1>16, <2>2 DEF Tidy, Expire
  <2> QED
    BY <1>16, <2>1, <2>2 DEF Tidy
<1>17. CASE ForeignStarts
  BY <1>17 DEF ForeignStarts
<1>18. CASE ForeignEnds
  BY <1>18 DEF ForeignEnds
<1>19. CASE Restart
  BY <1>19 DEF Restart, Reload
<1>20. CASE UNCHANGED vars
  BY <1>20 DEF vars
<1> QED
  BY <1>1, <1>2, <1>3, <1>4, <1>5, <1>6, <1>7, <1>8, <1>9, <1>10, <1>11,
     <1>12, <1>13, <1>15, <1>16, <1>17, <1>18, <1>19, <1>20, <1>14
  DEF Next, TaskStep

\* What NoGhostRead asks of one step.
Awaited == \A j \in Jobs : proc'[j] > proc[j] => state[j] \in Unfinished

LEMMA AwaitedStep == TypeOK /\ ToldInv /\ [Next]_vars => Awaited
<1> SUFFICES ASSUME TypeOK, ToldInv, [Next]_vars, NEW j \in Jobs, proc'[j] > proc[j]
             PROVE state[j] \in Unfinished
  BY DEF Awaited
<1>1. ASSUME NEW i \in Jobs, Spawn(i) PROVE i = j /\ task[j] = "spawn"
  BY <1>1 DEF Spawn, TypeOK
<1>2. ASSUME NEW i \in Jobs, Breaks(i) \/ StopReading(i) \/ StopFails(i) \/ ProcEnds(i)
      PROVE  FALSE
  BY <1>2, ReadSizes DEF Breaks, StopReading, StopFails, ProcEnds, TypeOK
<1>3. CASE Restart
  BY <1>3, ReadSizes DEF Restart, TypeOK
<1>4. CASE UNCHANGED proc
  BY <1>4, ReadSizes DEF TypeOK
<1> QED
  BY <1>1, <1>2, <1>3, <1>4
  DEF Next, TaskStep, vars, work, Request, Gate, Look, Proceed, Wake, Register,
      Finish, Shared, LookFails, Cancel, Tidy, ForeignStarts, ForeignEnds, ToldInv

\* A reading that was cancelled does not start its processes, unless the cancel or
\* the clearing of the list falls into one of the moments Timely leaves out
\* (ReadJobs' NoGhostRead; each of them is enough for a ghost).
THEOREM GhostsAreUntimely == Spec /\ [][Timely]_vars => NoGhostRead
<1>1. TypeOK /\ ToldInv /\ [Next]_vars => [Awaited]_proc
  BY AwaitedStep
<1> QED
  BY <1>1, TypeInit, TypeStep, StageStep, ToldInit, ToldStep, PTL
  DEF Spec, NoGhostRead, Awaited

=============================================================================
