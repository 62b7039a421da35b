-------------------------- MODULE GenericOps_proofs --------------------------
(***************************************************************************)
(* Proofs about GenericOps, for any jobs, keys and number of crashes.      *)
(***************************************************************************)
EXTENDS GenericOps, TLAPS

-----------------------------------------------------------------------------
(* Type correctness.                                                       *)

LEMMA CrashesStay ==
  ASSUME NEW m, m = crashes - 1, crashes \in 0..MaxCrashes, crashes > 0
  PROVE  m \in 0..MaxCrashes
BY OpKinds

\* What the list of jobs does to a job keeps its type.
LEMMA UpdateTyped ==
  ASSUME BusType, NEW j \in Jobs, NEW s \in JobStates, Update(j, s)
  PROVE  state' \in [Jobs -> JobStates]
BY DEF BusType, Update

LEMMA OpTypeStep == ASSUME OpType, [OpNext]_opVars PROVE OpType'
<1> USE DEF OpType
<1>1. ASSUME NEW j \in Jobs, NEW k \in Keys, Ask(j, k) PROVE OpType'
  BY <1>1 DEF Ask, BusType, JobStates, Unfinished
<1>2. ASSUME NEW j \in Jobs, Begin(j) PROVE OpType'
  <2>1. state' \in [Jobs -> JobStates]
    BY <1>2, UpdateTyped DEF Begin, JobStates, Unfinished
  <2> QED BY <1>2, <2>1 DEF Begin, BusType
<1>3. ASSUME NEW j \in Jobs, ThreadEnds(j) PROVE OpType'
  BY <1>3 DEF ThreadEnds, BusType, bus
<1>4. ASSUME NEW j \in Jobs, WakeUp(j) PROVE OpType'
  <2>1. state' \in [Jobs -> JobStates]
    BY <1>4, UpdateTyped DEF WakeUp, JobStates, Final
  <2>2. told' \in [Jobs -> Said] /\ given' \subseteq Jobs
    BY <1>4 DEF WakeUp, Report, Mutter, Said
  <2> QED BY <1>4, <2>1, <2>2 DEF WakeUp, BusType
<1>5. ASSUME NEW j \in Jobs, WriteNote(j) PROVE OpType'
  BY <1>5 DEF WriteNote, BusType, bus, Said
<1>6. ASSUME NEW j \in Jobs, CancelOp(j) PROVE OpType'
  <2>1. state' \in [Jobs -> JobStates]
    BY <1>6, UpdateTyped DEF CancelOp, CancelJob, JobStates, Final
  <2>2. idem' \in [Keys -> Jobs \cup {NoJob}] /\ stoppers' \subseteq Jobs
    BY <1>6 DEF CancelOp, CancelJob, BusType
  <2> QED BY <1>6, <2>1, <2>2 DEF CancelOp, CancelJob, BusType
<1>7. ASSUME ClearList PROVE OpType'
  BY <1>7 DEF ClearList, Forget, BusType, JobStates, Final
<1>8. ASSUME Crash PROVE OpType'
  <2>1. crashes' \in 0..MaxCrashes
    BY <1>8, CrashesStay DEF Crash
  <2>2. BusType'
    BY <1>8 DEF Crash, Reload, BusType, JobStates, Final
  <2> QED BY <1>8, <2>1, <2>2 DEF Crash
<1>9. CASE UNCHANGED opVars
  BY <1>9 DEF opVars, BusType
<1> QED BY <1>1, <1>2, <1>3, <1>4, <1>5, <1>6, <1>7, <1>8, <1>9 DEF OpNext

LEMMA OpTypeInit == OpInit => OpType
BY OpKinds DEF OpInit, BusInit, OpType, BusType, JobStates, Said

-----------------------------------------------------------------------------
(* One run of an operation at a time.                                      *)

\* A job that is not yet made has neither a thread nor a result.
Unmade == \A j \in Jobs : state[j] = "none" => body[j] = "off" /\ j \notin given

OpInv == OpType /\ Unmade /\ OneRun

\* A step that makes no job and no thread leaves OneRun as it was: a job that is
\* forgotten stays forgotten.
LEMMA Quiet ==
  ASSUME OpInv, OpType',
         key' = key,
         \A j \in Jobs : body'[j] # "off" => body[j] # "off",
         \A j \in Jobs : state[j] = "gone" => state'[j] = "gone"
  PROVE  OneRun'
BY DEF OpInv, OneRun

LEMMA OpStep == ASSUME OpInv, [OpNext]_opVars PROVE OpInv'
<1> USE DEF OpInv
<1>0. OpType'
  BY OpTypeStep
<1>1. ASSUME NEW j \in Jobs, NEW k \in Keys, Ask(j, k) PROVE OpInv'
  <2>1. Unmade'
    BY <1>1 DEF Ask, Unmade, OpType, BusType
  <2>2. ASSUME NEW i \in Jobs, i # j, key[i] = k, k \notin Builds, body[i] # "off"
        PROVE  state[i] = "gone"
    BY <1>1, <2>2 DEF Ask, SameWork, Going, Listed, Unmade
  <2>3. OneRun'
    BY <1>1, <2>2 DEF Ask, OneRun, OpType, BusType
  <2> QED BY <1>0, <2>1, <2>3
<1>2. ASSUME NEW j \in Jobs, Begin(j) PROVE OpInv'
  <2>1. Unmade'
    BY <1>2 DEF Begin, Update, Unmade, OpType, BusType
  <2>2. OneRun'
    BY <1>0, <1>2, Quiet DEF Begin, Update, OpType, BusType
  <2> QED BY <1>0, <2>1, <2>2
<1>3. ASSUME NEW j \in Jobs, ThreadEnds(j) PROVE OpInv'
  <2>1. Unmade'
    BY <1>3 DEF ThreadEnds, bus, Unmade, OpType, BusType
  <2>2. OneRun'
    BY <1>0, <1>3, Quiet DEF ThreadEnds, bus, OpType, BusType
  <2> QED BY <1>0, <2>1, <2>2
<1>4. ASSUME NEW j \in Jobs, WakeUp(j) PROVE OpInv'
  <2>1. Unmade'
    BY <1>4 DEF WakeUp, Update, Unmade, OpType, BusType
  <2>2. OneRun'
    BY <1>0, <1>4, Quiet DEF WakeUp, Update, OpType, BusType
  <2> QED BY <1>0, <2>1, <2>2
<1>5. ASSUME NEW j \in Jobs, WriteNote(j) PROVE OpInv'
  <2>1. Unmade'
    BY <1>5 DEF WriteNote, bus, Unmade
  <2>2. OneRun'
    BY <1>5 DEF WriteNote, bus, OneRun
  <2> QED BY <1>0, <2>1, <2>2
<1>6. ASSUME NEW j \in Jobs, CancelOp(j) PROVE OpInv'
  <2>1. Unmade'
    BY <1>6 DEF CancelOp, CancelJob, Update, Unmade, OpType, BusType
  <2>2. OneRun'
    BY <1>0, <1>6, Quiet DEF CancelOp, CancelJob, Update, OpType, BusType
  <2> QED BY <1>0, <2>1, <2>2
<1>7. ASSUME ClearList PROVE OpInv'
  <2>1. Unmade'
    BY <1>7 DEF ClearList, Forget, Unmade, Final
  <2>2. OneRun'
    BY <1>0, <1>7, Quiet DEF ClearList, Forget
  <2> QED BY <1>0, <2>1, <2>2
<1>8. ASSUME Crash PROVE OpInv'
  BY <1>0, <1>8 DEF Crash, Reload, Unmade, OneRun
<1>9. CASE UNCHANGED opVars
  BY <1>0, <1>9 DEF opVars, Unmade, OneRun
<1> QED BY <1>1, <1>2, <1>3, <1>4, <1>5, <1>6, <1>7, <1>8, <1>9 DEF OpNext

LEMMA OpInvAlways == OpSpec => []OpInv
<1>1. OpInit => OpInv
  BY OpTypeInit DEF OpInv, OpInit, BusInit, Unmade, OneRun
<1>2. OpInv /\ [OpNext]_opVars => OpInv'
  BY OpStep
<1> QED BY <1>1, <1>2, PTL DEF OpSpec

\* Every variable keeps its type.
THEOREM OpTypeCorrect == OpSpec => []OpType
<1>1. OpInv => OpType
  BY DEF OpInv
<1> QED BY <1>1, OpInvAlways, PTL

\* Whatever is cancelled and asked for again, two threads of one operation live
\* together only where the first job was taken off the list.
THEOREM MergesAlone == OpSpec => []OneRun
<1>1. OpInv => OneRun
  BY DEF OpInv
<1> QED BY <1>1, OpInvAlways, PTL

-----------------------------------------------------------------------------
(* What a cancelled job says of its result.                                *)

\* A result comes with the end of the task; the job is then not unfinished, and no
\* warning that was to be written before is still to be written.
Settled ==
  \A j \in given :
    /\ body[j] = "off"
    /\ state[j] \notin Unfinished
    /\ j \in notes => j \in lateCancel

SaidInv == OpInv /\ Settled /\ ResultExplained

\* A step that leaves the results, what is said and the states of these jobs alone.
LEMMA Untouched ==
  ASSUME SaidInv, key' = key, given' = given, notes' = notes, lateCancel' = lateCancel,
         \A i \in given : /\ body'[i] = "off"
                          /\ state'[i] = state[i]
                          /\ told'[i] = told[i]
  PROVE  Settled' /\ ResultExplained'
BY DEF SaidInv, Settled, ResultExplained, Cancelled

LEMMA SaidStep == ASSUME SaidInv, [OpNext]_opVars PROVE SaidInv'
<1> USE DEF SaidInv
<1>0. OpInv' /\ given \subseteq Jobs
  BY OpStep DEF OpInv, OpType
<1>1. ASSUME NEW j \in Jobs, NEW k \in Keys, Ask(j, k) PROVE SaidInv'
  <2>1. j \notin given
    BY <1>1 DEF Ask, OpInv, Unmade
  <2>2. \A i \in given : key'[i] = key[i] /\ state'[i] = state[i] /\ body'[i] = body[i]
    BY <1>0, <1>1, <2>1 DEF Ask, OpInv, OpType, BusType
  <2> QED BY <1>0, <1>1, <2>2 DEF Ask, Settled, ResultExplained, Cancelled
<1>2. ASSUME NEW j \in Jobs, Begin(j) PROVE SaidInv'
  <2>1. j \notin given
    BY <1>2 DEF Begin, Settled
  <2> QED BY <1>0, <1>2, <2>1, Untouched DEF Begin, Update, Settled, OpInv, OpType, BusType
<1>3. ASSUME NEW j \in Jobs, ThreadEnds(j) PROVE SaidInv'
  <2>1. j \notin given
    BY <1>3 DEF ThreadEnds, Settled
  <2> QED BY <1>0, <1>3, <2>1, Untouched DEF ThreadEnds, bus, Settled, OpInv, OpType, BusType
<1>4. ASSUME NEW j \in Jobs, WakeUp(j) PROVE SaidInv'
  <2>1. j \notin given /\ (j \in notes => j \in lateCancel)
    BY <1>4 DEF WakeUp, Settled, NoteFirst
  <2>2. /\ key' = key /\ notes' = notes /\ lateCancel' = lateCancel
        /\ body'[j] = "off"
        /\ \A i \in given : body'[i] = body[i] /\ state'[i] = state[i]
    BY <1>0, <1>4, <2>1 DEF WakeUp, Update, OpInv, OpType, BusType
  <2>3. CASE UNCHANGED <<told, given>>
    BY <1>0, <2>2, <2>3, Untouched DEF Settled
  <2>4. CASE Update(j, "done") /\ Listed(j) /\ Report(j) /\ given' = given \cup {j}
    <3>1. /\ state'[j] \notin Unfinished
          /\ Cancelled(j)' => Cancelled(j)
      BY <2>4 DEF Update, Cancelled, Unfinished, Listed, OpInv, OpType, BusType
    <3>2. Cancelled(j) /\ key[j] \notin Stoppable \cup Builds
            => told'[j] = "finished in full"
      BY <2>4 DEF Report, OpInv, OpType
    <3>3. \A i \in given : told'[i] = told[i]
      BY <1>0, <2>1, <2>4 DEF Report, Mutter, OpInv, OpType
    <3>4. Settled'
      BY <2>1, <2>2, <2>4, <3>1 DEF Settled
    <3>5. ResultExplained'
      BY <2>2, <2>4, <3>1, <3>2, <3>3 DEF ResultExplained, Cancelled
    <3> QED BY <1>0, <3>4, <3>5
  <2> QED BY <1>4, <2>3, <2>4 DEF WakeUp
<1>5. ASSUME NEW j \in Jobs, WriteNote(j) PROVE SaidInv'
  <2>1. /\ j \in given => j \in lateCancel
        /\ \A i \in given : i # j => told'[i] = told[i]
    BY <1>5 DEF WriteNote, Settled, OpInv, OpType
  <2> QED BY <1>0, <1>5, <2>1 DEF WriteNote, bus, Settled, ResultExplained, Cancelled
<1>6. ASSUME NEW j \in Jobs, CancelOp(j) PROVE SaidInv'
  <2>1. j \notin given
    BY <1>6 DEF CancelOp, CancelJob, Settled
  <2>2. \A i \in given : state'[i] = state[i]
    BY <1>0, <1>6, <2>1 DEF CancelOp, CancelJob, Update, OpInv, OpType, BusType
  <2>3. \A i \in given : /\ i \in notes' <=> i \in notes
                         /\ i \in lateCancel' <=> i \in lateCancel
    BY <1>6, <2>1 DEF CancelOp
  <2> QED BY <1>0, <1>6, <2>2, <2>3
          DEF CancelOp, CancelJob, Settled, ResultExplained, Cancelled
<1>7. ASSUME ClearList PROVE SaidInv'
  <2>1. \A i \in given : state'[i] \in {state[i], "gone"} /\ (Cancelled(i)' => Cancelled(i))
    BY <1>0, <1>7 DEF ClearList, Forget, Cancelled
  <2> QED BY <1>0, <1>7, <2>1 DEF ClearList, Forget, Settled, ResultExplained, Unfinished
<1>8. ASSUME Crash PROVE SaidInv'
  <2>1. \A i \in given : state'[i] = state[i]
    BY <1>0, <1>8 DEF Crash, Reload, Settled
  <2> QED BY <1>0, <1>8, <2>1 DEF Crash, Reload, Settled, ResultExplained, Cancelled
<1>9. CASE UNCHANGED opVars
  BY <1>0, <1>9, Untouched DEF opVars, Settled
<1> QED BY <1>1, <1>2, <1>3, <1>4, <1>5, <1>6, <1>7, <1>8, <1>9 DEF OpNext

\* A cancelled operation that did all of its work says so at the end.
THEOREM CancelledSaysWhole == OpSpec => []ResultExplained
<1>1. OpInit => SaidInv
  BY OpTypeInit DEF SaidInv, OpInv, OpInit, BusInit, Unmade, OneRun, Settled,
     ResultExplained
<1>2. SaidInv /\ [OpNext]_opVars => SaidInv'
  BY SaidStep
<1>3. SaidInv => ResultExplained
  BY DEF SaidInv
<1> QED BY <1>1, <1>2, <1>3, PTL DEF OpSpec

-----------------------------------------------------------------------------
(* What _start_generic promises.                                           *)

\* The list is not cleared of an operation that is still in its thread (a cancelled
\* one: no other end of a job leaves its thread behind).
ClearsTheIdle == ClearList => \A j \in Jobs : body[j] # "off" => state[j] \notin Final

\* Then the thread's job is still on the list.
OnTheList == \A j \in Jobs : body[j] # "off" => state[j] # "gone"

LEMMA OnTheListStep ==
  ASSUME OpInv, OnTheList, [OpNext]_opVars, [ClearsTheIdle]_opVars
  PROVE  OnTheList'
<1> USE DEF OpInv, OpType, BusType, OnTheList
<1>1. ASSUME NEW j \in Jobs, NEW k \in Keys, Ask(j, k) PROVE OnTheList'
  BY <1>1 DEF Ask
<1>2. ASSUME NEW j \in Jobs,
             Begin(j) \/ ThreadEnds(j) \/ WakeUp(j) \/ WriteNote(j) \/ CancelOp(j)
      PROVE  OnTheList'
  BY <1>2 DEF Begin, ThreadEnds, WakeUp, WriteNote, CancelOp, CancelJob, Update, bus
<1>3. CASE ClearList
  <2>1. ClearsTheIdle
    BY <1>3 DEF ClearList, Forget, opVars, Final
  <2> QED BY <1>3, <2>1 DEF ClearsTheIdle, ClearList, Forget
<1>4. CASE Crash
  BY <1>4 DEF Crash
<1>5. CASE UNCHANGED opVars
  BY <1>5 DEF opVars
<1> QED BY <1>1, <1>2, <1>3, <1>4, <1>5 DEF OpNext

\* Two threads of one operation never live together, whatever is cancelled and asked
\* for again, if the list is never cleared of an operation still in its thread.
THEOREM MergesAloneUnlessCleared ==
  OpSpec /\ [][ClearsTheIdle]_opVars => []OneRunEver
<1>1. OpInit => OnTheList
  BY DEF OpInit, OnTheList
<1>2. OpInv /\ OnTheList /\ [OpNext]_opVars /\ [ClearsTheIdle]_opVars => OnTheList'
  BY OnTheListStep
<1>3. OpInv /\ OnTheList => OneRunEver
  BY DEF OpInv, OnTheList, OneRun, OneRunEver
<1> QED BY <1>1, <1>2, <1>3, OpInvAlways, PTL DEF OpSpec

=============================================================================
