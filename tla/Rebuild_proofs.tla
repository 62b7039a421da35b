--------------------------- MODULE Rebuild_proofs ---------------------------
(***************************************************************************)
(* Proofs about Rebuild, for any number of callers, changes of the disk,   *)
(* requests and faults, and for any builds outside the queue of requests.  *)
(* What one theorem assumes of those builds is a hypothesis on behaviours: *)
(* Undisturbed, that none of them replaces the library between the moment  *)
(* a build under build.lock wrote it and the moment it reads it back.      *)
(***************************************************************************)
EXTENDS Rebuild, TLAPS

\* A step that does not put another library under a caller about to index its own.
Undisturbed ==
  \A p \in Wide, c \in Callers : WriteLibrary(p) => pc[c] # "index"

Building == {"scan", "library", "index", "replace", "finish"}
Holding  == Building \cup {"again", "leave"}

-----------------------------------------------------------------------------
(* The type invariant.                                                     *)

LEMMA TypeInit == Init => TypeOK
<1> SUFFICES ASSUME Init PROVE TypeOK
  OBVIOUS
<1> USE DEF Init, TypeOK, Over, Aside
<1>1. faults \in 0..MaxFaults
  BY Limits
<1> QED
  BY <1>1

LEMMA TypeStep == TypeOK /\ [Next]_vars => TypeOK'
<1> SUFFICES ASSUME TypeOK, [Next]_vars PROVE TypeOK'
  OBVIOUS
<1> USE DEF TypeOK, Over, Aside, GoTo, queue, files, local, ghost
<1>1. CASE Change
  BY <1>1 DEF Change
<1>2. ASSUME NEW c \in Callers, Ask(c) PROVE TypeOK'
  BY <1>2 DEF Ask, Procs
<1>3. ASSUME NEW c \in Callers, Look(c) PROVE TypeOK'
  BY <1>3 DEF Look, Procs
<1>4. ASSUME NEW c \in Callers, Try(c) PROVE TypeOK'
  BY <1>4 DEF Try, Procs
<1>5. ASSUME NEW c \in Callers, Again(c) PROVE TypeOK'
  BY <1>5 DEF Again, Procs, Waiting
<1>6. ASSUME NEW c \in Callers, Finish(c) PROVE TypeOK'
  BY <1>6 DEF Finish, Procs
<1>7. ASSUME NEW c \in Callers, Leave(c) PROVE TypeOK'
  BY <1>7 DEF Leave, Procs
<1>8. ASSUME NEW c \in Callers, GiveUp(c) PROVE TypeOK'
  BY <1>8, Limits DEF GiveUp, Spend, Procs
<1>9. ASSUME NEW p \in Procs, Begin(p) PROVE TypeOK'
  BY <1>9, Roles DEF Begin, Procs
<1>10. ASSUME NEW p \in Procs, Scan(p) PROVE TypeOK'
  BY <1>10 DEF Scan
<1>11. ASSUME NEW p \in Procs, WriteLibrary(p) PROVE TypeOK'
  BY <1>11 DEF WriteLibrary, Wrote
<1>12. ASSUME NEW p \in Procs, CollectRows(p) PROVE TypeOK'
  BY <1>12 DEF CollectRows
<1>13. ASSUME NEW p \in Procs, Replace(p) PROVE TypeOK'
  BY <1>13 DEF Replace, Wrote
<1>14. ASSUME NEW p \in Procs, Stop(p) PROVE TypeOK'
  BY <1>14, Limits DEF Stop, Spend
<1>15. CASE UNCHANGED vars
  BY <1>15 DEF vars
<1> QED
  BY <1>1, <1>2, <1>3, <1>4, <1>5, <1>6, <1>7, <1>8, <1>9, <1>10, <1>11, <1>12,
     <1>13, <1>14, <1>15 DEF Next, CallStep, BuildStep

\* Every variable keeps its type (Rebuild's type invariant).
THEOREM TypeCorrect == Spec => []TypeOK
<1> QED
  BY TypeInit, TypeStep, PTL DEF Spec

-----------------------------------------------------------------------------
(* build.lock: whoever is between taking it and the end of its call holds  *)
(* it.                                                                     *)

LockInv == \A c \in Callers : pc[c] \in Holding => lock = c

LEMMA LockInit == Init => LockInv
  BY Roles DEF Init, LockInv, Holding, Building, Procs

LEMMA LockStep == TypeOK /\ LockInv /\ [Next]_vars => LockInv'
<1> SUFFICES ASSUME TypeOK, LockInv, [Next]_vars PROVE LockInv'
  OBVIOUS
<1> USE DEF TypeOK, Over, Aside, GoTo, queue, files, local, ghost, Building,
            Holding, LockInv, Procs
<1>1. CASE Change
  BY <1>1 DEF Change
<1>2. ASSUME NEW c \in Callers, Ask(c) PROVE LockInv'
  BY <1>2 DEF Ask
<1>3. ASSUME NEW c \in Callers, Look(c) PROVE LockInv'
  BY <1>3 DEF Look
<1>4. ASSUME NEW c \in Callers, Try(c) PROVE LockInv'
  BY <1>4, Roles DEF Try
<1>5. ASSUME NEW c \in Callers, Again(c) PROVE LockInv'
  BY <1>5 DEF Again
<1>6. ASSUME NEW c \in Callers, Finish(c) PROVE LockInv'
  BY <1>6 DEF Finish
<1>7. ASSUME NEW c \in Callers, Leave(c) PROVE LockInv'
  BY <1>7 DEF Leave
<1>8. ASSUME NEW c \in Callers, GiveUp(c) PROVE LockInv'
  BY <1>8 DEF GiveUp, Spend
<1>9. ASSUME NEW p \in Procs, Begin(p) PROVE LockInv'
  BY <1>9, Roles DEF Begin
<1>10. ASSUME NEW p \in Procs, Scan(p) PROVE LockInv'
  BY <1>10, Roles DEF Scan
<1>11. ASSUME NEW p \in Procs, WriteLibrary(p) PROVE LockInv'
  BY <1>11, Roles DEF WriteLibrary
<1>12. ASSUME NEW p \in Procs, CollectRows(p) PROVE LockInv'
  BY <1>12, Roles DEF CollectRows
<1>13. ASSUME NEW p \in Procs, Replace(p) PROVE LockInv'
  BY <1>13, Roles DEF Replace
<1>14. ASSUME NEW p \in Procs, Stop(p) PROVE LockInv'
  BY <1>14, Roles DEF Stop, Spend
<1>15. CASE UNCHANGED vars
  BY <1>15 DEF vars
<1> QED
  BY <1>1, <1>2, <1>3, <1>4, <1>5, <1>6, <1>7, <1>8, <1>9, <1>10, <1>11,
     <1>12, <1>13, <1>14, <1>15
  DEF Next, CallStep, BuildStep

-----------------------------------------------------------------------------
(* The numbers: none is above `asked`, the builder covers itself and all   *)
(* it heard, and nobody it has answered for is left uncovered.             *)

Numbers ==
  /\ done <= asked
  /\ \A c \in Callers : mine[c] <= asked /\ upto[c] <= asked

Heard ==
  /\ \A c \in Callers :
       pc[c] \in Building =>
         /\ mine[c] <= upto[c]
         /\ done < mine[c]
         /\ \A d \in heard : mine[d] <= upto[c]
  /\ \A d \in closed : mine[d] <= done

CountInv == Numbers /\ Heard

LEMMA CountInit == Init => CountInv
  BY Roles DEF Init, CountInv, Numbers, Heard, Building, Procs

LEMMA CountStep == TypeOK /\ LockInv /\ CountInv /\ [Next]_vars => CountInv'
<1> SUFFICES ASSUME TypeOK, LockInv, CountInv, [Next]_vars PROVE CountInv'
  OBVIOUS
<1> USE DEF TypeOK, Over, Aside, GoTo, queue, files, local, ghost, Building,
            Holding, LockInv, CountInv, Numbers, Heard, Procs
<1>1. CASE Change
  BY <1>1 DEF Change
<1>2. ASSUME NEW c \in Callers, Ask(c) PROVE CountInv'
  BY <1>2 DEF Ask
<1>3. ASSUME NEW c \in Callers, Look(c) PROVE CountInv'
  BY <1>3 DEF Look, Covered
<1>4. ASSUME NEW c \in Callers, Try(c) PROVE CountInv'
  BY <1>4 DEF Try
<1>5. ASSUME NEW c \in Callers, Again(c) PROVE CountInv'
  BY <1>5 DEF Again, Covered, Waiting
<1>6. ASSUME NEW c \in Callers, Finish(c) PROVE CountInv'
  BY <1>6 DEF Finish
<1>7. ASSUME NEW c \in Callers, Leave(c) PROVE CountInv'
  BY <1>7 DEF Leave
<1>8. ASSUME NEW c \in Callers, GiveUp(c) PROVE CountInv'
  BY <1>8 DEF GiveUp, Spend
<1>9. ASSUME NEW p \in Procs, Begin(p) PROVE CountInv'
  BY <1>9, Roles DEF Begin
<1>10. ASSUME NEW p \in Procs, Scan(p) PROVE CountInv'
  BY <1>10, Roles DEF Scan
<1>11. ASSUME NEW p \in Procs, WriteLibrary(p) PROVE CountInv'
  BY <1>11, Roles DEF WriteLibrary
<1>12. ASSUME NEW p \in Procs, CollectRows(p) PROVE CountInv'
  BY <1>12, Roles DEF CollectRows
<1>13. ASSUME NEW p \in Procs, Replace(p) PROVE CountInv'
  BY <1>13, Roles DEF Replace
<1>14. ASSUME NEW p \in Procs, Stop(p) PROVE CountInv'
  BY <1>14, Roles DEF Stop, Spend
<1>15. CASE UNCHANGED vars
  BY <1>15 DEF vars
<1> QED
  BY <1>1, <1>2, <1>3, <1>4, <1>5, <1>6, <1>7, <1>8, <1>9, <1>10, <1>11,
     <1>12, <1>13, <1>14, <1>15
  DEF Next, CallStep, BuildStep

\* A request a finished build has answered for is not built for again (the
\* double check of the counter under build.lock).
THEOREM NobodyBuildsTwice == Spec => []NoNeedlessBuild
<1> DEFINE Inv == TypeOK /\ LockInv /\ CountInv
<1>1. Init => Inv
  BY TypeInit, LockInit, CountInit
<1>2. Inv /\ [Next]_vars => Inv'
  BY TypeStep, LockStep, CountStep
<1>3. Inv => NoNeedlessBuild
  BY DEF NoNeedlessBuild, TypeOK, CountInv, Heard, Building
<1> QED
  BY <1>1, <1>2, <1>3, PTL DEF Spec

-----------------------------------------------------------------------------
(* The freshness of what a build makes, as long as it is undisturbed: what *)
(* the builder saw is no older than any request it covers, the library it  *)
(* is about to index and the rows it collected are what it saw, and        *)
(* whatever number `done` covers was asked no later than `result`.         *)

Scanned == {"library", "index", "replace", "finish"}

\* No version is in the future.
Past ==
  /\ library <= disk /\ result <= disk
  /\ \A p \in Procs : saw[p] <= disk /\ rows[p] <= disk
  /\ \A c \in Callers : since[c] <= disk /\ answer[c] <= disk

\* What the builder has in its hands.
Fresh ==
  \A c \in Callers :
     /\ pc[c] \in Scanned =>
          /\ result <= saw[c]
          /\ \A d \in Callers : mine[d] <= upto[c] => since[d] <= saw[c]
     /\ pc[c] = "index" => library = saw[c]
     /\ pc[c] \in {"replace", "finish"} => rows[c] = saw[c]

\* What the counter file promises to those who read it.
Covers ==
  \A c \in Callers :
     /\ mine[c] <= done => since[c] <= result
     /\ pc[c] = "leave" => mine[c] <= done
     /\ pc[c] = "served" => since[c] <= answer[c]

LEMMA PastInit == Init => Past /\ Fresh /\ Covers
  BY DEF Init, Past, Fresh, Covers, Scanned, Procs

LEMMA PastStep == TypeOK /\ Past /\ [Next]_vars => Past'
<1> SUFFICES ASSUME TypeOK, Past, [Next]_vars PROVE Past'
  OBVIOUS
<1> USE DEF TypeOK, Over, Aside, GoTo, queue, files, local, ghost, Building,
            Holding, Past, Procs
<1>1. CASE Change
  BY <1>1 DEF Change
<1>2. ASSUME NEW c \in Callers, Ask(c) PROVE Past'
  BY <1>2 DEF Ask
<1>3. ASSUME NEW c \in Callers, Look(c) PROVE Past'
  BY <1>3 DEF Look, Covered
<1>4. ASSUME NEW c \in Callers, Try(c) PROVE Past'
  BY <1>4 DEF Try
<1>5. ASSUME NEW c \in Callers, Again(c) PROVE Past'
  BY <1>5 DEF Again, Covered
<1>6. ASSUME NEW c \in Callers, Finish(c) PROVE Past'
  BY <1>6 DEF Finish
<1>7. ASSUME NEW c \in Callers, Leave(c) PROVE Past'
  BY <1>7 DEF Leave
<1>8. ASSUME NEW c \in Callers, GiveUp(c) PROVE Past'
  BY <1>8 DEF GiveUp, Spend
<1>9. ASSUME NEW p \in Procs, Begin(p) PROVE Past'
  BY <1>9 DEF Begin
<1>10. ASSUME NEW p \in Procs, Scan(p) PROVE Past'
  BY <1>10 DEF Scan
<1>11. ASSUME NEW p \in Procs, WriteLibrary(p) PROVE Past'
  BY <1>11 DEF WriteLibrary, Wrote
<1>12. ASSUME NEW p \in Procs, CollectRows(p) PROVE Past'
  BY <1>12 DEF CollectRows
<1>13. ASSUME NEW p \in Procs, Replace(p) PROVE Past'
  BY <1>13 DEF Replace, Wrote
<1>14. ASSUME NEW p \in Procs, Stop(p) PROVE Past'
  BY <1>14 DEF Stop, Spend
<1>15. CASE UNCHANGED vars
  BY <1>15 DEF vars
<1> QED
  BY <1>1, <1>2, <1>3, <1>4, <1>5, <1>6, <1>7, <1>8, <1>9, <1>10, <1>11,
     <1>12, <1>13, <1>14, <1>15
  DEF Next, CallStep, BuildStep

LEMMA FreshStep ==
  TypeOK /\ LockInv /\ CountInv /\ Past /\ Fresh /\ [Next]_vars /\ [Undisturbed]_vars
    => Fresh'
<1> SUFFICES ASSUME TypeOK, LockInv, CountInv, Past, Fresh, [Next]_vars,
                    [Undisturbed]_vars
             PROVE Fresh'
  OBVIOUS
<1> USE DEF TypeOK, Over, Aside, GoTo, queue, files, local, ghost, Building,
            Holding, LockInv, CountInv, Numbers, Past, Fresh, Scanned, Procs
<1>1. CASE Change
  BY <1>1 DEF Change
<1>2. ASSUME NEW c \in Callers, Ask(c) PROVE Fresh'
  BY <1>2 DEF Ask
<1>3. ASSUME NEW c \in Callers, Look(c) PROVE Fresh'
  BY <1>3 DEF Look, Covered
<1>4. ASSUME NEW c \in Callers, Try(c) PROVE Fresh'
  BY <1>4, Roles DEF Try
<1>5. ASSUME NEW c \in Callers, Again(c) PROVE Fresh'
  BY <1>5 DEF Again, Covered
<1>6. ASSUME NEW c \in Callers, Finish(c) PROVE Fresh'
  BY <1>6 DEF Finish
<1>7. ASSUME NEW c \in Callers, Leave(c) PROVE Fresh'
  BY <1>7 DEF Leave
<1>8. ASSUME NEW c \in Callers, GiveUp(c) PROVE Fresh'
  BY <1>8 DEF GiveUp, Spend
<1>9. ASSUME NEW p \in Procs, Begin(p) PROVE Fresh'
  BY <1>9, Roles DEF Begin
<1>10. ASSUME NEW p \in Procs, Scan(p) PROVE Fresh'
  BY <1>10, Roles DEF Scan
<1>11. ASSUME NEW p \in Procs, WriteLibrary(p) PROVE Fresh'
  <2>1. CASE p \in Callers
    BY <1>11, <2>1 DEF WriteLibrary
  <2>2. CASE p \in Wide
    <3>1. \A c \in Callers : pc[c] # "index"
      BY <1>11, <2>2 DEF Undisturbed, WriteLibrary, vars
    <3> QED
      BY <1>11, <2>2, <3>1, Roles DEF WriteLibrary
  <2>3. CASE p \in Narrow
    BY <1>11, <2>3, Roles DEF WriteLibrary
  <2> QED
    BY <2>1, <2>2, <2>3
<1>12. ASSUME NEW p \in Procs, CollectRows(p) PROVE Fresh'
  BY <1>12, Roles DEF CollectRows
<1>13. ASSUME NEW p \in Procs, Replace(p) PROVE Fresh'
  BY <1>13, Roles DEF Replace
<1>14. ASSUME NEW p \in Procs, Stop(p) PROVE Fresh'
  BY <1>14, Roles DEF Stop, Spend
<1>15. CASE UNCHANGED vars
  BY <1>15 DEF vars
<1> QED
  BY <1>1, <1>2, <1>3, <1>4, <1>5, <1>6, <1>7, <1>8, <1>9, <1>10, <1>11,
     <1>12, <1>13, <1>14, <1>15
  DEF Next, CallStep, BuildStep

LEMMA CoversStep ==
  TypeOK /\ LockInv /\ CountInv /\ Past /\ Fresh /\ Covers /\ [Next]_vars => Covers'
<1> SUFFICES ASSUME TypeOK, LockInv, CountInv, Past, Fresh, Covers, [Next]_vars
             PROVE Covers'
  OBVIOUS
<1> USE DEF TypeOK, Over, Aside, GoTo, queue, files, local, ghost, Building,
            Holding, LockInv, CountInv, Numbers, Heard,
            Past, Fresh, Covers, Scanned, Procs
<1>1. CASE Change
  BY <1>1 DEF Change
<1>2. ASSUME NEW c \in Callers, Ask(c) PROVE Covers'
  BY <1>2 DEF Ask
<1>3. ASSUME NEW c \in Callers, Look(c) PROVE Covers'
  BY <1>3 DEF Look, Covered
<1>4. ASSUME NEW c \in Callers, Try(c) PROVE Covers'
  BY <1>4, Roles DEF Try
<1>5. ASSUME NEW c \in Callers, Again(c) PROVE Covers'
  BY <1>5 DEF Again, Covered
<1>6. ASSUME NEW c \in Callers, Finish(c) PROVE Covers'
  BY <1>6 DEF Finish
<1>7. ASSUME NEW c \in Callers, Leave(c) PROVE Covers'
  BY <1>7 DEF Leave
<1>8. ASSUME NEW c \in Callers, GiveUp(c) PROVE Covers'
  BY <1>8 DEF GiveUp, Spend
<1>9. ASSUME NEW p \in Procs, Begin(p) PROVE Covers'
  BY <1>9, Roles DEF Begin
<1>10. ASSUME NEW p \in Procs, Scan(p) PROVE Covers'
  BY <1>10, Roles DEF Scan
<1>11. ASSUME NEW p \in Procs, WriteLibrary(p) PROVE Covers'
  BY <1>11, Roles DEF WriteLibrary
<1>12. ASSUME NEW p \in Procs, CollectRows(p) PROVE Covers'
  BY <1>12, Roles DEF CollectRows
<1>13. ASSUME NEW p \in Procs, Replace(p) PROVE Covers'
  BY <1>13, Roles DEF Replace
<1>14. ASSUME NEW p \in Procs, Stop(p) PROVE Covers'
  BY <1>14, Roles DEF Stop, Spend
<1>15. CASE UNCHANGED vars
  BY <1>15 DEF vars
<1> QED
  BY <1>1, <1>2, <1>3, <1>4, <1>5, <1>6, <1>7, <1>8, <1>9, <1>10, <1>11,
     <1>12, <1>13, <1>14, <1>15
  DEF Next, CallStep, BuildStep

\* The inductive invariant of the calls.
CallInv == TypeOK /\ LockInv /\ CountInv /\ Past /\ Fresh /\ Covers

LEMMA CallsInvariant == Spec /\ [][Undisturbed]_vars => []CallInv
<1>1. Init => CallInv
  BY TypeInit, LockInit, CountInit, PastInit DEF CallInv
<1>2. CallInv /\ [Next]_vars /\ [Undisturbed]_vars => CallInv'
  BY TypeStep, LockStep, CountStep, PastStep, FreshStep, CoversStep DEF CallInv
<1> QED
  BY <1>1, <1>2, PTL DEF Spec

\* The summary rebuild() returns is no older than the request, with any number
\* of builds beside it, kills and failures, unless one of those builds puts its
\* library in between.
THEOREM SummaryIsFresh == Spec /\ [][Undisturbed]_vars => []FreshSummary
<1>1. CallInv => FreshSummary
  BY DEF CallInv, TypeOK, Covers, FreshSummary
<1> QED
  BY <1>1, CallsInvariant, PTL

-----------------------------------------------------------------------------
(* Rebuild implements FreshAnswers: every step of a call, of a build or of *)
(* the disk is a step of the promise or none.                              *)

PVars == <<disk, Status, since, answer>>

LEMMA PromiseInit == Init => Promise!Init
  BY Roles DEF Init, Promise!Init, Status, Over, Procs

LEMMA PromiseStep == CallInv /\ [Next]_vars => [Promise!Next]_PVars
<1> SUFFICES ASSUME CallInv, [Next]_vars PROVE [Promise!Next]_PVars
  OBVIOUS
<1> USE DEF CallInv, TypeOK, Over, GoTo, queue, files, local, ghost, Status,
            PVars, Procs
<1>1. CASE Change
  BY <1>1 DEF Change, Promise!Next, Promise!Change
<1>2. ASSUME NEW c \in Callers, Ask(c) PROVE Promise!Ask(c)
  BY <1>2 DEF Ask, Promise!Ask
<1>3. ASSUME NEW c \in Callers, Look(c) PROVE Promise!Serve(c) \/ UNCHANGED PVars
  <2>1. CASE Covered(c)
    <3>1. since[c] <= result /\ result <= disk
      BY <2>1 DEF Covered, Covers, Past
    <3>2. result \in since[c]..disk
      BY <3>1
    <3> QED
      BY <1>3, <2>1, <3>2 DEF Look, Promise!Serve
  <2>2. CASE ~Covered(c)
    BY <1>3, <2>2 DEF Look
  <2> QED
    BY <2>1, <2>2
<1>4. ASSUME NEW c \in Callers, Leave(c) PROVE Promise!Serve(c)
  <2>1. since[c] <= result /\ result <= disk
    BY <1>4 DEF Leave, Covers, Past
  <2>2. result \in since[c]..disk
    BY <2>1
  <2> QED
    BY <1>4, <2>2 DEF Leave, Promise!Serve
<1>5. ASSUME NEW c \in Callers, GiveUp(c) PROVE Promise!GiveUp(c)
  BY <1>5 DEF GiveUp, Promise!GiveUp
<1>6. ASSUME NEW c \in Callers, Try(c) \/ Again(c) \/ Finish(c)
      PROVE UNCHANGED PVars
  BY <1>6 DEF Try, Again, Finish
<1>7. ASSUME NEW p \in Procs, Begin(p) PROVE UNCHANGED PVars
  BY <1>7, Roles DEF Begin
<1>8. ASSUME NEW p \in Procs, BuildStep(p) PROVE UNCHANGED PVars
  BY <1>8, Roles DEF BuildStep, Scan, WriteLibrary, CollectRows, Replace
<1>9. ASSUME NEW p \in Procs, Stop(p)
      PROVE (p \in Callers /\ Promise!GiveUp(p)) \/ UNCHANGED PVars
  <2>1. CASE p \in Callers
    BY <1>9, <2>1 DEF Stop, Promise!GiveUp
  <2>2. CASE p \notin Callers
    BY <1>9, <2>2 DEF Stop
  <2> QED
    BY <2>1, <2>2
<1>10. CASE UNCHANGED vars
  BY <1>10 DEF vars
<1> HIDE DEF PVars, Status
<1> QED
  BY <1>1, <1>2, <1>3, <1>4, <1>5, <1>6, <1>7, <1>8, <1>9, <1>10
  DEF Next, CallStep, Promise!Next

\* rebuild() keeps its promise: an answer describes the disk as it was between
\* the request and the answer, though other processes' builds are shared.
THEOREM RebuildImplements == Spec /\ [][Undisturbed]_vars => Implements
<1>1. CallInv /\ [Next]_vars => [Promise!Next]_(Promise!vars)
  BY PromiseStep DEF PVars, Promise!vars
<1> QED
  BY PromiseInit, <1>1, CallsInvariant, PTL DEF Spec, Implements, Promise!Spec

-----------------------------------------------------------------------------
(* The registry file, as long as no build without build.lock has written a *)
(* file: then nothing has disturbed a build under it either, and no        *)
(* hypothesis is needed, whatever such builds have begun.                  *)

RegistryInv ==
  /\ registry <= disk
  /\ result <= registry
  /\ \A c \in Callers :
       /\ pc[c] \in Scanned => registry <= saw[c]
       /\ pc[c] = "finish" => registry = saw[c]

QuietInv == ~aside => Fresh /\ Covers /\ RegistryInv

LEMMA QuietInit == Init => QuietInv
  BY PastInit, Roles DEF Init, QuietInv, RegistryInv, Scanned, Procs

\* A step after which nothing is noted has put no library under anybody.
LEMMA QuietIsUndisturbed == ~aside' => Undisturbed
  BY Roles DEF Undisturbed, WriteLibrary, Wrote

LEMMA RegistryStep ==
  CallInv /\ RegistryInv /\ [Next]_vars /\ ~aside' => RegistryInv'
<1> SUFFICES ASSUME CallInv, RegistryInv, [Next]_vars, ~aside' PROVE RegistryInv'
  OBVIOUS
<1> USE DEF CallInv, TypeOK, Over, Aside, GoTo, queue, files, local, ghost,
            Building, Holding, LockInv, Past, Fresh, RegistryInv, Scanned, Procs
<1>1. CASE Change
  BY <1>1 DEF Change
<1>2. ASSUME NEW c \in Callers, Ask(c) PROVE RegistryInv'
  BY <1>2 DEF Ask
<1>3. ASSUME NEW c \in Callers, Look(c) PROVE RegistryInv'
  BY <1>3 DEF Look, Covered
<1>4. ASSUME NEW c \in Callers, Try(c) PROVE RegistryInv'
  BY <1>4, Roles DEF Try
<1>5. ASSUME NEW c \in Callers, Again(c) PROVE RegistryInv'
  BY <1>5 DEF Again, Covered
<1>6. ASSUME NEW c \in Callers, Finish(c) PROVE RegistryInv'
  BY <1>6 DEF Finish
<1>7. ASSUME NEW c \in Callers, Leave(c) PROVE RegistryInv'
  BY <1>7 DEF Leave
<1>8. ASSUME NEW c \in Callers, GiveUp(c) PROVE RegistryInv'
  BY <1>8 DEF GiveUp, Spend
<1>9. ASSUME NEW p \in Procs, Begin(p) PROVE RegistryInv'
  BY <1>9, Roles DEF Begin
<1>10. ASSUME NEW p \in Procs, Scan(p) PROVE RegistryInv'
  BY <1>10, Roles DEF Scan
<1>11. ASSUME NEW p \in Procs, WriteLibrary(p) PROVE RegistryInv'
  BY <1>11, Roles DEF WriteLibrary, Wrote
<1>12. ASSUME NEW p \in Procs, CollectRows(p) PROVE RegistryInv'
  BY <1>12, Roles DEF CollectRows
<1>13. ASSUME NEW p \in Procs, Replace(p) PROVE RegistryInv'
  <2>1. p \in Callers
    BY <1>13 DEF Replace, Wrote
  <2>2. \A c \in Callers \ {p} : pc'[c] \notin Scanned
    BY <1>13, <2>1 DEF Replace
  <2> QED
    BY <1>13, <2>1, <2>2 DEF Replace
<1>14. ASSUME NEW p \in Procs, Stop(p) PROVE RegistryInv'
  BY <1>14, Roles DEF Stop, Spend
<1>15. CASE UNCHANGED vars
  BY <1>15 DEF vars
<1> QED
  BY <1>1, <1>2, <1>3, <1>4, <1>5, <1>6, <1>7, <1>8, <1>9, <1>10, <1>11,
     <1>12, <1>13, <1>14, <1>15
  DEF Next, CallStep, BuildStep

\* What a build without build.lock has written stays noted.
LEMMA AsideStays == [Next]_vars /\ ~aside' => ~aside
  BY DEF Next, vars, CallStep, BuildStep, Change, Ask, Look, Try, Again, Finish,
         Leave, GiveUp, Begin, Scan, WriteLibrary, Wrote, CollectRows, Replace, Stop

\* What holds whoever builds, and what holds until somebody has written aside.
RegInv == TypeOK /\ LockInv /\ CountInv /\ Past /\ QuietInv

LEMMA RegistryInvariant == Spec => []RegInv
<1>1. Init => RegInv
  BY TypeInit, LockInit, CountInit, PastInit, QuietInit DEF RegInv
<1>2. RegInv /\ [Next]_vars => RegInv'
  <2> SUFFICES ASSUME RegInv, [Next]_vars PROVE RegInv'
    OBVIOUS
  <2>1. TypeOK' /\ LockInv' /\ CountInv' /\ Past'
    BY TypeStep, LockStep, CountStep, PastStep DEF RegInv
  <2>2. ASSUME ~aside' PROVE (Fresh /\ Covers /\ RegistryInv)'
    <3>1. CallInv /\ RegistryInv
      BY <2>2, AsideStays DEF RegInv, QuietInv, CallInv
    <3>2. [Undisturbed]_vars
      BY <2>2, QuietIsUndisturbed
    <3>3. Fresh' /\ Covers'
      BY <3>1, <3>2, FreshStep, CoversStep DEF CallInv
    <3>4. RegistryInv'
      BY <2>2, <3>1, RegistryStep
    <3> QED
      BY <3>3, <3>4
  <2> QED
    BY <2>1, <2>2 DEF RegInv, QuietInv
<1> QED
  BY <1>1, <1>2, PTL DEF Spec

\* The registry file never goes back to an older disk, until a build without
\* build.lock writes the library or the registry.
THEOREM RegistryMovesOn == Spec => NoStepBack
<1>1. RegInv /\ [Next]_vars => [~aside' => registry' >= registry]_registry
  <2> SUFFICES ASSUME RegInv, Next, registry' # registry, ~aside'
               PROVE registry' >= registry
    BY DEF vars
  <2>1. PICK p \in Procs : Replace(p)
    BY DEF Next, CallStep, BuildStep, Change, Ask, Look, Try, Again, Finish, Leave,
           GiveUp, Begin, Scan, WriteLibrary, CollectRows, Stop, files
  <2>2. Fresh /\ RegistryInv /\ TypeOK
    BY AsideStays DEF RegInv, QuietInv
  <2>3. p \in Callers
    BY <2>1 DEF Replace, Wrote
  <2>4. registry <= saw[p] /\ registry' = saw[p]
    BY <2>1, <2>2, <2>3 DEF Replace, Fresh, RegistryInv, Scanned
  <2> QED
    BY <2>2, <2>3, <2>4 DEF TypeOK
<1> QED
  BY <1>1, RegistryInvariant, PTL DEF Spec, NoStepBack

\* When rebuild() returns, the registry it leaves on the disk is no older than
\* the request, until a build without build.lock writes the library or the registry.
THEOREM RegistryIsFresh == Spec => FreshRegistry
<1> DEFINE Served == ~aside => \A c \in Callers :
             pc[c] # "served" /\ pc'[c] = "served" => registry >= since[c]
<1>1. RegInv /\ [Next]_vars => [Served]_vars
  <2> SUFFICES ASSUME RegInv, Next, ~aside,
                      NEW c \in Callers, pc[c] # "served", pc'[c] = "served"
               PROVE registry >= since[c]
    OBVIOUS
  <2>1. TypeOK /\ Covers /\ RegistryInv
    BY DEF RegInv, QuietInv
  <2>2. mine[c] <= done
    <3>1. (Look(c) /\ Covered(c)) \/ Leave(c)
      BY <2>1, Roles
      DEF Next, CallStep, BuildStep, Change, Ask, Look, Try, Again, Finish, Leave,
          GiveUp, Begin, Scan, WriteLibrary, CollectRows, Replace, Stop, GoTo,
          TypeOK, Procs
    <3> QED
      BY <2>1, <3>1 DEF Look, Covered, Leave, Covers, TypeOK
  <2>3. since[c] <= result /\ result <= registry
    BY <2>1, <2>2 DEF Covers, RegistryInv
  <2> QED
    BY <2>1, <2>3 DEF TypeOK
<1> QED
  BY <1>1, RegistryInvariant, PTL DEF Spec, FreshRegistry

=============================================================================
