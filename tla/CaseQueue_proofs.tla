--------------------------- MODULE CaseQueue_proofs ---------------------------
(***************************************************************************)
(* What TLAPS proves of CaseQueue for every number of cases, records,      *)
(* runners, commands and stages.                                           *)
(***************************************************************************)
EXTENDS CaseQueue, TLAPS

-----------------------------------------------------------------------------
(* Facts about the operators the actions are built from.                   *)

\* state.settle keeps a record a record, of the same case and with the same
\* attempts.
LEMMA SettledItem ==
  ASSUME NEW it \in Item, NEW st \in States, NEW n \in 0..NStages
  PROVE  /\ Settled(it, st, n) \in Item
         /\ Settled(it, st, n).id = it.id
         /\ Settled(it, st, n).state = st
         /\ Settled(it, st, n).stage = n
         /\ Settled(it, st, n).tries = it.tries
         /\ Settled(it, st, n).due = FALSE
  BY DEF Settled, Item

LEMMA ItemFields ==
  ASSUME NEW it \in Item
  PROVE  /\ it.id \in Cases \cup {NoCase}
         /\ it.state \in States
         /\ it.stage \in 0..NStages
         /\ it.tries \in [Stages -> Nat]
         /\ it.due \in BOOLEAN
  BY DEF Item

\* What the other edits make of a record.
LEMMA AgainItem ==
  ASSUME NEW it \in Item
  PROVE  /\ Again(it) \in Item
         /\ Again(it).id = it.id
         /\ Again(it).state = QUEUED
         /\ Again(it).tries = NoTries
  <1>1. QUEUED \in States /\ NoTries \in [Stages -> Nat]
      BY DEF States, LIVE, NoTries
  <1>2. Settled(it, QUEUED, it.stage) \in Item
      BY <1>1, ItemFields, SettledItem
  <1>3. Settled(it, QUEUED, it.stage).id = it.id /\ Settled(it, QUEUED, it.stage).state = QUEUED
      BY <1>1, ItemFields, SettledItem
  <1>4. QED
      BY <1>1, <1>2, <1>3 DEF Again, Item

LEMMA PostponedItem ==
  ASSUME NEW it \in Item, NEW n \in 0..NStages, NEW tr \in [Stages -> Nat],
         NEW now \in BOOLEAN
  PROVE  /\ Postponed(it, n, tr, now) \in Item
         /\ Postponed(it, n, tr, now).id = it.id
         /\ Postponed(it, n, tr, now).state = RETRY
         /\ Postponed(it, n, tr, now).tries = tr
  <1>1. RETRY \in States
      BY DEF States, LIVE
  <1>2. /\ Settled(it, RETRY, n) \in Item
        /\ Settled(it, RETRY, n).id = it.id
        /\ Settled(it, RETRY, n).state = RETRY
      BY <1>1, SettledItem
  <1>3. QED
      BY <1>2 DEF Postponed, Item

LEMMA CompletedItem ==
  ASSUME NEW it \in Item
  PROVE  /\ Completed(it) \in Item
         /\ Completed(it).id = it.id
         /\ Completed(it).state = DONE
         /\ Completed(it).tries = NoTries
  <1>1. DONE \in States /\ 0 \in 0..NStages /\ NoTries \in [Stages -> Nat]
      BY Sizes DEF States, NoTries
  <1>2. /\ Settled(it, DONE, 0) \in Item
        /\ Settled(it, DONE, 0).id = it.id
        /\ Settled(it, DONE, 0).state = DONE
      BY <1>1, SettledItem
  <1>3. QED
      BY <1>1, <1>2 DEF Completed, Item

\* Putting a record before or after the others keeps the file a list of slots.
LEMMA OrderGrows ==
  ASSUME NEW q \in Seq(Slots), NEW s \in Slots
  PROVE  /\ Append(q, s) \in Seq(Slots)
         /\ <<s>> \o q \in Seq(Slots)
  OBVIOUS

LEMMA StagesNat == Stages \subseteq Nat \ {0} /\ 1 \in Stages /\ NStages \in Stages
                   /\ Stages \subseteq 0..NStages /\ NoTries \in [Stages -> Nat]
  BY Sizes DEF Stages, NoTries

LEMMA NewItemIsItem ==
  ASSUME NEW c \in Cases \cup {NoCase}
  PROVE  NewItem(c) \in Item /\ [NewItem(c) EXCEPT !.state = ABSENT] \in Item
  <1>1. QUEUED \in States /\ ABSENT \in States /\ 0 \in 0..NStages
      BY Sizes DEF States, LIVE
  <1>2. NewItem(c) \in Item
      BY <1>1, StagesNat DEF NewItem, Item
  <1>3. [NewItem(c) EXCEPT !.state = ABSENT] \in Item
      BY <1>1, <1>2 DEF Item
  <1>4. QED
      BY <1>2, <1>3

-----------------------------------------------------------------------------
(* The type invariant.                                                     *)

LEMMA TypeInit == Init => TypeOK
  <1> SUFFICES ASSUME Init PROVE TypeOK
      OBVIOUS
  <1>1. order \in Seq(Slots)
      BY DEF Init
  <1>2. stop \in StopFlags /\ disk \subseteq (Cases \cup {NoCase}) \X Stages
      BY DEF Init, StopFlags
  <1>3. item \in [Slots -> Item]
      BY NewItemIsItem DEF Init
  <1>4. runLock \in Runners \cup Tools \cup {NoOne} /\ ops \in 0..MaxOps
      BY Sizes DEF Init
  <1>5. pc \in [Runners -> Places] /\ out \in [Runners -> Outcomes]
      BY DEF Init, Places, Outcomes
  <1>6. /\ cur \in [Runners -> Cases \cup {NoCase}]
        /\ fixed \in [Runners -> SUBSET (Cases \cup {NoCase})]
      BY DEF Init
  <1>7. at \in [Runners -> Stages] /\ tried \in [Runners -> [Stages -> Nat]]
      BY StagesNat DEF Init
  <1>8. /\ adding \in [Adders -> Cases \cup {NoCase}]
        /\ tool \in [Tools -> {"idle", "holding", "alive", "asking", "clear"}]
        /\ aim \in [Tools -> Cases \cup {NoCase}]
        /\ revoked \subseteq Cases \X Stages
      BY DEF Init
  <1>9. QED
      BY <1>1, <1>2, <1>3, <1>4, <1>5, <1>6, <1>7, <1>8 DEF TypeOK

\* One edit of one record by a runner.
LEMMA SettleType ==
  ASSUME TypeOK, NEW r \in Runners, NEW st \in States, NEW n \in 0..NStages,
         NEW where \in Places, Settle(r, st, n, where)
  PROVE  item' \in [Slots -> Item] /\ pc' \in [Runners -> Places]
  <1>1. CASE \E s \in Slots : /\ item' = [item EXCEPT ![s] = Settled(item[s], st, n)]
                              /\ GoTo(r, where)
      <2>1. PICK s \in Slots : /\ item' = [item EXCEPT ![s] = Settled(item[s], st, n)]
                               /\ GoTo(r, where)
          BY <1>1
      <2>2. Settled(item[s], st, n) \in Item
          BY SettledItem DEF TypeOK
      <2>3. QED
          BY <2>1, <2>2 DEF TypeOK, GoTo
  <1>2. CASE GoTo(r, "fail") /\ UNCHANGED item
      BY <1>2 DEF TypeOK, GoTo, Places
  <1>3. QED
      BY <1>1, <1>2 DEF Settle

LEMMA Constants ==
  /\ QUEUED \in States /\ RUNNING \in States /\ RETRY \in States
  /\ BLOCKED \in States /\ FAILED \in States /\ DONE \in States
  /\ DROPPED \in States /\ ABSENT \in States
  /\ "fail" \in Places /\ "loop" \in Places /\ "finish" \in Places
  /\ \A r \in Runners : AfterCase(r) \in Places
  BY DEF States, LIVE, WAITING, AfterCase, Places

LEMMA CountedNat ==
  ASSUME TypeOK, NEW r \in Runners
  PROVE  /\ Counted(r) \in Nat
         /\ Counted(r) <= tried[r][at[r]] + 1
  <1>1. tried[r] \in [Stages -> Nat] /\ at[r] \in Stages
      BY DEF TypeOK
  <1>2. tried[r][at[r]] \in Nat
      BY <1>1
  <1>3. CASE out[r] = "patient"
      BY <1>2, <1>3 DEF Counted
  <1>4. CASE out[r] # "patient"
      BY <1>2, <1>4 DEF Counted
  <1>5. QED
      BY <1>3, <1>4

\* One operation of the bound is spent.
LEMMA SpendType == ASSUME TypeOK, Spend PROVE ops' \in 0..MaxOps
  BY Sizes DEF TypeOK, Spend

\* The index of the stage stays on the list of stages.
LEMMA NextStageType ==
  ASSUME TypeOK, NEW r \in Runners, NextStage(r)
  PROVE  at' \in [Runners -> Stages] /\ pc' \in [Runners -> Places]
  <1>1. at[r] \in Nat /\ at[r] >= 1 /\ at[r] <= NStages
      BY Sizes DEF TypeOK, Stages
  <1>2. (IF at[r] < NStages THEN at[r] + 1 ELSE at[r]) \in Stages
      BY <1>1, Sizes DEF Stages
  <1>3. QED
      BY <1>2 DEF NextStage, GoTo, TypeOK, Places

LEMMA RunnerType ==
  ASSUME TypeOK, NEW r \in Runners, RunnerStep(r)
  PROVE  TypeOK'
  <1> USE StagesNat, Constants DEF file, local, people
  <1>1. CASE Refused(r)
      BY <1>1 DEF TypeOK, Refused, GoTo, Places
  <1>2. CASE Heal(r)
      <2>1. item' \in [Slots -> Item]
          <3>1. \A s \in Slots : Settled(item[s], QUEUED, item[s].stage) \in Item
              BY SettledItem, ItemFields DEF TypeOK
          <3>2. QED
              BY <1>2, <3>1 DEF TypeOK, Heal
      <2>2. QED
          BY <1>2, <2>1 DEF TypeOK, Heal, GoTo, Places, StopFlags
  <1>3. CASE Rejudge(r)
      <2>1. fixed' \in [Runners -> SUBSET (Cases \cup {NoCase})]
          <3>1. \A s \in Slots : item[s].id \in Cases \cup {NoCase}
              BY ItemFields DEF TypeOK
          <3> DEFINE repaired == {item[s].id : s \in {x \in Slots :
                                    /\ item[x].state = BLOCKED
                                    /\ <<item[x].id, item[x].stage>> \in disk}}
          <3>2. repaired \in SUBSET (Cases \cup {NoCase})
              BY <3>1
          <3>3. fixed' = [fixed EXCEPT ![r] = repaired]
              BY <1>3 DEF Rejudge
          <3>4. QED
              BY <3>2, <3>3 DEF TypeOK
      <2>2. QED
          BY <1>3, <2>1 DEF TypeOK, Rejudge, GoTo, Places
  <1>4. CASE Requeue(r)
      <2>1. item' \in [Slots -> Item]
          <3>1. \A s \in Slots : Again(item[s]) \in Item
              BY AgainItem DEF TypeOK
          <3>2. QED
              BY <1>4, <3>1 DEF TypeOK, Requeue
      <2>2. QED
          BY <1>4, <2>1 DEF TypeOK, Requeue, GoTo, Places
  <1>5. CASE Pick(r)
      <2>1. cur' \in [Runners -> Cases \cup {NoCase}] /\ tried' \in [Runners -> [Stages -> Nat]]
          BY <1>5 DEF TypeOK, Pick, Item
      <2>2. QED
          BY <1>5, <2>1 DEF TypeOK, Pick, GoTo, Places
  <1>6. CASE Exhausted(r)
      BY <1>6 DEF TypeOK, Exhausted, GoTo, Places
  <1>7. CASE CheckFlag(r)
      BY <1>7 DEF TypeOK, CheckFlag, GoTo, Places
  <1>8. CASE Halt(r)
      <2>1. at[r] \in 0..NStages
          BY DEF TypeOK
      <2>2. item' \in [Slots -> Item] /\ pc' \in [Runners -> Places]
          BY <1>8, <2>1, SettleType DEF Halt
      <2>3. QED
          BY <1>8, <2>2 DEF TypeOK, Halt
  <1>9. CASE Judge(r)
      <2>1. CASE <<cur[r], at[r]>> \in disk
          <3>1. at' \in [Runners -> Stages] /\ pc' \in [Runners -> Places]
              BY <1>9, <2>1, NextStageType DEF Judge
          <3>2. QED
              BY <1>9, <3>1 DEF TypeOK, Judge
      <2>2. CASE <<cur[r], at[r]>> \notin disk
          BY <1>9, <2>2 DEF TypeOK, Judge, GoTo, Places
      <2>3. QED
          BY <2>1, <2>2
  <1>10. CASE Mark(r)
      <2>1. item' \in [Slots -> Item] /\ tried' \in [Runners -> [Stages -> Nat]]
          <3>1. \A s \in Slots : Settled(item[s], RUNNING, at[r]) \in Item
              BY SettledItem DEF TypeOK
          <3>2. \/ \E s \in Slots :
                      /\ item' = [item EXCEPT ![s] = Settled(item[s], RUNNING, at[r])]
                      /\ tried' = [tried EXCEPT ![r] = item[s].tries]
                \/ UNCHANGED <<item, tried>>
              BY <1>10 DEF Mark
          <3>3. item' \in [Slots -> Item]
              <4>1. CASE UNCHANGED <<item, tried>>
                  BY <4>1 DEF TypeOK
              <4>2. CASE \E s \in Slots :
                           item' = [item EXCEPT ![s] = Settled(item[s], RUNNING, at[r])]
                  BY <3>1, <4>2 DEF TypeOK
              <4>3. QED
                  BY <3>2, <4>1, <4>2
          <3>4. \A s \in Slots : item[s].tries \in [Stages -> Nat]
              BY ItemFields DEF TypeOK
          <3>5. tried' \in [Runners -> [Stages -> Nat]]
              BY <3>2, <3>4 DEF TypeOK
          <3>6. QED
              BY <3>3, <3>5
      <2>2. QED
          BY <1>10, <2>1 DEF TypeOK, Mark, GoTo, Places
  <1>11. CASE RunStage(r)
      <2>1. disk' \subseteq (Cases \cup {NoCase}) \X Stages
          BY <1>11 DEF TypeOK, RunStage
      <2>2. out' \in [Runners -> Outcomes] /\ ops' \in 0..MaxOps
          BY <1>11, Sizes DEF TypeOK, RunStage, Spend
      <2>3. QED
          BY <1>11, <2>1, <2>2 DEF TypeOK, RunStage, GoTo, Places
  <1>12. CASE SettleOutcome(r)
      <2>1. at[r] \in 0..NStages
          BY DEF TypeOK
      <2>2. item' \in [Slots -> Item] /\ pc' \in [Runners -> Places]
          BY <1>12, <2>1, SettleType DEF SettleOutcome, Places
      <2>3. QED
          BY <1>12, <2>2 DEF TypeOK, SettleOutcome, Outcomes
  <1>13. CASE SettleRetry(r)
      <2>1. at[r] \in 0..NStages
          BY DEF TypeOK
      <2>2. item' \in [Slots -> Item] /\ pc' \in [Runners -> Places]
          <3>1. CASE TooMany(r)
              BY <1>13, <2>1, <3>1, SettleType DEF SettleRetry
          <3>2. CASE ~TooMany(r)
              <4>1. Counted(r) \in Nat
                  BY CountedNat
              <4> DEFINE tr == [tried[r] EXCEPT ![at[r]] = Counted(r)]
                         now == (out[r] = "again")
              <4>2. tr \in [Stages -> Nat] /\ now \in BOOLEAN
                  BY <4>1 DEF TypeOK
              <4>3. \A s \in Slots : Postponed(item[s], at[r], tr, now) \in Item
                  <5> HIDE DEF tr, now
                  <5>1. QED
                      BY <2>1, <4>2, PostponedItem DEF TypeOK
              <4>4. item' \in [Slots -> Item]
                  <5>1. \/ \E s \in Slots : item' = [item EXCEPT ![s] = Postponed(item[s], at[r], tr, now)]
                        \/ UNCHANGED item
                      BY <1>13, <3>2 DEF SettleRetry
                  <5>2. QED
                      <6> HIDE DEF tr, now
                      <6>1. QED
                          BY <4>3, <5>1 DEF TypeOK
              <4>5. pc' \in [Runners -> Places]
                  BY <1>13, <3>2 DEF TypeOK, SettleRetry, GoTo
              <4>6. QED
                  BY <4>4, <4>5
          <3>3. QED
              BY <3>1, <3>2
      <2>3. QED
          BY <1>13, <2>2 DEF TypeOK, SettleRetry, Outcomes
  <1>14. CASE Confirm(r)
      <2>1. at[r] \in 0..NStages
          BY DEF TypeOK
      <2>2. CASE <<cur[r], at[r]>> \in disk
          <3>1. at' \in [Runners -> Stages] /\ pc' \in [Runners -> Places]
              BY <1>14, <2>2, NextStageType DEF Confirm
          <3>2. QED
              BY <1>14, <2>2, <3>1 DEF TypeOK, Confirm
      <2>3. CASE <<cur[r], at[r]>> \notin disk
          <3>1. item' \in [Slots -> Item] /\ pc' \in [Runners -> Places]
              BY <1>14, <2>1, <2>3, SettleType DEF Confirm
          <3>2. QED
              BY <1>14, <2>3, <3>1 DEF TypeOK, Confirm
      <2>4. QED
          BY <2>2, <2>3
  <1>15. CASE Close(r)
      <2>1. item' \in [Slots -> Item]
          <3>1. \A s \in Slots : Completed(item[s]) \in Item
              BY CompletedItem DEF TypeOK
          <3>2. QED
              BY <1>15, <3>1 DEF TypeOK, Close
      <2>2. QED
          <3>1. pc' \in [Runners -> Places]
              BY <1>15, Constants DEF TypeOK, Close, GoTo
          <3>2. QED
              BY <1>15, <2>1, <3>1 DEF TypeOK, Close
  <1>16. CASE Finish(r)
      BY <1>16 DEF TypeOK, Finish, GoTo, Places, StopFlags
  <1>17. CASE Leave(r)
      BY <1>17 DEF TypeOK, Leave, Forget, GoTo, Places, Outcomes
  <1>18. QED
      BY <1>1, <1>2, <1>3, <1>4, <1>5, <1>6, <1>7, <1>8, <1>9, <1>10, <1>11,
         <1>12, <1>13, <1>14, <1>15, <1>16, <1>17 DEF RunnerStep

LEMMA TypeNext == TypeOK /\ [Next]_vars => TypeOK'
  <1> SUFFICES ASSUME TypeOK, [Next]_vars PROVE TypeOK'
      OBVIOUS
  <1> USE Constants, StagesNat, ItemFields DEF file, local, people
  <1>1. ASSUME NEW r \in Runners, Start(r) PROVE TypeOK'
      BY <1>1 DEF TypeOK, Start, GoTo, Places
  <1>2. ASSUME NEW r \in Runners, RunnerStep(r) PROVE TypeOK'
      BY <1>2, RunnerType
  <1>3. ASSUME NEW r \in Runners, Interrupt(r) PROVE TypeOK'
      <2>1. pc' \in [Runners -> Places] /\ ops' \in 0..MaxOps
          BY <1>3, SpendType DEF TypeOK, Interrupt, GoTo, Places
      <2>2. QED
          BY <1>3, <2>1 DEF TypeOK, Interrupt
  <1>4. ASSUME NEW r \in Runners, Kill(r) PROVE TypeOK'
      BY <1>4, Sizes DEF TypeOK, Kill, Forget, GoTo, Places, Spend, Outcomes
  <1>5. ASSUME NEW a \in Adders, AddWrite(a) PROVE TypeOK'
      <2>1. NewItem(adding[a]) \in Item
          BY NewItemIsItem DEF TypeOK
      <2>2. item' \in [Slots -> Item] /\ adding' \in [Adders -> Cases \cup {NoCase}]
          BY <1>5, <2>1 DEF TypeOK, AddWrite
      <2>3. order' \in Seq(Slots)
          <3>1. PICK s \in Slots : order' \in {Append(order, s), <<s>> \o order}
              BY <1>5 DEF AddWrite
          <3>2. order \in Seq(Slots)
              BY DEF TypeOK
          <3>3. Append(order, s) \in Seq(Slots) /\ <<s>> \o order \in Seq(Slots)
              BY <3>2, OrderGrows
          <3>4. QED
              BY <3>1, <3>3
      <2>4. QED
          BY <1>5, <2>2, <2>3 DEF TypeOK, AddWrite
  <1>6. ASSUME NEW a \in Adders, NEW c \in Cases, AddLook(a, c) PROVE TypeOK'
      BY <1>6 DEF TypeOK, AddLook
  <1>7. ASSUME NEW c \in Cases, RetryCase(c) PROVE TypeOK'
      <2>1. item' \in [Slots -> Item]
          BY <1>7, AgainItem DEF TypeOK, RetryCase
      <2>2. QED
          BY <1>7, <2>1, Sizes DEF TypeOK, RetryCase, Spend
  <1>8. ASSUME NEW c \in Cases, Decide(c) PROVE TypeOK'
      <2>1. item' \in [Slots -> Item]
          BY <1>8, AgainItem DEF TypeOK, Decide
      <2>2. disk' \subseteq (Cases \cup {NoCase}) \X Stages
          BY <1>8 DEF TypeOK, Decide
      <2>3. QED
          BY <1>8, <2>1, <2>2, Sizes DEF TypeOK, Decide, Spend
  <1>9. ASSUME NEW c \in Cases, Drop(c) PROVE TypeOK'
      <2>1. \A s \in Slots : Settled(item[s], DROPPED, item[s].stage) \in Item
          BY SettledItem DEF TypeOK
      <2>2. QED
          BY <1>9, <2>1, Sizes DEF TypeOK, Drop, Spend
  <1>10. CASE RetryAll
      <2>1. item' \in [Slots -> Item]
          BY <1>10, AgainItem DEF TypeOK, RetryAll
      <2>2. QED
          BY <1>10, <2>1, SpendType DEF TypeOK, RetryAll
  <1>11. ASSUME NEW t \in Tools, Probe(t) PROVE TypeOK'
      <2>1. /\ runLock' \in Runners \cup Tools \cup {NoOne}
            /\ tool' \in [Tools -> {"idle", "holding", "alive", "asking", "clear"}]
            /\ ops' \in 0..MaxOps
          BY <1>11, SpendType DEF TypeOK, Probe
      <2>2. QED
          BY <1>11, <2>1 DEF TypeOK, Probe
  <1>12. ASSUME NEW t \in Tools, ToolStep(t) PROVE TypeOK'
      <2>1. CASE DropWrite(t)
          <3>1. \A s \in Slots : Settled(item[s], DROPPED, item[s].stage) \in Item
              BY SettledItem DEF TypeOK
          <3>2. item' \in [Slots -> Item] /\ ops' \in 0..MaxOps
              BY <2>1, <3>1, SpendType DEF TypeOK, DropWrite
          <3>3. QED
              BY <2>1, <3>2 DEF TypeOK, DropWrite
      <2>2. CASE ~DropWrite(t)
          BY <1>12, <2>2 DEF TypeOK, ToolStep, EndProbe, StopWrite, StopFlags, DropAsked
      <2>3. QED
          BY <2>1, <2>2
  <1>13. ASSUME NEW c \in Cases, NEW n \in Stages, Repair(c, n) PROVE TypeOK'
      BY <1>13, SpendType DEF TypeOK, Repair
  <1>14. ASSUME NEW s \in Slots, Tick(s) PROVE TypeOK'
      <2>1. [item[s] EXCEPT !.due = TRUE] \in Item
          <3>1. item[s] \in Item
              BY DEF TypeOK
          <3>2. QED
              BY <3>1 DEF Item
      <2>2. item' = [item EXCEPT ![s] = [item[s] EXCEPT !.due = TRUE]]
          BY <1>14 DEF Tick
      <2>3. QED
          BY <1>14, <2>1, <2>2 DEF TypeOK, Tick
  <1>15. ASSUME NEW t \in Tools, NEW c \in Cases, DropProbe(t, c) PROVE TypeOK'
      BY <1>15 DEF TypeOK, DropProbe
  <1>16. CASE UNCHANGED vars
      BY <1>16 DEF TypeOK, vars
  <1>17. QED
      BY <1>1, <1>2, <1>3, <1>4, <1>5, <1>6, <1>7, <1>8, <1>9, <1>10, <1>11,
         <1>12, <1>13, <1>14, <1>15, <1>16 DEF Next

\* The file, the lock and every process keep their types.
THEOREM TypeCorrect == Spec => []TypeOK
  <1>1. QED
      BY TypeInit, TypeNext, PTL DEF Spec

-----------------------------------------------------------------------------
(* run.lock: whoever is in charge holds it, and so does a probe under way.  *)
(* A `queue drop` that was told that nobody leads holds queue.lock: whoever *)
(* took run.lock after its probe has edited nothing yet.                    *)

LockInv ==
  /\ \A r \in Runners : InCharge(r) => runLock = r
  /\ \A t \in Tools : tool[t] \in {"holding", "asking"} => runLock = t
  /\ \A t \in Tools, r \in Runners :
        tool[t] = "clear" /\ InCharge(r) => pc[r] \in {"heal", "leave"}

LEMMA LockInit == Init => LockInv
  BY DEF Init, LockInv, InCharge

\* A step inside the runner's work neither leaves nor enters it.
LEMMA StaysInCharge ==
  ASSUME TypeOK, NEW r \in Runners, RunnerStep(r), ~Refused(r), ~Leave(r)
  PROVE  /\ InCharge(r)
         /\ \E where \in Places \ {"off", "busy"} : pc' = [pc EXCEPT ![r] = where]
         /\ UNCHANGED <<runLock, tool, adding, order>>
  <1> USE DEF Places, GoTo, InCharge, file, local, people, AfterCase
  <1>1. CASE Heal(r) \/ Rejudge(r) \/ Requeue(r) \/ Pick(r) \/ Exhausted(r)
      BY <1>1 DEF Heal, Rejudge, Requeue, Pick, Exhausted
  <1>2. CASE CheckFlag(r) \/ Halt(r) \/ Judge(r) \/ Mark(r) \/ RunStage(r)
      BY <1>2 DEF CheckFlag, Halt, Settle, Judge, NextStage, Mark, RunStage
  <1>3. CASE SettleOutcome(r)
      BY <1>3 DEF SettleOutcome, Settle
  <1>4. CASE SettleRetry(r)
      BY <1>4 DEF SettleRetry, Settle
  <1>5. CASE Confirm(r) \/ Close(r) \/ Finish(r)
      BY <1>5 DEF Confirm, Settle, NextStage, Close, Finish
  <1>6. QED
      BY <1>1, <1>2, <1>3, <1>4, <1>5 DEF RunnerStep

\* A step of the runner in charge other than its last one waits for queue.lock,
\* or the runner is past heal().
LEMMA WaitsOrWorks ==
  ASSUME NEW r \in Runners, RunnerStep(r), ~Refused(r), ~Leave(r)
  PROVE  FileFree \/ pc[r] \notin {"heal", "leave"}
  BY DEF RunnerStep, Heal, Rejudge, Requeue, Pick, Exhausted, CheckFlag, Halt, Judge,
         Mark, RunStage, SettleOutcome, SettleRetry, Confirm, Close, Finish

LEMMA LockNext == TypeOK /\ LockInv /\ [Next]_vars => LockInv'
  <1> SUFFICES ASSUME TypeOK, LockInv, [Next]_vars PROVE LockInv'
      OBVIOUS
  <1> USE Names
  <1>1. ASSUME NEW r \in Runners, Start(r) PROVE LockInv'
      <2>1. UNCHANGED tool /\ \A q \in Runners \ {r} : pc'[q] = pc[q]
          BY <1>1 DEF Start, GoTo, people, TypeOK
      <2>2. CASE runLock = NoOne /\ runLock' = r /\ pc'[r] = "heal"
          <3>1. /\ \A q \in Runners : ~InCharge(q)
                /\ \A t \in Tools : tool[t] \notin {"holding", "asking"}
              BY <2>2 DEF LockInv
          <3>2. \A q \in Runners \ {r} : ~InCharge(q)'
              BY <2>1, <3>1 DEF InCharge
          <3>3. QED
              BY <2>1, <2>2, <3>1, <3>2 DEF LockInv
      <2>3. CASE runLock' = runLock /\ pc'[r] = "busy"
          BY <2>1, <2>3 DEF LockInv, InCharge
      <2>4. QED
          BY <1>1, <2>2, <2>3 DEF Start, GoTo, TypeOK
  <1>2. ASSUME NEW r \in Runners, RunnerStep(r) PROVE LockInv'
      <2>1. CASE Refused(r)
          BY <2>1 DEF TypeOK, LockInv, InCharge, Refused, GoTo, people
      <2>2. CASE Leave(r)
          BY <2>2 DEF TypeOK, LockInv, InCharge, Leave, GoTo, people
      <2>3. CASE ~Refused(r) /\ ~Leave(r)
          <3>1. InCharge(r) /\ UNCHANGED <<runLock, tool>>
              BY <1>2, <2>3, StaysInCharge
          <3>2. \A q \in Runners : InCharge(q)' <=> InCharge(q)
              BY <1>2, <2>3, StaysInCharge DEF TypeOK, InCharge
          <3>3. \A t \in Tools : tool[t] # "clear"
              BY <1>2, <2>3, <3>1, WaitsOrWorks DEF LockInv, FileFree
          <3>4. QED
              BY <3>1, <3>2, <3>3 DEF LockInv
      <2>4. QED
          BY <2>1, <2>2, <2>3
  <1>3. ASSUME NEW r \in Runners, Interrupt(r) PROVE LockInv'
      BY <1>3 DEF TypeOK, LockInv, InCharge, Leading, Interrupt, GoTo, people
  <1>4. ASSUME NEW r \in Runners, Kill(r) PROVE LockInv'
      BY <1>4 DEF TypeOK, LockInv, InCharge, Kill, GoTo, people
  <1>5. ASSUME NEW t \in Tools, Probe(t) PROVE LockInv'
      <2>1. UNCHANGED pc
          BY <1>5 DEF Probe
      <2>2. \A r \in Runners : InCharge(r)' <=> InCharge(r)
          BY <2>1 DEF InCharge
      <2>3. CASE runLock = NoOne
          BY <1>5, <2>1, <2>2, <2>3 DEF LockInv, Probe, TypeOK
      <2>4. CASE runLock # NoOne
          BY <1>5, <2>1, <2>2, <2>4 DEF LockInv, Probe, TypeOK
      <2>5. QED
          BY <2>3, <2>4
  <1>6. ASSUME NEW t \in Tools, ToolStep(t) PROVE LockInv'
      <2>1. UNCHANGED pc
          BY <1>6 DEF ToolStep, EndProbe, StopWrite, DropAsked, DropWrite
      <2>2. \A r \in Runners : InCharge(r)' <=> InCharge(r)
          BY <2>1 DEF InCharge
      <2>3. \A u \in Tools \ {t} : tool'[u] = tool[u]
          BY <1>6 DEF ToolStep, EndProbe, StopWrite, DropAsked, DropWrite, TypeOK
      <2>4. CASE runLock = t /\ runLock' = NoOne /\ tool'[t] \in {"idle", "clear"}
          BY <2>1, <2>2, <2>3, <2>4 DEF LockInv
      <2>5. CASE UNCHANGED runLock /\ tool'[t] = "idle"
          BY <2>1, <2>2, <2>3, <2>5 DEF LockInv
      <2>6. QED
          BY <1>6, <2>4, <2>5
             DEF LockInv, ToolStep, EndProbe, StopWrite, DropAsked, DropWrite, TypeOK
  <1>7. ASSUME NEW t \in Tools, NEW c \in Cases, DropProbe(t, c) PROVE LockInv'
      <2>1. UNCHANGED pc /\ \A r \in Runners : ~InCharge(r)
          BY <1>7 DEF DropProbe, LockInv
      <2>2. \A r \in Runners : ~InCharge(r)'
          BY <2>1 DEF InCharge
      <2>3. /\ runLock = NoOne /\ runLock' = t /\ tool'[t] = "asking"
            /\ \A u \in Tools \ {t} : tool'[u] = tool[u]
          BY <1>7 DEF DropProbe, TypeOK
      <2>4. QED
          BY <2>2, <2>3 DEF LockInv
  <1>8. CASE UNCHANGED <<pc, runLock, tool>>
      BY <1>8 DEF LockInv, InCharge
  <1>9. QED
      BY <1>1, <1>2, <1>3, <1>4, <1>5, <1>6, <1>8, <1>7
         DEF Next, vars, people, AddWrite, AddLook, RetryCase, Decide, Drop,
             RetryAll, Repair, Tick

\* Two runners are never in charge of one queue.
THEOREM OneRunner == Spec => []SingleRunner
  <1>1. LockInv => SingleRunner
      BY DEF LockInv, SingleRunner
  <1>2. QED
      BY <1>1, LockInit, LockNext, TypeInit, TypeNext, PTL DEF Spec

-----------------------------------------------------------------------------
(* One record per case.                                                    *)

\* No two `queue add` of the same case are under way at once: both would have
\* looked before either wrote.  Of different cases there may be any number.
NoTwin == \A a, b \in Adders : a # b /\ adding[a] # NoCase => adding[a] # adding[b]

FileInv ==
  /\ \A s \in Slots : item[s].state # ABSENT =>
        \E i \in DOMAIN order : order[i] = s
  /\ \A i \in DOMAIN order : item[order[i]].state # ABSENT
  /\ \A s \in Slots : item[s].state # ABSENT => item[s].id \in Cases
  /\ UniqueLive
  /\ \A a \in Adders, s \in Slots :
        adding[a] # NoCase /\ Standing(s) => item[s].id # adding[a]

\* What every edit but `queue add` does to the records.
KeepsCases ==
  \A s \in Slots :
     /\ item'[s].id = item[s].id
     /\ item'[s].state = ABSENT <=> item[s].state = ABSENT
     /\ item[s].state = DROPPED => item'[s] = item[s]

\* An edit of the runner's case, seen from its effect: the record found first
\* gets the state st, or there is none and the runner fails.
RunnerEdit(r, st, where) ==
  \/ \E s \in Slots :
        /\ IsFirst(s, cur[r])
        /\ item'[s].id = item[s].id
        /\ item'[s].state = st
        /\ \A t \in Slots \ {s} : item'[t] = item[t]
        /\ pc' = [pc EXCEPT ![r] = where]
  \/ item' = item /\ pc' = [pc EXCEPT ![r] = "fail"]

EditKind(st, where) ==
  \/ st = RUNNING /\ where \in {"run", "confirm"}
  \/ st \in {QUEUED, RETRY, BLOCKED, FAILED, DONE} /\ where \in {"loop", "finish"}

EditOf(r) == \/ Halt(r) \/ Mark(r) \/ SettleOutcome(r) \/ SettleRetry(r)
             \/ (Confirm(r) /\ <<cur[r], at[r]>> \notin disk) \/ Close(r)

LEMMA AfterCaseKind ==
  ASSUME NEW r, NEW st \in {QUEUED, RETRY, BLOCKED, FAILED, DONE}
  PROVE  EditKind(st, AfterCase(r))
  BY DEF EditKind, AfterCase

LEMMA SettleEdits ==
  ASSUME TypeOK, NEW r \in Runners, NEW st \in States, NEW n \in 0..NStages,
         NEW where, Settle(r, st, n, where)
  PROVE  RunnerEdit(r, st, where)
  <1>1. CASE \E s \in Slots : /\ IsFirst(s, cur[r])
                              /\ item' = [item EXCEPT ![s] = Settled(item[s], st, n)]
                              /\ GoTo(r, where)
      <2>1. PICK s \in Slots : /\ IsFirst(s, cur[r])
                               /\ item' = [item EXCEPT ![s] = Settled(item[s], st, n)]
                               /\ GoTo(r, where)
          BY <1>1
      <2>2. item'[s] = Settled(item[s], st, n) /\ \A t \in Slots \ {s} : item'[t] = item[t]
          BY <2>1 DEF TypeOK
      <2>3. item'[s].id = item[s].id /\ item'[s].state = st
          <3>1. item[s] \in Item
              BY DEF TypeOK
          <3>2. Settled(item[s], st, n).id = item[s].id /\ Settled(item[s], st, n).state = st
              BY <3>1 DEF Settled, Item
          <3>3. QED
              BY <2>2, <3>2
      <2>4. QED
          BY <2>1, <2>2, <2>3 DEF RunnerEdit, GoTo
  <1>2. CASE GoTo(r, "fail") /\ UNCHANGED item
      BY <1>2 DEF RunnerEdit, GoTo
  <1>3. QED
      BY <1>1, <1>2 DEF Settle

LEMMA OnlyDoneIsDone == DONE \notin {QUEUED, RUNNING, RETRY, BLOCKED, FAILED}
  BY DEF DONE, QUEUED, RUNNING, RETRY, BLOCKED, FAILED

\* What the edits of process() come to: one record of the case led, found first
\* in the file, changes its state, and only the last stage's end makes it done.
LEMMA EditCases ==
  ASSUME TypeOK, NEW r \in Runners, EditOf(r)
  PROVE  /\ \E st \in States, where \in Places :
               /\ EditKind(st, where)
               /\ RunnerEdit(r, st, where)
               /\ st = DONE => pc[r] = "close"
         /\ Leading(r)
         /\ UNCHANGED <<order, cur, adding>>
  <1> USE Constants, OnlyDoneIsDone DEF local, people
  <1>1. at[r] \in 0..NStages
      BY StagesNat DEF TypeOK
  <1>2. CASE Halt(r)
      <2>1. RunnerEdit(r, QUEUED, AfterCase(r))
          BY <1>1, <1>2, SettleEdits DEF Halt
      <2>2. QED
          BY <1>2, <2>1, AfterCaseKind DEF Halt, Leading
  <1>3. CASE Mark(r)
      <2>1. RunnerEdit(r, RUNNING, "run")
          <3>1. Settle(r, RUNNING, at[r], "run")
              BY <1>3 DEF Mark, Settle
          <3>2. QED
              BY <1>1, <3>1, SettleEdits
      <2>2. QED
          BY <1>3, <2>1 DEF Mark, Leading, EditKind, Places
  <1>4. CASE SettleOutcome(r)
      <2>1. \/ Settle(r, RUNNING, at[r], "confirm")
            \/ Settle(r, QUEUED, at[r], AfterCase(r))
            \/ Settle(r, QUEUED, at[r], "finish")
            \/ Settle(r, BLOCKED, at[r], AfterCase(r))
            \/ Settle(r, FAILED, at[r], AfterCase(r))
          BY <1>4 DEF SettleOutcome
      <2>2. \/ RunnerEdit(r, RUNNING, "confirm")
            \/ RunnerEdit(r, QUEUED, AfterCase(r))
            \/ RunnerEdit(r, QUEUED, "finish")
            \/ RunnerEdit(r, BLOCKED, AfterCase(r))
            \/ RunnerEdit(r, FAILED, AfterCase(r))
          BY <1>1, <2>1, SettleEdits
      <2>3. EditKind(RUNNING, "confirm") /\ EditKind(QUEUED, "finish")
            /\ "confirm" \in Places
          BY DEF EditKind, Places
      <2>4. QED
          BY <1>4, <2>2, <2>3, AfterCaseKind DEF SettleOutcome, Leading
  <1>5. CASE SettleRetry(r)
      <2>1. CASE TooMany(r)
          <3>1. RunnerEdit(r, BLOCKED, AfterCase(r))
              BY <1>1, <1>5, <2>1, SettleEdits DEF SettleRetry
          <3>2. QED
              BY <1>5, <3>1, AfterCaseKind DEF SettleRetry, Leading
      <2>2. CASE ~TooMany(r)
          <3> DEFINE tr == [tried[r] EXCEPT ![at[r]] = Counted(r)]
                     now == (out[r] = "again")
          <3>1. tr \in [Stages -> Nat] /\ now \in BOOLEAN
              BY CountedNat DEF TypeOK
          <3>2. \/ \E s \in Slots :
                      /\ IsFirst(s, cur[r])
                      /\ item' = [item EXCEPT ![s] = Postponed(item[s], at[r], tr, now)]
                      /\ GoTo(r, AfterCase(r))
                \/ UNCHANGED item /\ GoTo(r, "fail")
              BY <1>5, <2>2 DEF SettleRetry
          <3>3. RunnerEdit(r, RETRY, AfterCase(r))
              <4> HIDE DEF tr, now
              <4>1. ASSUME NEW s \in Slots
                    PROVE  /\ Postponed(item[s], at[r], tr, now).id = item[s].id
                           /\ Postponed(item[s], at[r], tr, now).state = RETRY
                  <5>1. item[s] \in Item
                      BY DEF TypeOK
                  <5>2. QED
                      BY <1>1, <3>1, <5>1, PostponedItem
              <4>2. QED
                  BY <3>2, <4>1 DEF RunnerEdit, GoTo, TypeOK
          <3>4. QED
              BY <1>5, <3>3, AfterCaseKind DEF SettleRetry, Leading
      <2>3. QED
          BY <2>1, <2>2
  <1>6. CASE Confirm(r) /\ <<cur[r], at[r]>> \notin disk
      <2>1. RunnerEdit(r, BLOCKED, AfterCase(r))
          BY <1>1, <1>6, SettleEdits DEF Confirm
      <2>2. QED
          BY <1>6, <2>1, AfterCaseKind DEF Confirm, Leading
  <1>7. CASE Close(r)
      <2>1. ASSUME NEW s \in Slots
            PROVE  Completed(item[s]).id = item[s].id /\ Completed(item[s]).state = DONE
          BY CompletedItem DEF TypeOK
      <2>2. RunnerEdit(r, DONE, AfterCase(r))
          BY <1>7, <2>1 DEF Close, RunnerEdit, GoTo, TypeOK
      <2>3. QED
          BY <1>7, <2>2, AfterCaseKind DEF Close, Leading
  <1>8. QED
      BY <1>2, <1>3, <1>4, <1>5, <1>6, <1>7 DEF EditOf

\* An edit that keeps the cases keeps the file.
LEMMA KeepsFile ==
  ASSUME TypeOK, FileInv, KeepsCases, UNCHANGED <<order, adding>>
  PROVE  FileInv'
  <1>1. \A s \in Slots : item'[s].state # ABSENT => \E i \in DOMAIN order' : order'[i] = s
      BY DEF FileInv, KeepsCases
  <1>2. \A s \in Slots : Standing(s)' => Standing(s)
      BY DEF KeepsCases, Standing
  <1>3. UniqueLive'
      BY <1>2 DEF FileInv, KeepsCases, UniqueLive, Standing
  <1>4. \A a \in Adders, s \in Slots :
          adding'[a] # NoCase /\ Standing(s)' => item'[s].id # adding'[a]
      BY <1>2 DEF FileInv, KeepsCases
  <1>5. \A i \in DOMAIN order' : item'[order'[i]].state # ABSENT
      <2>1. \A i \in DOMAIN order : order[i] \in Slots
          BY DEF TypeOK
      <2>2. QED
          BY <2>1 DEF FileInv, KeepsCases
  <1>6. \A s \in Slots : item'[s].state # ABSENT => item'[s].id \in Cases
      BY DEF FileInv, KeepsCases
  <1>7. QED
      BY <1>1, <1>3, <1>4, <1>5, <1>6 DEF FileInv

LEMMA EditKeepsCases ==
  ASSUME TypeOK, FileInv, NEW r \in Runners, EditOf(r)
  PROVE  KeepsCases
  <1>1. PICK st \in States, where \in Places :
          EditKind(st, where) /\ RunnerEdit(r, st, where)
      BY EditCases
  <1>2. st \notin {ABSENT, DROPPED}
      BY <1>1 DEF EditKind, QUEUED, RUNNING, RETRY, BLOCKED, FAILED, DONE, ABSENT, DROPPED
  <1>3. CASE item' = item
      BY <1>3 DEF KeepsCases
  <1>4. CASE \E s \in Slots :
               /\ IsFirst(s, cur[r])
               /\ item'[s].id = item[s].id
               /\ item'[s].state = st
               /\ \A t \in Slots \ {s} : item'[t] = item[t]
      <2>1. PICK s \in Slots :
               /\ IsFirst(s, cur[r])
               /\ item'[s].id = item[s].id
               /\ item'[s].state = st
               /\ \A t \in Slots \ {s} : item'[t] = item[t]
          BY <1>4
      <2>2. Standing(s)
          BY <2>1 DEF IsFirst, Matches, FileInv, Standing
      <2>3. QED
          BY <1>2, <2>1, <2>2 DEF KeepsCases, Standing
  <1>5. QED
      BY <1>1, <1>3, <1>4 DEF RunnerEdit

\* Putting a record into the file adds its slot and takes none away.
LEMMA OrderRange ==
  ASSUME NEW q \in Seq(Slots), NEW s \in Slots,
         NEW q2 \in {Append(q, s), <<s>> \o q}
  PROVE  /\ \E i \in DOMAIN q2 : q2[i] = s
         /\ \A j \in DOMAIN q : \E i \in DOMAIN q2 : q2[i] = q[j]
         /\ \A i \in DOMAIN q2 : q2[i] = s \/ \E j \in DOMAIN q : q2[i] = q[j]
  <1>1. CASE q2 = Append(q, s)
      <2>1. /\ DOMAIN q2 = 1..(Len(q) + 1) /\ DOMAIN q = 1..Len(q) /\ Len(q) \in Nat
            /\ q2[Len(q) + 1] = s
            /\ \A j \in 1..Len(q) : q2[j] = q[j]
          BY <1>1
      <2>2. QED
          BY <2>1
  <1>2. CASE q2 = <<s>> \o q
      <2>1. /\ DOMAIN q2 = 1..(Len(q) + 1) /\ DOMAIN q = 1..Len(q) /\ Len(q) \in Nat
            /\ q2[1] = s
            /\ \A j \in 1..Len(q) : q2[j + 1] = q[j]
          BY <1>2
      <2>2. \A i \in 2..(Len(q) + 1) : i - 1 \in 1..Len(q) /\ q2[i] = q[i - 1]
          BY <2>1
      <2>3. \E i \in DOMAIN q2 : q2[i] = s
          <3>1. 1 \in DOMAIN q2
              BY <2>1
          <3>2. QED
              BY <2>1, <3>1
      <2>4. ASSUME NEW j \in DOMAIN q PROVE \E i \in DOMAIN q2 : q2[i] = q[j]
          <3>1. j + 1 \in DOMAIN q2 /\ q2[j + 1] = q[j]
              BY <2>1
          <3>2. QED
              BY <3>1
      <2>5. ASSUME NEW i \in DOMAIN q2 PROVE q2[i] = s \/ \E j \in DOMAIN q : q2[i] = q[j]
          <3>1. CASE i = 1
              BY <2>1, <3>1
          <3>2. CASE i # 1
              <4>1. i \in 2..(Len(q) + 1)
                  BY <2>1, <3>2
              <4>2. i - 1 \in DOMAIN q /\ q2[i] = q[i - 1]
                  BY <2>1, <2>2, <4>1
              <4>3. QED
                  BY <4>2
          <3>3. QED
              BY <3>1, <3>2
      <2>6. QED
          BY <2>3, <2>4, <2>5
  <1>3. QED
      BY <1>1, <1>2

\* queue_add keeps the file, as long as nobody else adds that case.
LEMMA AddKeepsFile ==
  ASSUME NoTwin, TypeOK, FileInv, NEW a \in Adders, AddWrite(a)
  PROVE  FileInv'
  <1>1. PICK s \in Slots : /\ item[s].state = ABSENT
                           /\ item' = [item EXCEPT ![s] = NewItem(adding[a])]
                           /\ order' \in {Append(order, s), <<s>> \o order}
      BY DEF AddWrite
  <1>2. /\ item'[s].id = adding[a] /\ item'[s].state = QUEUED
        /\ \A t \in Slots \ {s} : item'[t] = item[t]
      BY <1>1 DEF TypeOK, NewItem
  <1>3. order \in Seq(Slots)
      BY DEF TypeOK
  <1>4. QUEUED \notin {ABSENT, DROPPED}
      BY DEF QUEUED, ABSENT, DROPPED
  <1>5. /\ \E i \in DOMAIN order' : order'[i] = s
        /\ \A j \in DOMAIN order : \E i \in DOMAIN order' : order'[i] = order[j]
        /\ \A i \in DOMAIN order' : order'[i] = s \/ \E j \in DOMAIN order : order'[i] = order[j]
      BY <1>1, <1>3, OrderRange
  <1>6. \A t \in Slots : item'[t].state # ABSENT => \E i \in DOMAIN order' : order'[i] = t
      BY <1>2, <1>5 DEF FileInv
  <1>7. \A i \in DOMAIN order' : item'[order'[i]].state # ABSENT
      <2>1. \A j \in DOMAIN order : order[j] \in Slots
          BY <1>3
      <2>2. QED
          BY <1>1, <1>2, <1>4, <1>5, <2>1 DEF FileInv
  <1>8. UniqueLive'
      <2>1. adding[a] # NoCase
          BY DEF AddWrite
      <2>2. \A t \in Slots \ {s} : Standing(t)' => Standing(t) /\ item[t].id # adding[a]
          BY <1>2, <2>1 DEF FileInv, Standing
      <2>3. QED
          BY <1>2, <2>2 DEF FileInv, UniqueLive, Standing
  <1>9. \A b \in Adders, t \in Slots :
          adding'[b] # NoCase /\ Standing(t)' => item'[t].id # adding'[b]
      <2>1. ASSUME NEW b \in Adders, NEW t \in Slots, adding'[b] # NoCase, Standing(t)'
            PROVE  item'[t].id # adding'[b]
          <3>1. b # a /\ adding'[b] = adding[b]
              BY <2>1 DEF AddWrite, TypeOK
          <3>2. CASE t = s
              BY <1>2, <2>1, <3>1, <3>2 DEF NoTwin
          <3>3. CASE t # s
              BY <1>2, <2>1, <3>1, <3>3 DEF FileInv, Standing
          <3>4. QED
              BY <3>2, <3>3
      <2>2. QED
          BY <2>1
  <1>10. \A t \in Slots : item'[t].state # ABSENT => item'[t].id \in Cases
      BY <1>2 DEF FileInv, AddWrite, TypeOK
  <1>11. QED
      BY <1>6, <1>7, <1>8, <1>9, <1>10 DEF FileInv

\* A person puts one record back or drops it, in an edit of one step or at the end
\* of a longer one.
Edited(c) == \/ RetryCase(c) \/ Decide(c) \/ Drop(c)
             \/ \E t \in Tools : DropWrite(t) /\ aim[t] = c /\ item' # item

\* What it does to the file.
LEMMA EditedOne ==
  ASSUME TypeOK, NEW c, Edited(c)
  PROVE  /\ \E s \in Slots :
              /\ IsFirst(s, c)
              /\ \E x \in {Again(item[s]), item[s], Settled(item[s], DROPPED, item[s].stage)} :
                    item' = [item EXCEPT ![s] = x]
         /\ UNCHANGED <<order, pc, local, runLock>>
  BY DEF Edited, RetryCase, Decide, Drop, DropWrite

\* The other steps of people change no record.
LEMMA PeopleSteps ==
  ASSUME [Next]_vars,
         \A r \in Runners : ~(Start(r) \/ RunnerStep(r) \/ Interrupt(r) \/ Kill(r)),
         \A a \in Adders : ~AddWrite(a), \A c : ~Edited(c), ~RetryAll,
         \A s \in Slots : ~Tick(s)
  PROVE  UNCHANGED <<item, order>>
  <1> USE DEF file
  <1>1. ASSUME NEW t \in Tools, ToolStep(t) PROVE UNCHANGED <<item, order>>
      BY <1>1 DEF ToolStep, EndProbe, StopWrite, DropAsked, DropWrite, Edited
  <1>2. QED
      BY <1>1 DEF Next, vars, AddLook, Probe, DropProbe, Repair, Edited

\* Every other step keeps the cases.
LEMMA OthersKeepCases ==
  ASSUME TypeOK, FileInv, [Next]_vars, \A a \in Adders : ~AddWrite(a)
  PROVE  KeepsCases /\ UNCHANGED order
  <1> USE DEF file, local, people
  <1>1. ASSUME NEW r \in Runners, RunnerStep(r) PROVE KeepsCases /\ UNCHANGED order
      <2>1. CASE EditOf(r)
          BY <2>1, EditKeepsCases, EditCases
      <2>2. CASE Heal(r)
          <3>1. \A s \in Slots : Settled(item[s], QUEUED, item[s].stage).id = item[s].id
                              /\ Settled(item[s], QUEUED, item[s].stage).state = QUEUED
              BY DEF Settled, TypeOK, Item
          <3>2. QED
              BY <2>2, <3>1 DEF Heal, KeepsCases, RUNNING, DROPPED, ABSENT, QUEUED
      <2>3. CASE Requeue(r)
          <3>1. \A s \in Slots : Again(item[s]).id = item[s].id /\ Again(item[s]).state = QUEUED
              BY AgainItem DEF TypeOK
          <3>2. QED
              BY <2>3, <3>1 DEF Requeue, KeepsCases, BLOCKED, DROPPED, ABSENT, QUEUED
      <2>4. CASE UNCHANGED <<item, order>>
          BY <2>4 DEF KeepsCases
      <2>5. QED
          BY <1>1, <2>1, <2>2, <2>3, <2>4
             DEF RunnerStep, EditOf, Refused, Rejudge, Pick, Exhausted, CheckFlag,
                 Judge, RunStage, Confirm, Finish, Leave
  <1>2. ASSUME NEW s \in Slots, Standing(s), NEW x \in Item, x.id = item[s].id,
               x.state \in {QUEUED, DROPPED, RETRY, item[s].state},
               item' = [item EXCEPT ![s] = x], UNCHANGED order
        PROVE  KeepsCases /\ UNCHANGED order
      BY <1>2 DEF KeepsCases, Standing, TypeOK, QUEUED, DROPPED, RETRY, ABSENT
  <1>3. ASSUME NEW c, Edited(c)
        PROVE  KeepsCases /\ UNCHANGED order
      <2>1. PICK s \in Slots :
              /\ IsFirst(s, c)
              /\ \E x \in {Again(item[s]), item[s], Settled(item[s], DROPPED, item[s].stage)} :
                    item' = [item EXCEPT ![s] = x]
          BY <1>3, EditedOne
      <2>2. Standing(s)
          BY <2>1 DEF IsFirst, Matches, FileInv, Standing
      <2>3. item[s] \in Item
          BY DEF TypeOK
      <2>4. /\ Again(item[s]) \in Item /\ Again(item[s]).id = item[s].id
            /\ Again(item[s]).state = QUEUED
          BY <2>3, AgainItem
      <2>5. /\ Settled(item[s], DROPPED, item[s].stage) \in Item
            /\ Settled(item[s], DROPPED, item[s].stage).id = item[s].id
            /\ Settled(item[s], DROPPED, item[s].stage).state = DROPPED
          BY <2>3, Constants DEF Settled, Item
      <2>6. UNCHANGED order
          BY <1>3, EditedOne
      <2>7. QED
          BY <1>2, <2>1, <2>2, <2>3, <2>4, <2>5, <2>6
  <1>4. CASE RetryAll
      <2>1. \A s \in Slots : Again(item[s]).id = item[s].id /\ Again(item[s]).state = QUEUED
          BY AgainItem DEF TypeOK
      <2>2. QED
          BY <1>4, <2>1 DEF RetryAll, KeepsCases, WAITING, BLOCKED, FAILED, RETRY,
                            DROPPED, ABSENT, QUEUED
  <1>5. ASSUME NEW s \in Slots, Tick(s) PROVE KeepsCases /\ UNCHANGED order
      <2>1. item[s] \in Item /\ item[s].state = RETRY
          BY <1>5 DEF TypeOK, Tick
      <2>2. /\ [item[s] EXCEPT !.due = TRUE] \in Item
            /\ [item[s] EXCEPT !.due = TRUE].id = item[s].id
            /\ [item[s] EXCEPT !.due = TRUE].state = item[s].state
          BY <2>1 DEF Item
      <2>3. Standing(s)
          BY <2>1 DEF Standing, RETRY, ABSENT, DROPPED
      <2>4. QED
          BY <1>2, <1>5, <2>2, <2>3 DEF Tick
  <1>6. CASE UNCHANGED <<item, order>>
      BY <1>6 DEF KeepsCases
  <1>7. QED
      BY <1>1, <1>3, <1>4, <1>5, <1>6, PeopleSteps DEF Start, Interrupt, Kill

LEMMA FileInit == Init => FileInv
  <1> SUFFICES ASSUME Init PROVE FileInv
      OBVIOUS
  <1>1. \A s \in Slots : item[s].state = ABSENT
      BY DEF Init, NewItem
  <1>2. DOMAIN order = {}
      BY DEF Init
  <1>3. QED
      BY <1>1, <1>2 DEF FileInv, UniqueLive, Standing

\* The duplicate check of queue_add finds every standing record of the case.
LEMMA LookKeepsFile ==
  ASSUME TypeOK, FileInv, NEW a \in Adders, NEW c \in Cases, AddLook(a, c)
  PROVE  FileInv'
  <1>1. /\ ~Listed(c)
        /\ UNCHANGED <<item, order>>
        /\ \A b \in Adders : adding'[b] \in {c, adding[b]}
      BY DEF AddLook, file, TypeOK
  <1>2. ASSUME NEW s \in Slots, Standing(s) PROVE item[s].id # c
      <2>1. PICK i \in DOMAIN order : order[i] = s
          BY <1>2 DEF FileInv, Standing
      <2>2. ~Matches(s, c)
          BY <1>1, <2>1 DEF Listed
      <2>3. QED
          BY <1>2, <2>2 DEF Matches, Standing
  <1>3. QED
      BY <1>1, <1>2 DEF FileInv, UniqueLive, Standing

LEMMA FileNext == NoTwin /\ TypeOK /\ FileInv /\ [Next]_vars => FileInv'
  <1> SUFFICES ASSUME NoTwin, TypeOK, FileInv, [Next]_vars PROVE FileInv'
      OBVIOUS
  <1>1. CASE \E a \in Adders : AddWrite(a)
      BY <1>1, AddKeepsFile
  <1>2. CASE \E a \in Adders, c \in Cases : AddLook(a, c)
      BY <1>2, LookKeepsFile
  <1>3. CASE /\ \A a \in Adders : ~AddWrite(a)
             /\ \A a \in Adders, c \in Cases : ~AddLook(a, c)
      <2>1. KeepsCases /\ UNCHANGED order
          BY <1>3, OthersKeepCases
      <2>2. UNCHANGED adding
          <3>1. ASSUME NEW r \in Runners, RunnerStep(r) PROVE UNCHANGED adding
              BY <3>1, StaysInCharge DEF Refused, Leave, people
          <3>2. QED
              BY <1>3, <3>1
                 DEF Next, vars, people, Start, Interrupt, Kill, RetryCase, Decide,
                     Drop, RetryAll, Probe, ToolStep, EndProbe, StopWrite, DropProbe, DropAsked,
             DropWrite, Repair, Tick
      <2>3. QED
          BY <2>1, <2>2, KeepsFile
  <1>4. QED
      BY <1>1, <1>2, <1>3

\* Unless two `queue add` of one case run at once, the file holds a case once.
THEOREM OneRecord == Spec /\ []NoTwin => []UniqueLive
  <1>1. FileInv => UniqueLive
      BY DEF FileInv
  <1>2. QED
      BY <1>1, FileInit, FileNext, TypeInit, TypeNext, PTL DEF Spec

-----------------------------------------------------------------------------
(* The runner and the people who edit the file under its hands.            *)

\* The case the runner leads is one that may be worked on, whatever people
\* did to it since it was picked, unless they dropped it.
LedInv ==
  /\ LedCaseOnly
  /\ \A r \in Runners, s \in Slots :
        Leading(r) /\ Standing(s) /\ item[s].id = cur[r] => item[s].state \in LIVE

\* What an edit by people may do: put a record back, drop it, or leave its
\* state alone.
Gentle ==
  \A s \in Slots :
     \/ item'[s].state \in {QUEUED, DROPPED}
     \/ item'[s].id = item[s].id /\ item'[s].state = item[s].state

LEMMA GentleLed ==
  ASSUME LedInv, Gentle, UNCHANGED <<pc, cur>>
  PROVE  LedInv'
  <1>1. \A r \in Runners : Leading(r)' <=> Leading(r)
      BY DEF Leading
  <1>2. \A s \in Slots : item'[s].state = RUNNING =>
           item[s].state = RUNNING /\ item'[s].id = item[s].id
      BY DEF Gentle, RUNNING, QUEUED, DROPPED
  <1>3. LedCaseOnly'
      BY <1>1, <1>2 DEF LedInv, LedCaseOnly
  <1>4. ASSUME NEW r \in Runners, NEW s \in Slots,
               Leading(r), Standing(s)', item'[s].id = cur[r]
        PROVE  item'[s].state \in LIVE
      <2>1. CASE item'[s].state \in {QUEUED, DROPPED}
          BY <1>4, <2>1 DEF Standing, LIVE
      <2>2. CASE item'[s].id = item[s].id /\ item'[s].state = item[s].state
          BY <1>4, <2>2 DEF LedInv, Standing
      <2>3. QED
          BY <2>1, <2>2 DEF Gentle
  <1>5. QED
      BY <1>1, <1>3, <1>4 DEF LedInv

\* Every step that is not a runner's is gentle and moves no runner's case.
LEMMA PeopleAreGentle ==
  ASSUME TypeOK, [Next]_vars,
         \A r \in Runners : ~(Start(r) \/ RunnerStep(r) \/ Interrupt(r) \/ Kill(r))
  PROVE  Gentle /\ UNCHANGED <<pc, cur>>
  <1> USE DEF file, local, people
  <1>1. UNCHANGED <<pc, cur>>
      BY DEF Next, vars, AddWrite, AddLook, RetryCase, Decide, Drop, RetryAll,
             Probe, ToolStep, EndProbe, StopWrite, DropProbe, DropAsked,
             DropWrite, Repair, Tick
  <1>2. ASSUME NEW s \in Slots
        PROVE  /\ Again(item[s]).state = QUEUED
               /\ Settled(item[s], DROPPED, item[s].stage).state = DROPPED
               /\ \A c : NewItem(c).state = QUEUED
               /\ [item[s] EXCEPT !.due = TRUE].state = item[s].state
               /\ [item[s] EXCEPT !.due = TRUE].id = item[s].id
      <2>1. item[s] \in Item
          BY DEF TypeOK
      <2>2. Again(item[s]).state = QUEUED
          BY <2>1, AgainItem
      <2>3. Settled(item[s], DROPPED, item[s].stage).state = DROPPED
          BY <2>1 DEF Settled, Item
      <2>4. QED
          BY <2>1, <2>2, <2>3 DEF NewItem, Item
  <1>3. ASSUME NEW s \in Slots, NEW x,
               x.state \in {QUEUED, DROPPED} \/ (x.id = item[s].id /\ x.state = item[s].state),
               item' = [item EXCEPT ![s] = x]
        PROVE  Gentle
      BY <1>3 DEF Gentle, TypeOK
  <1>4. ASSUME NEW c, Edited(c) PROVE Gentle
      <2>1. PICK s \in Slots :
              \E x \in {Again(item[s]), item[s], Settled(item[s], DROPPED, item[s].stage)} :
                 item' = [item EXCEPT ![s] = x]
          BY <1>4, EditedOne
      <2>2. QED
          BY <1>2, <1>3, <2>1
  <1>5. CASE RetryAll
      BY <1>2, <1>5 DEF RetryAll, Gentle
  <1>6. ASSUME NEW s \in Slots, Tick(s) PROVE Gentle
      <2>1. item' = [item EXCEPT ![s] = [item[s] EXCEPT !.due = TRUE]]
          BY <1>6 DEF Tick, TypeOK
      <2>2. QED
          BY <1>2, <1>3, <2>1
  <1>7. ASSUME NEW a \in Adders, AddWrite(a) PROVE Gentle
      BY <1>2, <1>3, <1>7 DEF AddWrite
  <1>8. CASE UNCHANGED item
      BY <1>1, <1>8 DEF Gentle
  <1>9. Gentle
      BY <1>4, <1>5, <1>6, <1>7, <1>8, PeopleSteps
  <1>10. QED
      BY <1>1, <1>9

\* Only the runner in charge is anywhere LedInv speaks about.
LEMMA OthersAway ==
  ASSUME LockInv, NEW r \in Runners, InCharge(r), NEW q \in Runners, q # r
  PROVE  pc[q] \in {"off", "busy"}
  BY DEF LockInv, InCharge

\* Moving one runner, when the records stay as they are.
LEMMA MoveLed ==
  ASSUME TypeOK, LedInv, NEW r \in Runners, NEW where,
         pc' = [pc EXCEPT ![r] = where], UNCHANGED <<item, cur>>,
         \/ where \in {"off", "busy", "heal", "leave"}
         \/ Leading(r) /\ where \in {"flag", "halt", "judge", "mark", "run", "out",
                                     "confirm", "close", "finish", "fail"}
         \/ pc[r] \in {"rejudge", "requeue", "loop"} /\ where \in {"requeue", "loop", "finish"}
  PROVE  LedInv'
  <1>1. pc'[r] = where /\ \A q \in Runners \ {r} : pc'[q] = pc[q]
      BY DEF TypeOK
  <1>2. LedCaseOnly'
      BY <1>1 DEF LedInv, LedCaseOnly, Leading
  <1>3. QED
      BY <1>1, <1>2 DEF LedInv, Leading, Standing

LEMMA EditLed ==
  ASSUME TypeOK, LockInv, FileInv, LedInv, NEW r \in Runners, EditOf(r)
  PROVE  LedInv'
  <1>1. PICK st \in States, where \in Places :
          EditKind(st, where) /\ RunnerEdit(r, st, where)
      BY EditCases
  <1>2. Leading(r) /\ UNCHANGED cur
      BY EditCases
  <1>3. CASE item' = item /\ pc' = [pc EXCEPT ![r] = "fail"]
      BY <1>2, <1>3, MoveLed
  <1>4. CASE \E s \in Slots :
               /\ IsFirst(s, cur[r])
               /\ item'[s].id = item[s].id
               /\ item'[s].state = st
               /\ \A t \in Slots \ {s} : item'[t] = item[t]
               /\ pc' = [pc EXCEPT ![r] = where]
      <2>1. PICK s \in Slots :
               /\ IsFirst(s, cur[r])
               /\ item'[s].id = item[s].id
               /\ item'[s].state = st
               /\ \A t \in Slots \ {s} : item'[t] = item[t]
               /\ pc' = [pc EXCEPT ![r] = where]
          BY <1>4
      <2>2. item[s].id = cur[r] /\ Standing(s)
          BY <2>1 DEF IsFirst, Matches, FileInv, Standing
      <2>3. \A q \in Runners \ {r} : pc[q] \in {"off", "busy"}
          BY <1>2, OthersAway DEF Leading, InCharge
      <2>4. pc'[r] = where /\ \A q \in Runners \ {r} : pc'[q] = pc[q]
          BY <2>1 DEF TypeOK
      <2>5. \A t \in Slots : item'[t].state = RUNNING => item'[t].id = cur[r]
          BY <1>2, <2>1, <2>2 DEF LedInv, LedCaseOnly
      <2>6. ASSUME where = "loop" PROVE \A t \in Slots : item'[t].state # RUNNING
          <3>1. st # RUNNING
              BY <1>1, <2>6 DEF EditKind, RUNNING, QUEUED, RETRY, BLOCKED, FAILED, DONE
          <3>2. ASSUME NEW t \in Slots \ {s}, item[t].state = RUNNING PROVE FALSE
              <4>1. item[t].id = cur[r]
                  BY <1>2, <3>2 DEF LedInv, LedCaseOnly
              <4>2. Standing(t)
                  BY <3>2 DEF Standing, RUNNING, ABSENT, DROPPED
              <4>3. QED
                  BY <2>2, <4>1, <4>2 DEF FileInv, UniqueLive, Standing
          <3>3. QED
              BY <2>1, <3>1, <3>2
      <2>7. where \in {"run", "confirm", "loop", "finish"}
          BY <1>1 DEF EditKind
      <2>8. LedCaseOnly'
          BY <1>2, <2>3, <2>4, <2>5, <2>6, <2>7 DEF LedCaseOnly, Leading
      <2>9. ASSUME NEW t \in Slots, Leading(r)', Standing(t)', item'[t].id = cur'[r]
            PROVE  item'[t].state \in LIVE
          <3>1. CASE t = s
              <4>1. st = RUNNING
                  BY <1>1, <2>4, <2>9 DEF EditKind, Leading
              <4>2. QED
                  BY <2>1, <3>1, <4>1 DEF LIVE
          <3>2. CASE t # s
              BY <1>2, <2>1, <2>9, <3>2 DEF LedInv, Standing
          <3>3. QED
              BY <3>1, <3>2
      <2>10. \A q \in Runners : Leading(q)' => q = r
          BY <2>3, <2>4 DEF Leading
      <2>11. QED
          BY <2>8, <2>9, <2>10 DEF LedInv
  <1>5. QED
      BY <1>1, <1>3, <1>4 DEF RunnerEdit

\* The steps of a runner that are not edits of its case.
LEMMA RunnerLed ==
  ASSUME TypeOK, LockInv, FileInv, LedInv, NEW r \in Runners, RunnerStep(r), ~EditOf(r)
  PROVE  LedInv'
  <1> USE DEF file, local, GoTo
  <1>1. CASE Heal(r)
      <2>1. \A s \in Slots : item'[s].state # RUNNING
          <3>1. \A s \in Slots : Settled(item[s], QUEUED, item[s].stage).state = QUEUED
              BY DEF TypeOK, Settled, Item
          <3>2. QED
              BY <1>1, <3>1 DEF Heal, RUNNING, QUEUED
      <2>2. \A q \in Runners : ~Leading(q)'
          BY <1>1, OthersAway DEF Heal, InCharge, Leading, TypeOK
      <2>3. QED
          BY <2>1, <2>2 DEF LedInv, LedCaseOnly
  <1>2. CASE Requeue(r)
      <2>1. \A s \in Slots : Again(item[s]).state = QUEUED
          BY AgainItem DEF TypeOK
      <2>2. \A s \in Slots : item'[s].state # RUNNING
          BY <1>2, <2>1 DEF Requeue, LedInv, LedCaseOnly, RUNNING, QUEUED
      <2>3. \A q \in Runners : ~Leading(q)'
          BY <1>2, OthersAway DEF Requeue, InCharge, Leading, TypeOK
      <2>4. QED
          BY <2>2, <2>3 DEF LedInv, LedCaseOnly
  <1>3. CASE Pick(r)
      <2>1. PICK s \in Slots : IsNext(s) /\ cur' = [cur EXCEPT ![r] = item[s].id]
          BY <1>3 DEF Pick
      <2>2. Standing(s) /\ item[s].state \in LIVE
          BY <2>1 DEF IsNext, Ready, Standing, LIVE, QUEUED, RETRY, ABSENT, DROPPED
      <2>3. \A t \in Slots : Standing(t) /\ item[t].id = item[s].id => t = s
          BY <2>2 DEF FileInv, UniqueLive, Standing
      <2>4. \A q \in Runners \ {r} : pc[q] \in {"off", "busy"}
          BY <1>3, OthersAway DEF Pick, InCharge
      <2>5. /\ pc'[r] = "flag" /\ cur'[r] = item[s].id /\ UNCHANGED item
            /\ \A q \in Runners \ {r} : pc'[q] = pc[q]
          BY <1>3, <2>1 DEF Pick, TypeOK
      <2>6. \A t \in Slots : item[t].state # RUNNING
          BY <1>3 DEF Pick, LedInv, LedCaseOnly
      <2>7. LedCaseOnly'
          BY <2>4, <2>5, <2>6 DEF LedCaseOnly, Leading
      <2>8. QED
          BY <2>2, <2>3, <2>4, <2>5, <2>7 DEF LedInv, Leading, Standing
  <1>4. CASE Leave(r)
      <2>1. \A q \in Runners : pc'[q] \in {"off", "busy"}
          BY <1>4, OthersAway DEF Leave, InCharge, TypeOK
      <2>2. QED
          BY <2>1 DEF LedInv, LedCaseOnly, Leading
  <1>5. CASE Refused(r) \/ Rejudge(r) \/ Exhausted(r) \/ Finish(r)
      BY <1>5, MoveLed DEF Refused, Rejudge, Exhausted, Finish
  <1>6. CASE CheckFlag(r) \/ Judge(r) \/ RunStage(r)
      BY <1>6, MoveLed DEF CheckFlag, Judge, NextStage, RunStage, Leading
  <1>7. CASE Confirm(r)
      BY <1>7, MoveLed DEF Confirm, EditOf, NextStage, Leading
  <1>8. QED
      BY <1>1, <1>2, <1>3, <1>4, <1>5, <1>6, <1>7 DEF RunnerStep, EditOf

LEMMA LedInit == Init => LedInv
  BY DEF Init, LedInv, LedCaseOnly, Leading

LEMMA LedNext ==
  TypeOK /\ LockInv /\ FileInv /\ LedInv /\ [Next]_vars => LedInv'
  <1> SUFFICES ASSUME TypeOK, LockInv, FileInv, LedInv, [Next]_vars PROVE LedInv'
      OBVIOUS
  <1> USE DEF file, local, GoTo
  <1>1. ASSUME NEW r \in Runners, Start(r) PROVE LedInv'
      BY <1>1, MoveLed DEF Start
  <1>2. ASSUME NEW r \in Runners, RunnerStep(r) PROVE LedInv'
      BY <1>2, EditLed, RunnerLed
  <1>3. ASSUME NEW r \in Runners, Interrupt(r) PROVE LedInv'
      <2>1. CASE GoTo(r, "leave")
          BY <1>3, <2>1, MoveLed DEF Interrupt
      <2>2. CASE (pc[r] = "loop" \/ Leading(r)) /\ GoTo(r, "finish")
          BY <1>3, <2>2, MoveLed DEF Interrupt
      <2>3. QED
          BY <1>3, <2>1, <2>2 DEF Interrupt
  <1>4. ASSUME NEW r \in Runners, Kill(r) PROVE LedInv'
      <2>1. \A q \in Runners : pc'[q] \in {"off", "busy"}
          BY <1>4, OthersAway DEF Kill, TypeOK
      <2>2. QED
          BY <2>1 DEF LedInv, LedCaseOnly, Leading
  <1>5. CASE \A r \in Runners : ~(Start(r) \/ RunnerStep(r) \/ Interrupt(r) \/ Kill(r))
      BY <1>5, PeopleAreGentle, GentleLed
  <1>6. QED
      BY <1>1, <1>2, <1>3, <1>4, <1>5

\* Unless two `queue add` of one case run at once, only the case led is marked
\* "running".
THEOREM OnlyTheLedCase == Spec /\ []NoTwin => []LedCaseOnly
  <1>1. LedInv => LedCaseOnly
      BY DEF LedInv
  <1>2. QED
      BY <1>1, LedInit, LedNext, LockInit, LockNext, FileInit, FileNext,
         TypeInit, TypeNext, PTL DEF Spec

\* What NoOverrule asks of one step.
Obedient ==
  \A s \in Slots :
     /\ item'[s].state = RUNNING => item[s].state \in {QUEUED, RETRY, RUNNING}
     /\ item[s].state = DROPPED => item'[s] = item[s]

LEMMA ObedientStep ==
  TypeOK /\ LockInv /\ FileInv /\ LedInv /\ [Next]_vars => Obedient
  <1> SUFFICES ASSUME TypeOK, FileInv, LedInv, [Next]_vars PROVE Obedient
      OBVIOUS
  <1> USE DEF file, local
  <1>1. ASSUME NEW s \in Slots, item[s].state = DROPPED PROVE item'[s] = item[s]
      <2>1. CASE \E a \in Adders : AddWrite(a)
          BY <1>1, <2>1 DEF AddWrite, TypeOK, DROPPED, ABSENT
      <2>2. CASE \A a \in Adders : ~AddWrite(a)
          BY <1>1, <2>2, OthersKeepCases DEF KeepsCases
      <2>3. QED
          BY <2>1, <2>2
  <1>2. ASSUME NEW s \in Slots, item'[s].state = RUNNING
        PROVE  item[s].state \in {QUEUED, RETRY, RUNNING}
      <2>1. ASSUME NEW r \in Runners, EditOf(r) PROVE item[s].state \in LIVE
          <3>1. PICK st \in States, where \in Places : RunnerEdit(r, st, where)
              BY <2>1, EditCases
          <3>2. Leading(r)
              BY <2>1, EditCases
          <3>3. CASE item'[s] = item[s]
              BY <1>2, <3>3 DEF LIVE
          <3>4. CASE IsFirst(s, cur[r])
              BY <3>2, <3>4 DEF IsFirst, Matches, FileInv, LedInv, Standing
          <3>5. QED
              BY <3>1, <3>3, <3>4 DEF RunnerEdit
      <2>2. CASE Gentle
          BY <1>2, <2>2 DEF Gentle, RUNNING, QUEUED, DROPPED
      <2>3. ASSUME NEW r \in Runners,
                   Start(r) \/ (RunnerStep(r) /\ ~EditOf(r)) \/ Interrupt(r) \/ Kill(r)
            PROVE  Gentle
          <3>1. CASE Heal(r)
              <4>1. \A t \in Slots : Settled(item[t], QUEUED, item[t].stage).state = QUEUED
                  BY DEF TypeOK, Settled, Item
              <4>2. QED
                  BY <3>1, <4>1 DEF Heal, Gentle
          <3>2. CASE Requeue(r)
              <4>1. \A t \in Slots : Again(item[t]).state = QUEUED
                  BY AgainItem DEF TypeOK
              <4>2. QED
                  BY <3>2, <4>1 DEF Requeue, Gentle
          <3>3. CASE UNCHANGED item
              BY <3>3 DEF Gentle
          <3>4. ASSUME RunnerStep(r), ~EditOf(r), ~Heal(r), ~Requeue(r) PROVE UNCHANGED item
              BY <3>4 DEF RunnerStep, EditOf, Refused, Rejudge, Pick, Exhausted,
                          CheckFlag, Judge, RunStage, Confirm, Finish, Leave
          <3>5. QED
              BY <2>3, <3>1, <3>2, <3>3, <3>4 DEF Start, Interrupt, Kill
      <2>4. QED
          BY <2>1, <2>2, <2>3, PeopleAreGentle DEF LIVE
  <1>3. QED
      BY <1>1, <1>2 DEF Obedient

\* Unless two `queue add` of one case run at once, the runner overrules nobody.
THEOREM PeopleObeyed == Spec /\ []NoTwin => NoOverrule
  <1>1. Obedient => [\A s \in Slots :
                       /\ item'[s].state = RUNNING => item[s].state \in {QUEUED, RETRY, RUNNING}
                       /\ item[s].state = DROPPED => item'[s] = item[s]]_item
      BY DEF Obedient
  <1>2. QED
      BY <1>1, ObedientStep, LedInit, LedNext, LockInit, LockNext, FileInit,
         FileNext, TypeInit, TypeNext, PTL DEF Spec, NoOverrule

-----------------------------------------------------------------------------
(* A case that is done has passed every stage.                             *)

\* The runner steps over a stage only when the disk holds its result, and the
\* disk gives nothing back but by a person's decision.
PassedInv ==
  /\ DoneIsPassed
  /\ \A r \in Runners, n \in Stages :
        Leading(r) /\ n < at[r] => <<cur[r], n>> \in disk \cup revoked
  /\ \A r \in Runners, n \in Stages :
        pc[r] = "close" => <<cur[r], n>> \in disk \cup revoked

LEMMA PassedInit == Init => PassedInv
  <1> SUFFICES ASSUME Init PROVE PassedInv
      OBVIOUS
  <1>1. \A s \in Slots : item[s].state = ABSENT
      BY DEF Init, NewItem
  <1>2. QED
      BY <1>1 DEF Init, PassedInv, DoneIsPassed, Leading, ABSENT, DONE

\* Nothing but the end of a case makes a record "done".
DoneKept ==
  \A s \in Slots : item'[s].state = DONE =>
     item[s].state = DONE /\ item'[s].id = item[s].id

LEMMA GentleKeepsDone == Gentle => DoneKept
  BY DEF Gentle, DoneKept, DONE, QUEUED, DROPPED

\* Steps that neither finish a case nor move a runner on keep the invariant.
LEMMA KeepsPassed ==
  ASSUME PassedInv, DoneKept, disk \cup revoked \subseteq disk' \cup revoked',
         \A r \in Runners :
            \/ ~Leading(r)'
            \/ /\ Leading(r) /\ cur'[r] = cur[r] /\ at'[r] = at[r]
               /\ pc'[r] = "close" => pc[r] = "close"
  PROVE  PassedInv'
  <1>1. DoneIsPassed'
      BY DEF PassedInv, DoneIsPassed, DoneKept
  <1>2. \A r \in Runners : pc'[r] = "close" => Leading(r)'
      BY DEF Leading
  <1>3. QED
      BY <1>1, <1>2 DEF PassedInv

LEMMA PeopleKeepPassed ==
  ASSUME TypeOK, PassedInv, [Next]_vars,
         \A r \in Runners : ~(Start(r) \/ RunnerStep(r) \/ Interrupt(r) \/ Kill(r))
  PROVE  PassedInv'
  <1>1. disk \cup revoked \subseteq disk' \cup revoked' /\ UNCHANGED at
      BY DEF Next, vars, local, people, AddWrite, AddLook, RetryCase, Decide, Drop, RetryAll,
             Probe, ToolStep, EndProbe, StopWrite, DropProbe, DropAsked,
             DropWrite, Repair, Tick
  <1>2. \A r \in Runners : Leading(r)' <=> Leading(r)
      BY PeopleAreGentle DEF Leading
  <1>3. QED
      BY <1>1, <1>2, PeopleAreGentle, GentleKeepsDone, KeepsPassed

\* The two places where the runner goes on to the next stage.
LEMMA NextStagePassed ==
  ASSUME TypeOK, PassedInv, NEW r \in Runners, Leading(r), NextStage(r),
         <<cur[r], at[r]>> \in disk, UNCHANGED <<item, disk, revoked, cur>>
  PROVE  PassedInv'
  <1>1. /\ at[r] \in Nat /\ at[r] \in Stages /\ Stages = 1..NStages /\ NStages \in Nat
        /\ Stages \subseteq Nat
      BY Sizes DEF TypeOK, Stages
  <1>2. /\ at'[r] = IF at[r] < NStages THEN at[r] + 1 ELSE at[r]
        /\ pc'[r] = IF at[r] < NStages THEN "flag" ELSE "close"
        /\ \A q \in Runners \ {r} : at'[q] = at[q] /\ pc'[q] = pc[q]
      BY DEF NextStage, GoTo, TypeOK
  <1>3. ASSUME NEW n \in Stages, n < at'[r] PROVE <<cur[r], n>> \in disk \cup revoked
      <2>1. n < at[r] \/ n = at[r]
          BY <1>1, <1>2, <1>3
      <2>2. QED
          BY <2>1 DEF PassedInv
  <1>4. ASSUME NEW n \in Stages, pc'[r] = "close" PROVE <<cur[r], n>> \in disk \cup revoked
      <2>1. ~(at[r] < NStages)
          BY <1>2, <1>4
      <2>2. n < at[r] \/ n = at[r]
          BY <1>1, <2>1
      <2>3. QED
          BY <2>2 DEF PassedInv
  <1>5. \A q \in Runners \ {r} : Leading(q)' <=> Leading(q)
      BY <1>2 DEF Leading
  <1>6. QED
      BY <1>2, <1>3, <1>4, <1>5 DEF PassedInv, DoneIsPassed

LEMMA EditPassed ==
  ASSUME TypeOK, PassedInv, NEW r \in Runners, EditOf(r)
  PROVE  PassedInv'
  <1>1. PICK st \in States, where \in Places :
          /\ EditKind(st, where)
          /\ RunnerEdit(r, st, where)
          /\ st = DONE => pc[r] = "close"
      BY EditCases
  <1>2. UNCHANGED <<cur, disk, revoked, at>> /\ Leading(r)
      BY EditCases DEF EditOf, Halt, Mark, SettleOutcome, SettleRetry, Confirm,
                       Close, local, people
  <1>3. pc' = [pc EXCEPT ![r] = where] \/ pc' = [pc EXCEPT ![r] = "fail"]
      BY <1>1 DEF RunnerEdit
  <1>4. where # "close"
      BY <1>1 DEF EditKind
  <1>5. ASSUME NEW s \in Slots, item'[s].state = DONE, NEW n \in Stages
        PROVE  <<item'[s].id, n>> \in disk \cup revoked
      <2>1. CASE item'[s] = item[s]
          BY <1>5, <2>1 DEF PassedInv, DoneIsPassed
      <2>2. CASE IsFirst(s, cur[r]) /\ item'[s].id = item[s].id /\ item'[s].state = st
          BY <1>1, <1>5, <2>2 DEF IsFirst, Matches, PassedInv
      <2>3. QED
          BY <1>1, <2>1, <2>2 DEF RunnerEdit
  <1>6. \A q \in Runners : pc'[q] = pc[q] \/ pc'[q] # "close"
      BY <1>3, <1>4 DEF TypeOK
  <1>7. \A q \in Runners : Leading(q)' => Leading(q)
      BY <1>2, <1>3 DEF TypeOK, Leading
  <1>8. QED
      BY <1>2, <1>5, <1>6, <1>7 DEF PassedInv, DoneIsPassed

LEMMA PassedNext == TypeOK /\ PassedInv /\ [Next]_vars => PassedInv'
  <1> SUFFICES ASSUME TypeOK, PassedInv, [Next]_vars PROVE PassedInv'
      OBVIOUS
  <1> USE DEF file, local, people, GoTo
  <1>1. ASSUME NEW r \in Runners, EditOf(r) PROVE PassedInv'
      BY <1>1, EditPassed
  <1>2. ASSUME NEW r \in Runners, Judge(r) \/ Confirm(r), <<cur[r], at[r]>> \in disk
        PROVE  PassedInv'
      BY <1>2, NextStagePassed DEF Judge, Confirm, Leading
  <1>3. ASSUME NEW r \in Runners, Heal(r) \/ Requeue(r) PROVE PassedInv'
      <2>1. \A s \in Slots : /\ Settled(item[s], QUEUED, item[s].stage).state = QUEUED
                            /\ Again(item[s]).state = QUEUED
          BY AgainItem DEF TypeOK, Settled, Item
      <2>2. DoneKept
          BY <1>3, <2>1 DEF Heal, Requeue, DoneKept, QUEUED, DONE
      <2>3. QED
          BY <1>3, <2>2, KeepsPassed DEF Heal, Requeue, Leading, TypeOK
  <1>4. ASSUME NEW r \in Runners, Pick(r) PROVE PassedInv'
      <2>1. /\ pc'[r] = "flag" /\ at'[r] = 1 /\ UNCHANGED <<item, disk, revoked>>
            /\ \A q \in Runners \ {r} :
                  pc'[q] = pc[q] /\ at'[q] = at[q] /\ cur'[q] = cur[q]
          BY <1>4 DEF Pick, TypeOK
      <2>2. \A n \in Stages : ~(n < 1)
          BY Sizes DEF Stages
      <2>3. \A q \in Runners \ {r} : Leading(q)' <=> Leading(q)
          BY <2>1 DEF Leading
      <2>4. QED
          BY <2>1, <2>2, <2>3 DEF PassedInv, DoneIsPassed
  <1>5. ASSUME NEW r \in Runners,
               Start(r) \/ Refused(r) \/ Rejudge(r) \/ Exhausted(r) \/ Finish(r)
               \/ Interrupt(r)
        PROVE  PassedInv'
      <2>1. DoneKept /\ UNCHANGED <<disk, revoked, at, cur>>
          BY <1>5 DEF Start, Refused, Rejudge, Exhausted, Finish, Interrupt, DoneKept
      <2>2. \E where \in Places \ {"close"} :
              /\ pc' = [pc EXCEPT ![r] = where]
              /\ where \in {"off", "busy", "heal", "requeue", "finish", "leave"}
          BY <1>5 DEF Start, Refused, Rejudge, Exhausted, Finish, Interrupt, Places
      <2>3. QED
          BY <2>1, <2>2, KeepsPassed DEF Leading, TypeOK
  <1>6. ASSUME NEW r \in Runners, Leave(r) \/ Kill(r) PROVE PassedInv'
      BY <1>6, KeepsPassed DEF Leave, Kill, Forget, Leading, TypeOK, DoneKept
  <1>7. ASSUME NEW r \in Runners,
               CheckFlag(r) \/ RunStage(r) \/ (Judge(r) /\ <<cur[r], at[r]>> \notin disk)
        PROVE  PassedInv'
      <2>1. DoneKept /\ disk \cup revoked \subseteq disk' \cup revoked' /\ UNCHANGED <<at, cur>>
          BY <1>7 DEF CheckFlag, RunStage, Judge, DoneKept
      <2>2. /\ Leading(r)
            /\ \E where \in {"halt", "judge", "mark", "out"} : pc' = [pc EXCEPT ![r] = where]
          BY <1>7 DEF CheckFlag, RunStage, Judge, Leading
      <2>3. QED
          BY <2>1, <2>2, KeepsPassed DEF Leading, TypeOK
  <1>8. CASE \A r \in Runners : ~(Start(r) \/ RunnerStep(r) \/ Interrupt(r) \/ Kill(r))
      BY <1>8, PeopleKeepPassed
  <1>9. ASSUME NEW r \in Runners, RunnerStep(r) PROVE PassedInv'
      BY <1>1, <1>2, <1>3, <1>4, <1>5, <1>6, <1>7, <1>9 DEF RunnerStep, EditOf
  <1>10. QED
      BY <1>5, <1>6, <1>8, <1>9

\* A case is "done" only when the disk confirms every stage of it.
THEOREM DoneMeansPassed == Spec => []DoneIsPassed
  <1>1. PassedInv => DoneIsPassed
      BY DEF PassedInv
  <1>2. QED
      BY <1>1, PassedInit, PassedNext, TypeInit, TypeNext, PTL DEF Spec

-----------------------------------------------------------------------------
(* The retries of a stage are bounded.                                     *)

\* The attempts in the file and in a runner's snapshot of it are bounded.
TriesInv ==
  /\ TriesBounded
  /\ \A r \in Runners, n \in Stages : tried[r][n] <= MaxTries

\* What every edit but the count of a retry does to the attempts.
TriesKept ==
  \A s \in Slots : item'[s].tries = item[s].tries \/ item'[s].tries = NoTries

LEMMA NoTriesBounded == \A n \in Stages : NoTries[n] <= MaxTries
  BY Sizes DEF NoTries

LEMMA TriesInit == Init => TriesInv
  <1> SUFFICES ASSUME Init PROVE TriesInv
      OBVIOUS
  <1>1. \A s \in Slots : item[s].tries = NoTries
      BY DEF Init, NewItem
  <1>2. \A r \in Runners : tried[r] = NoTries
      BY DEF Init
  <1>3. QED
      BY <1>1, <1>2, NoTriesBounded DEF TriesInv, TriesBounded

LEMMA KeepsTries ==
  ASSUME TypeOK, TriesInv, TriesKept,
         \A r \in Runners :
            \/ tried'[r] \in {tried[r], NoTries}
            \/ \E s \in Slots : tried'[r] = item[s].tries
  PROVE  TriesInv'
  <1>1. TriesBounded'
      BY NoTriesBounded DEF TriesInv, TriesBounded, TriesKept
  <1>2. ASSUME NEW r \in Runners, NEW n \in Stages PROVE tried'[r][n] <= MaxTries
      BY NoTriesBounded DEF TriesInv, TriesBounded
  <1>3. QED
      BY <1>1, <1>2 DEF TriesInv

LEMMA SettleTries ==
  ASSUME TypeOK, NEW r \in Runners, NEW st \in States, NEW n \in 0..NStages,
         NEW where, Settle(r, st, n, where)
  PROVE  TriesKept
  <1>1. ASSUME NEW s \in Slots, item' = [item EXCEPT ![s] = Settled(item[s], st, n)]
        PROVE  TriesKept
      <2>1. Settled(item[s], st, n).tries = item[s].tries
          BY DEF TypeOK, Settled, Item
      <2>2. QED
          BY <1>1, <2>1 DEF TypeOK, TriesKept
  <1>2. QED
      BY <1>1 DEF Settle, TriesKept

\* The one edit that counts: it writes at most MaxTries.
LEMMA RetryTries ==
  ASSUME TypeOK, TriesInv, NEW r \in Runners, SettleRetry(r)
  PROVE  TriesInv'
  <1> USE DEF local
  <1>1. at[r] \in 0..NStages /\ at[r] \in Stages
      BY StagesNat DEF TypeOK
  <1>2. UNCHANGED tried
      BY DEF SettleRetry
  <1>3. CASE TooMany(r)
      BY <1>1, <1>2, <1>3, Constants, SettleTries, KeepsTries DEF SettleRetry
  <1>4. CASE ~TooMany(r)
      <2> DEFINE tr == [tried[r] EXCEPT ![at[r]] = Counted(r)]
                 now == (out[r] = "again")
      <2>1. tr \in [Stages -> Nat] /\ now \in BOOLEAN /\ tried[r] \in [Stages -> Nat]
          BY CountedNat DEF TypeOK
      <2>2. \A n \in Stages : tr[n] <= MaxTries
          <3>1. Counted(r) <= MaxTries
              BY <1>4, CountedNat, Sizes DEF TooMany
          <3>2. QED
              BY <2>1, <3>1 DEF TriesInv
      <2>3. \/ \E s \in Slots :
                  item' = [item EXCEPT ![s] = Postponed(item[s], at[r], tr, now)]
            \/ UNCHANGED item
          BY <1>4 DEF SettleRetry
      <2> HIDE DEF tr, now
      <2>4. \A s \in Slots : Postponed(item[s], at[r], tr, now).tries = tr
          BY <1>1, <2>1, PostponedItem DEF TypeOK
      <2>5. \A s \in Slots : item'[s].tries = item[s].tries \/ item'[s].tries = tr
          BY <2>3, <2>4 DEF TypeOK
      <2>6. QED
          BY <1>2, <2>2, <2>5 DEF TriesInv, TriesBounded
  <1>5. QED
      BY <1>3, <1>4

LEMMA TriesNext == TypeOK /\ TriesInv /\ [Next]_vars => TriesInv'
  <1> SUFFICES ASSUME TypeOK, TriesInv, [Next]_vars PROVE TriesInv'
      OBVIOUS
  <1> USE Constants DEF file, local, people
  <1>1. ASSUME NEW s \in Slots
        PROVE  /\ \A st, n : Settled(item[s], st, n).tries = item[s].tries
               /\ Again(item[s]).tries = NoTries
               /\ Completed(item[s]).tries = NoTries
               /\ \A c : NewItem(c).tries = NoTries
               /\ [item[s] EXCEPT !.due = TRUE].tries = item[s].tries
      <2>1. item[s] \in Item
          BY DEF TypeOK
      <2>2. \A st, n : Settled(item[s], st, n).tries = item[s].tries
          BY <2>1 DEF Settled, Item
      <2>3. Again(item[s]).tries = NoTries
          BY <2>1, AgainItem
      <2>4. Completed(item[s]).tries = NoTries
          BY <2>1, CompletedItem
      <2>5. QED
          BY <2>1, <2>2, <2>3, <2>4 DEF NewItem, Item
  <1>2. ASSUME NEW r \in Runners, NEW s \in Slots,
               item' = [item EXCEPT ![s] = Settled(item[s], RUNNING, at[r])]
        PROVE  TriesKept
      BY <1>1, <1>2 DEF TriesKept, TypeOK
  <1>3. ASSUME NEW r \in Runners,
               Halt(r) \/ SettleOutcome(r) \/ (Confirm(r) /\ <<cur[r], at[r]>> \notin disk)
        PROVE  TriesInv'
      <2>1. at[r] \in 0..NStages
          BY StagesNat DEF TypeOK
      <2>2. \E st \in States : \E where : Settle(r, st, at[r], where)
          BY <1>3 DEF Halt, SettleOutcome, Confirm
      <2>3. TriesKept
          BY <2>1, <2>2, SettleTries
      <2>4. UNCHANGED tried
          BY <1>3 DEF Halt, SettleOutcome, Confirm
      <2>5. QED
          BY <2>3, <2>4, KeepsTries
  <1>4. ASSUME NEW r \in Runners, Mark(r) PROVE TriesInv'
      <2>1. TriesKept
          BY <1>2, <1>4 DEF Mark, TriesKept
      <2>2. \A q \in Runners : tried'[q] = tried[q] \/ \E s \in Slots : tried'[q] = item[s].tries
          BY <1>4 DEF Mark, TypeOK
      <2>3. QED
          BY <2>1, <2>2, KeepsTries
  <1>5. ASSUME NEW r \in Runners, Close(r) PROVE TriesInv'
      <2>1. TriesKept
          BY <1>1, <1>5 DEF Close, TriesKept, TypeOK
      <2>2. QED
          BY <1>5, <2>1, KeepsTries DEF Close
  <1>6. ASSUME NEW r \in Runners, Heal(r) \/ Requeue(r) PROVE TriesInv'
      <2>1. TriesKept
          <3>1. \A s \in Slots : item'[s] \in {item[s], Settled(item[s], QUEUED, item[s].stage), Again(item[s])}
              BY <1>6 DEF Heal, Requeue
          <3>2. QED
              BY <1>1, <3>1 DEF TriesKept
      <2>2. QED
          BY <1>6, <2>1, KeepsTries DEF Heal, Requeue
  <1>7. ASSUME NEW r \in Runners, Pick(r) PROVE TriesInv'
      <2>1. TriesKept
          BY <1>7 DEF Pick, TriesKept
      <2>2. \A q \in Runners : tried'[q] = tried[q] \/ \E s \in Slots : tried'[q] = item[s].tries
          BY <1>7 DEF Pick, TypeOK
      <2>3. QED
          BY <2>1, <2>2, KeepsTries
  <1>8. ASSUME NEW r \in Runners, Leave(r) \/ Kill(r) PROVE TriesInv'
      BY <1>8, KeepsTries DEF Leave, Kill, Forget, TriesKept, TypeOK
  <1>9. ASSUME UNCHANGED <<item, tried>> PROVE TriesInv'
      BY <1>9 DEF TriesInv, TriesBounded
  <1>10. ASSUME NEW r \in Runners, RunnerStep(r) PROVE TriesInv'
      BY <1>3, <1>4, <1>5, <1>6, <1>7, <1>8, <1>9, <1>10, RetryTries
         DEF RunnerStep, Refused, Rejudge, Exhausted, CheckFlag, Judge, RunStage,
             Confirm, Finish
  <1>11. ASSUME NEW c, Edited(c) PROVE TriesInv'
      <2>1. PICK s \in Slots :
              \E x \in {Again(item[s]), item[s], Settled(item[s], DROPPED, item[s].stage)} :
                 item' = [item EXCEPT ![s] = x]
          BY <1>11, EditedOne
      <2>2. TriesKept
          BY <1>1, <2>1, Sizes DEF TriesKept, TypeOK
      <2>3. QED
          BY <1>11, <2>2, EditedOne, KeepsTries
  <1>12. ASSUME RetryAll PROVE TriesInv'
      <2>1. TriesKept
          BY <1>1, <1>12 DEF RetryAll, TriesKept
      <2>2. QED
          BY <1>12, <2>1, KeepsTries DEF RetryAll
  <1>13. ASSUME NEW a \in Adders, AddWrite(a) PROVE TriesInv'
      <2>1. TriesKept
          BY <1>1, <1>13 DEF AddWrite, TriesKept, TypeOK
      <2>2. QED
          BY <1>13, <2>1, KeepsTries DEF AddWrite
  <1>14. ASSUME NEW s \in Slots, Tick(s) PROVE TriesInv'
      <2>1. item' = [item EXCEPT ![s] = [item[s] EXCEPT !.due = TRUE]]
          BY <1>14 DEF Tick, TypeOK
      <2>2. TriesKept
          BY <1>1, <2>1 DEF TriesKept, TypeOK
      <2>3. QED
          BY <1>14, <2>2, KeepsTries DEF Tick
  <1>15. ASSUME NEW r \in Runners, Start(r) \/ Interrupt(r)
         PROVE  UNCHANGED <<item, tried>>
      BY <1>15 DEF Start, Interrupt
  <1>16. ASSUME \A r \in Runners : ~(Start(r) \/ RunnerStep(r) \/ Interrupt(r) \/ Kill(r))
         PROVE  UNCHANGED tried
      BY <1>16 DEF Next, vars, AddWrite, AddLook, RetryCase, Decide, Drop, RetryAll,
                   Probe, ToolStep, EndProbe, StopWrite, DropProbe, DropAsked,
                   DropWrite, Repair, Tick
  <1>17. QED
      BY <1>8, <1>9, <1>10, <1>11, <1>12, <1>13, <1>14, <1>15, <1>16, PeopleSteps

\* A stage is repeated by itself at most MaxTries times in a row.
THEOREM RetriesEnd == Spec => []TriesBounded
  <1>1. TriesInv => TriesBounded
      BY DEF TriesInv
  <1>2. QED
      BY <1>1, TriesInit, TriesNext, TypeInit, TypeNext, PTL DEF Spec

-----------------------------------------------------------------------------
(* CaseQueue implements LedQueue: what each step shows of itself.          *)

\* A standing record is what the case shows, and a case without one is absent.
Shown ==
  /\ \A s \in Slots : Standing(s) => StatusOf(item[s].id) = item[s].state
  /\ \A c \in Cases :
        (\A s \in Slots : Standing(s) => item[s].id # c) => StatusOf(c) = ABSENT

LEMMA StatusIs == FileInv => Shown
  <1> SUFFICES ASSUME FileInv PROVE Shown
      OBVIOUS
  <1>1. ASSUME NEW s \in Slots, Standing(s) PROVE StatusOf(item[s].id) = item[s].state
      <2> DEFINE t == CHOOSE t \in Slots : Standing(t) /\ item[t].id = item[s].id
      <2>1. t \in Slots /\ Standing(t) /\ item[t].id = item[s].id
          BY <1>1
      <2>2. t = s
          BY <1>1, <2>1 DEF FileInv, UniqueLive, Standing
      <2>3. QED
          BY <1>1, <2>2 DEF StatusOf
  <1>2. ASSUME NEW c \in Cases, \A s \in Slots : Standing(s) => item[s].id # c
        PROVE  StatusOf(c) = ABSENT
      BY <1>2 DEF StatusOf
  <1>3. QED
      BY <1>1, <1>2 DEF Shown

LEMMA StatusNext == FileInv' => Shown'
  BY StatusIs, PTL

\* How an edit that keeps the cases changes what one case shows.
LEMMA Seen ==
  ASSUME FileInv, FileInv', KeepsCases, NEW c \in Cases
  PROVE  \/ /\ StatusOf(c) = ABSENT
            /\ StatusOf(c)' = ABSENT
            /\ \A s \in Slots : Standing(s) => item[s].id # c
         \/ \E s \in Slots :
               /\ Standing(s)
               /\ item[s].id = c
               /\ StatusOf(c) = item[s].state
               /\ StatusOf(c)' = IF item'[s].state = DROPPED THEN ABSENT ELSE item'[s].state
  <1>1. \A s \in Slots : item'[s].id = item[s].id /\ (Standing(s)' => Standing(s))
      BY DEF KeepsCases, Standing
  <1>2. CASE \A s \in Slots : Standing(s) => item[s].id # c
      BY <1>1, <1>2, StatusIs, StatusNext DEF Shown
  <1>3. ASSUME NEW s \in Slots, Standing(s), item[s].id = c
        PROVE  /\ StatusOf(c) = item[s].state
               /\ StatusOf(c)' = IF item'[s].state = DROPPED THEN ABSENT ELSE item'[s].state
      <2>1. StatusOf(c) = item[s].state
          BY <1>3, StatusIs DEF Shown
      <2>2. CASE Standing(s)'
          BY <1>1, <1>3, <2>1, <2>2, StatusNext DEF Shown, Standing
      <2>3. CASE ~Standing(s)'
          <3>1. item'[s].state = DROPPED
              BY <1>3, <2>3 DEF KeepsCases, Standing
          <3>2. \A t \in Slots : Standing(t)' => item'[t].id # c
              BY <1>1, <1>3, <2>3 DEF FileInv, UniqueLive, Standing
          <3>3. QED
              BY <2>1, <3>1, <3>2, StatusNext DEF Shown
      <2>4. QED
          BY <2>2, <2>3
  <1>4. QED
      BY <1>2, <1>3

\* The edit of one record.
LEMMA SeenOne ==
  ASSUME FileInv, FileInv', KeepsCases, NEW s \in Slots, Standing(s),
         \A t \in Slots \ {s} : item'[t].state = item[t].state
  PROVE  /\ item[s].id \in Cases
         /\ Status[item[s].id] = item[s].state
         /\ Status' = [Status EXCEPT ![item[s].id] =
                         IF item'[s].state = DROPPED THEN ABSENT ELSE item'[s].state]
  <1> DEFINE new == IF item'[s].state = DROPPED THEN ABSENT ELSE item'[s].state
  <1>1. item[s].id \in Cases
      BY DEF FileInv, Standing
  <1>2. StatusOf(item[s].id) = item[s].state
      BY StatusIs DEF Shown
  <1>3. ASSUME NEW c \in Cases
        PROVE  StatusOf(c)' = IF c = item[s].id THEN new ELSE StatusOf(c)
      <2>1. CASE \E t \in Slots :
                   /\ Standing(t)
                   /\ item[t].id = c
                   /\ StatusOf(c) = item[t].state
                   /\ StatusOf(c)' = IF item'[t].state = DROPPED THEN ABSENT ELSE item'[t].state
          <3>1. PICK t \in Slots :
                   /\ Standing(t)
                   /\ item[t].id = c
                   /\ StatusOf(c) = item[t].state
                   /\ StatusOf(c)' = IF item'[t].state = DROPPED THEN ABSENT ELSE item'[t].state
              BY <2>1
          <3>2. CASE t = s
              BY <3>1, <3>2
          <3>3. CASE t # s
              <4>1. c # item[s].id
                  BY <3>1, <3>3 DEF FileInv, UniqueLive, Standing
              <4>2. item'[t].state = item[t].state /\ item[t].state # DROPPED
                  BY <3>1, <3>3 DEF Standing
              <4>3. QED
                  BY <3>1, <4>1, <4>2
          <3>4. QED
              BY <3>2, <3>3
      <2>2. CASE /\ StatusOf(c) = ABSENT
                 /\ StatusOf(c)' = ABSENT
                 /\ \A t \in Slots : Standing(t) => item[t].id # c
          BY <2>2
      <2>3. QED
          BY <2>1, <2>2, Seen
  <1>4. QED
      BY <1>1, <1>2, <1>3 DEF Status

\* Records going back to the queue.
LEMMA SeenBack ==
  ASSUME FileInv, FileInv', KeepsCases,
         \A s \in Slots : item'[s].state # item[s].state => item'[s].state = QUEUED
  PROVE  Status' = [c \in Cases |-> IF StatusOf(c)' # StatusOf(c) THEN QUEUED ELSE Status[c]]
  <1>1. ASSUME NEW c \in Cases, StatusOf(c)' # StatusOf(c) PROVE StatusOf(c)' = QUEUED
      <2>1. PICK s \in Slots :
               /\ Standing(s)
               /\ StatusOf(c) = item[s].state
               /\ StatusOf(c)' = IF item'[s].state = DROPPED THEN ABSENT ELSE item'[s].state
          BY <1>1, Seen
      <2>2. CASE item'[s].state = item[s].state
          BY <1>1, <2>1, <2>2 DEF Standing
      <2>3. CASE item'[s].state = QUEUED
          BY <2>1, <2>3 DEF QUEUED, DROPPED
      <2>4. QED
          BY <2>2, <2>3
  <1>2. QED
      BY <1>1 DEF Status

\* The case in hand is the case of the one runner that leads.
Handed ==
  /\ \A r \in Runners : Leading(r) => Hand = cur[r]
  /\ (\A r \in Runners : ~Leading(r)) => Hand = NoCase

LEMMA HandIs == LockInv => Handed
  <1> SUFFICES ASSUME LockInv PROVE Handed
      OBVIOUS
  <1>1. ASSUME NEW r \in Runners, Leading(r) PROVE Hand = cur[r]
      <2> DEFINE q == CHOOSE q \in Runners : Leading(q)
      <2>1. q \in Runners /\ Leading(q)
          BY <1>1
      <2>2. InCharge(r) /\ InCharge(q)
          BY <1>1, <2>1 DEF Leading, InCharge
      <2>3. q = r
          BY <2>1, <2>2 DEF LockInv
      <2>4. QED
          BY <1>1, <2>3 DEF Hand
  <1>2. (\A r \in Runners : ~Leading(r)) => Hand = NoCase
      BY DEF Hand
  <1>3. QED
      BY <1>1, <1>2 DEF Handed

LEMMA HandNext == LockInv' => Handed'
  BY HandIs, PTL

\* Somebody comes or leads exactly as the one runner in charge does.
Charged ==
  /\ \A r \in Runners : Phase(r) # "nobody" => Charge = Phase(r)
  /\ (\A r \in Runners : Phase(r) = "nobody") => Charge = "nobody"

LEMMA ChargeIs == LockInv => Charged
  <1> SUFFICES ASSUME LockInv PROVE Charged
      OBVIOUS
  <1>1. ASSUME NEW r \in Runners, Phase(r) # "nobody" PROVE Charge = Phase(r)
      <2> DEFINE q == CHOOSE q \in Runners : Phase(q) # "nobody"
      <2>1. q \in Runners /\ Phase(q) # "nobody"
          BY <1>1
      <2>2. \A p \in Runners : Phase(p) # "nobody" => InCharge(p)
          BY DEF Phase, InCharge
      <2>3. q = r
          <3> HIDE DEF q
          <3>1. QED
              BY <1>1, <2>1, <2>2 DEF LockInv
      <2>4. Charge = Phase(q)
          BY <1>1 DEF Charge
      <2>5. QED
          BY <2>3, <2>4
  <1>2. (\A r \in Runners : Phase(r) = "nobody") => Charge = "nobody"
      BY DEF Charge
  <1>3. QED
      BY <1>1, <1>2 DEF Charged

LEMMA ChargeNext == LockInv' => Charged'
  BY ChargeIs, PTL

\* Steps that move no runner into the lead or out of it, or into the charge of
\* the queue or out of that.
LEMMA SameHand ==
  ASSUME LockInv, LockInv',
         \A r \in Runners : /\ Leading(r)' <=> Leading(r)
                            /\ Phase(r)' = Phase(r)
                            /\ Leading(r) => cur'[r] = cur[r]
  PROVE  UNCHANGED <<Charge, Hand>>
  <1>1. Handed /\ Handed' /\ Charged /\ Charged'
      BY HandIs, HandNext, ChargeIs, ChargeNext
  <1>2. Charge' = Charge
      <2>1. CASE \E r \in Runners : Phase(r) # "nobody"
          BY <1>1, <2>1 DEF Charged
      <2>2. CASE \A r \in Runners : Phase(r) = "nobody"
          BY <1>1, <2>2 DEF Charged
      <2>3. QED
          BY <2>1, <2>2
  <1>3. Hand' = Hand
      <2>1. CASE \E r \in Runners : Leading(r)
          BY <1>1, <2>1 DEF Handed
      <2>2. CASE \A r \in Runners : ~Leading(r)
          BY <1>1, <2>2 DEF Handed
      <2>3. QED
          BY <2>1, <2>2
  <1>4. QED
      BY <1>2, <1>3

\* A step of the runner in charge: the others are away, so what the queue shows
\* of charge and hand is its own.
LEMMA Moved ==
  ASSUME TypeOK, LockInv, LockInv', NEW r \in Runners, InCharge(r),
         NEW where \in Places, pc' = [pc EXCEPT ![r] = where]
  PROVE  /\ Charge = Phase(r) /\ Charge' = Phase(r)'
         /\ Hand = IF Leading(r) THEN cur[r] ELSE NoCase
         /\ Hand' = IF Leading(r)' THEN cur'[r] ELSE NoCase
  <1>1. pc'[r] = where /\ \A q \in Runners \ {r} : pc'[q] = pc[q]
      BY DEF TypeOK
  <1>2. \A q \in Runners \ {r} : pc[q] \in {"off", "busy"}
      BY OthersAway
  <1>3. \A q \in Runners \ {r} : ~Leading(q) /\ ~Leading(q)'
      BY <1>1, <1>2 DEF Leading
  <1>4. Handed /\ Handed' /\ Charged /\ Charged'
      BY HandIs, HandNext, ChargeIs, ChargeNext
  <1>5. \A q \in Runners \ {r} : Phase(q) = "nobody" /\ Phase(q)' = "nobody"
      BY <1>1, <1>2 DEF Phase
  <1>6. Charge = Phase(r) /\ Charge' = Phase(r)'
      BY <1>4, <1>5 DEF Charged
  <1>7. Hand = IF Leading(r) THEN cur[r] ELSE NoCase
      BY <1>3, <1>4 DEF Handed
  <1>8. Hand' = IF Leading(r)' THEN cur'[r] ELSE NoCase
      BY <1>3, <1>4 DEF Handed
  <1>9. QED
      BY <1>6, <1>7, <1>8

LEMMA SameStatus == UNCHANGED item => UNCHANGED Status
  BY DEF Status, StatusOf, Standing

\* What one step may show of the queue.
Shows ==
  \/ UNCHANGED <<Status, Charge, Hand>>
  \/ \E c \in Cases : Led!Order(c) \/ Led!Withdraw(c) \/ Led!Take(c)
  \/ \E C \in SUBSET Cases : Led!PutBack(C)
  \/ \E x \in {"queued", "retry", "blocked", "failed", "done"} : Led!Conclude(x)
  \/ Led!TakeCharge \/ Led!Restore \/ Led!Work \/ Led!LetGo \/ Led!Leave

\* A runner that goes away, or has only to let run.lock go, leaves nobody in
\* charge.
LEMMA GoneAway ==
  ASSUME TypeOK, LockInv, LockInv', NEW r \in Runners, InCharge(r),
         NEW where \in {"off", "leave"}, pc' = [pc EXCEPT ![r] = where], UNCHANGED item
  PROVE  Shows
  <1>1. pc'[r] = where /\ where \in Places
      BY DEF TypeOK, Places
  <1>2. ~Leading(r)' /\ Phase(r)' = "nobody"
      BY <1>1 DEF Leading, Phase
  <1>3. Hand' = NoCase /\ Charge' = "nobody" /\ Charge = Phase(r)
      BY <1>1, <1>2, Moved
  <1>4. UNCHANGED Status
      BY SameStatus
  <1>5. CASE Phase(r) # "nobody"
      BY <1>3, <1>4, <1>5 DEF Shows, Led!Leave
  <1>6. CASE Phase(r) = "nobody"
      <2>1. ~Leading(r)
          BY <1>6 DEF Leading, Phase
      <2>2. Hand = NoCase
          BY <1>1, <2>1, Moved
      <2>3. QED
          BY <1>3, <1>4, <1>6, <2>2 DEF Shows
  <1>7. QED
      BY <1>5, <1>6

\* An edit of the case led is work on the case in hand, or its conclusion.
LEMMA EditShows ==
  ASSUME TypeOK, LockInv, FileInv, LedInv, PassedInv, LockInv', FileInv',
         NEW r \in Runners, EditOf(r)
  PROVE  Shows
  <1>1. PICK st \in States, where \in Places :
          /\ EditKind(st, where)
          /\ RunnerEdit(r, st, where)
          /\ st = DONE => pc[r] = "close"
      BY EditCases
  <1>2. Leading(r) /\ UNCHANGED cur
      BY EditCases
  <1>3. InCharge(r)
      BY <1>2 DEF Leading, InCharge
  <1>4. CASE item' = item /\ pc' = [pc EXCEPT ![r] = "fail"]
      <2>1. "fail" \in Places
          BY DEF Places
      <2>2. ~Leading(r)' /\ Phase(r)' = "leads" /\ Phase(r) = "leads"
          BY <1>2, <1>4 DEF Leading, Phase, TypeOK
      <2>3. Hand' = NoCase /\ UNCHANGED Charge
          BY <1>3, <1>4, <2>1, <2>2, Moved
      <2>4. UNCHANGED Status
          BY <1>4, SameStatus
      <2>5. QED
          BY <2>3, <2>4 DEF Shows, Led!LetGo
  <1>5. CASE \E s \in Slots :
               /\ IsFirst(s, cur[r])
               /\ item'[s].id = item[s].id
               /\ item'[s].state = st
               /\ \A t \in Slots \ {s} : item'[t] = item[t]
               /\ pc' = [pc EXCEPT ![r] = where]
      <2>1. PICK s \in Slots :
               /\ IsFirst(s, cur[r])
               /\ item'[s].id = item[s].id
               /\ item'[s].state = st
               /\ \A t \in Slots \ {s} : item'[t] = item[t]
               /\ pc' = [pc EXCEPT ![r] = where]
          BY <1>5
      <2>2. item[s].id = cur[r] /\ Standing(s)
          BY <2>1 DEF IsFirst, Matches, FileInv, Standing
      <2>3. item[s].state \in LIVE
          BY <1>2, <2>2 DEF LedInv
      <2>4. KeepsCases
          BY EditKeepsCases
      <2>5. st # DROPPED
          BY <1>1 DEF EditKind, QUEUED, RUNNING, RETRY, BLOCKED, FAILED, DONE, DROPPED
      <2>6. /\ cur[r] \in Cases
            /\ Status[cur[r]] = item[s].state
            /\ Status' = [Status EXCEPT ![cur[r]] = st]
          BY <2>1, <2>2, <2>4, <2>5, SeenOne
      <2>7. Phase(r) = "leads" /\ Phase(r)' = "leads"
          BY <1>1, <1>2, <2>1 DEF Phase, Leading, EditKind, TypeOK
      <2>8. /\ Charge' = Charge /\ Hand = cur[r]
            /\ Hand' = IF Leading(r)' THEN cur'[r] ELSE NoCase
          BY <1>2, <1>3, <2>1, <2>7, Moved
      <2>9. Status[Hand] \in {"queued", "retry", "running"}
          BY <2>3, <2>6, <2>8 DEF LIVE, QUEUED, RUNNING, RETRY
      <2>10. pc'[r] = where
          BY <2>1 DEF TypeOK
      <2>11. CASE st = RUNNING /\ where \in {"run", "confirm"}
          <3>1. Leading(r)'
              BY <2>10, <2>11 DEF Leading
          <3>2. Hand' = Hand
              BY <1>2, <2>8, <3>1
          <3>3. Led!Work
              BY <2>6, <2>8, <2>9, <2>11, <3>2 DEF Led!Work, RUNNING
          <3>4. QED
              BY <3>3 DEF Shows
      <2>12. CASE st \in {QUEUED, RETRY, BLOCKED, FAILED, DONE} /\ where \in {"loop", "finish"}
          <3>1. ~Leading(r)'
              BY <2>10, <2>12 DEF Leading
          <3>2. Hand' = NoCase
              BY <2>8, <3>1
          <3>3. st \in {"queued", "retry", "blocked", "failed", "done"}
              BY <2>12 DEF QUEUED, RETRY, BLOCKED, FAILED, DONE
          <3>4. ASSUME st = "done" PROVE Hand \in Passed
              <4>1. pc[r] = "close"
                  BY <1>1, <3>4 DEF DONE
              <4>2. QED
                  BY <2>6, <2>8, <4>1 DEF PassedInv, Passed
          <3>5. Led!Conclude(st)
              BY <2>6, <2>8, <2>9, <3>2, <3>4 DEF Led!Conclude
          <3>6. QED
              BY <3>3, <3>5 DEF Shows
      <2>13. QED
          BY <1>1, <2>11, <2>12 DEF EditKind
  <1>6. QED
      BY <1>1, <1>4, <1>5 DEF RunnerEdit

\* Records put back, by whomever, none of them one being worked on.
LEMMA BackShows ==
  ASSUME FileInv, FileInv', KeepsCases, UNCHANGED <<Charge, Hand>>,
         \A s \in Slots : item'[s].state # item[s].state =>
            item'[s].state = QUEUED /\ item[s].state # RUNNING
  PROVE  Shows
  <1> DEFINE C == {c \in Cases : StatusOf(c)' # StatusOf(c)}
  <1>1. Status' = [c \in Cases |-> IF c \in C THEN "queued" ELSE Status[c]]
      BY SeenBack DEF QUEUED
  <1>2. ASSUME NEW c \in C PROVE Status[c] \notin {"absent", "running"}
      <2>1. PICK s \in Slots :
               /\ Standing(s)
               /\ StatusOf(c) = item[s].state
               /\ StatusOf(c)' = IF item'[s].state = DROPPED THEN ABSENT ELSE item'[s].state
          BY <1>2, Seen
      <2>2. item'[s].state # item[s].state
          BY <1>2, <2>1 DEF Standing
      <2>3. QED
          BY <1>2, <2>1, <2>2 DEF Status, Standing, RUNNING, ABSENT
  <1>3. Led!PutBack(C)
      BY <1>1, <1>2 DEF Led!PutBack
  <1>4. QED
      BY <1>3 DEF Shows

\* heal() restores what the runner before left in the middle.
LEMMA HealShows ==
  ASSUME TypeOK, LockInv, LockInv', FileInv, FileInv', KeepsCases,
         NEW r \in Runners, Heal(r)
  PROVE  Shows
  <1>1. /\ InCharge(r) /\ ~Leading(r) /\ ~Leading(r)'
        /\ Phase(r) = "comes" /\ Phase(r)' = "leads"
        /\ "rejudge" \in Places
        /\ pc' = [pc EXCEPT ![r] = "rejudge"]
      BY DEF Heal, GoTo, InCharge, Leading, Phase, Places, TypeOK
  <1>2. Charge = "comes" /\ Charge' = "leads" /\ UNCHANGED Hand
      BY <1>1, Moved
  <1>3. ASSUME NEW s \in Slots
        PROVE  item'[s].state = IF item[s].state = RUNNING THEN QUEUED ELSE item[s].state
      <2>1. Settled(item[s], QUEUED, item[s].stage).state = QUEUED
          BY DEF TypeOK, Settled, Item
      <2>2. QED
          BY <2>1 DEF Heal
  <1>4. ASSUME NEW c \in Cases
        PROVE  StatusOf(c)' = IF StatusOf(c) = "running" THEN "queued" ELSE StatusOf(c)
      <2>1. CASE StatusOf(c) = ABSENT /\ StatusOf(c)' = ABSENT
          BY <2>1 DEF ABSENT
      <2>2. CASE \E s \in Slots :
                   /\ Standing(s)
                   /\ StatusOf(c) = item[s].state
                   /\ StatusOf(c)' = IF item'[s].state = DROPPED THEN ABSENT ELSE item'[s].state
          BY <1>3, <2>2 DEF Standing, RUNNING, QUEUED, DROPPED, ABSENT
      <2>3. QED
          BY <2>1, <2>2, Seen
  <1>5. Led!Restore
      BY <1>2, <1>4 DEF Led!Restore, Status
  <1>6. QED
      BY <1>5 DEF Shows

\* run() takes a case that may be taken while none is being worked on.
LEMMA PickShows ==
  ASSUME TypeOK, LockInv, LockInv', FileInv, LedInv, NEW r \in Runners, Pick(r)
  PROVE  Shows
  <1>1. /\ InCharge(r) /\ ~Leading(r) /\ Leading(r)'
        /\ Phase(r) = "leads" /\ Phase(r)' = "leads"
        /\ "flag" \in Places
        /\ pc' = [pc EXCEPT ![r] = "flag"]
      BY DEF Pick, GoTo, InCharge, Leading, Phase, Places, TypeOK
  <1>2. PICK s \in Slots : IsNext(s) /\ cur' = [cur EXCEPT ![r] = item[s].id]
      BY DEF Pick
  <1>3. cur'[r] = item[s].id
      BY <1>2 DEF TypeOK
  <1>4. Standing(s) /\ item[s].state \in {"queued", "retry"}
      BY <1>2 DEF IsNext, Ready, Standing, QUEUED, RETRY, ABSENT, DROPPED
  <1>5. item[s].id \in Cases /\ Status[item[s].id] = item[s].state
      BY <1>4, StatusIs DEF Shown, Status, FileInv, Standing
  <1>6. Charge = "leads" /\ UNCHANGED Charge /\ Hand = NoCase /\ Hand' = item[s].id
      BY <1>1, <1>3, Moved
  <1>7. \A t \in Slots : item[t].state # RUNNING
      BY DEF Pick, LedInv, LedCaseOnly
  <1>8. \A c \in Cases : Status[c] # "running"
      <2>1. ASSUME NEW c \in Cases PROVE StatusOf(c) = ABSENT \/ \E t \in Slots : StatusOf(c) = item[t].state
          BY StatusIs DEF Shown
      <2>2. QED
          BY <1>7, <2>1 DEF Status, ABSENT, RUNNING
  <1>9. UNCHANGED Status
      BY SameStatus DEF Pick, file
  <1>10. Led!Take(item[s].id)
      BY <1>4, <1>5, <1>6, <1>8, <1>9 DEF Led!Take
  <1>11. QED
      BY <1>5, <1>10 DEF Shows

\* The runner's other steps: it goes on with the case, lets go of it, or leaves.
LEMMA RunnerShows ==
  ASSUME TypeOK, LockInv, LockInv', FileInv, FileInv', LedInv, PassedInv, KeepsCases,
         NEW r \in Runners, RunnerStep(r)
  PROVE  Shows
  <1> USE DEF file, local, people, GoTo
  <1>1. CASE EditOf(r)
      BY <1>1, EditShows
  <1>2. CASE Heal(r)
      BY <1>2, HealShows
  <1>3. CASE Pick(r)
      BY <1>3, PickShows
  <1>4. CASE Requeue(r)
      <2>1. /\ InCharge(r) /\ ~Leading(r) /\ ~Leading(r)'
            /\ Phase(r) = "leads" /\ Phase(r)' = "leads"
            /\ "loop" \in Places
            /\ pc' = [pc EXCEPT ![r] = "loop"]
          BY <1>4 DEF Requeue, InCharge, Leading, Phase, Places, TypeOK
      <2>2. UNCHANGED <<Charge, Hand>>
          BY <2>1, Moved
      <2>3. \A s \in Slots : Again(item[s]).state = QUEUED
          BY AgainItem DEF TypeOK
      <2>4. \A s \in Slots : item'[s].state # item[s].state =>
               item'[s].state = QUEUED /\ item[s].state # RUNNING
          BY <1>4, <2>3 DEF Requeue, BLOCKED, RUNNING
      <2>5. QED
          BY <2>2, <2>4, BackShows
  <1>5. CASE Leave(r)
      <2>1. InCharge(r) /\ pc' = [pc EXCEPT ![r] = "off"] /\ UNCHANGED item
          BY <1>5 DEF Leave, InCharge
      <2>2. QED
          BY <2>1, GoneAway
  <1>6. CASE Refused(r)
      <2>1. \A q \in Runners : /\ Leading(q)' <=> Leading(q)
                               /\ Phase(q)' = Phase(q)
                               /\ cur'[q] = cur[q]
          BY <1>6 DEF Refused, Leading, Phase, TypeOK
      <2>2. QED
          BY <1>6, <2>1, SameHand, SameStatus DEF Refused, Shows
  <1>7. ASSUME UNCHANGED <<item, cur>>,
               \E where \in Places \ {"off", "busy"} :
                  /\ pc' = [pc EXCEPT ![r] = where]
                  /\ \/ /\ Leading(r)
                        /\ where \in {"flag", "halt", "judge", "mark", "run", "out",
                                      "confirm", "close"}
                     \/ /\ pc[r] \in {"rejudge", "loop"}
                        /\ where \in {"requeue", "finish"}
        PROVE  Shows
      <2>1. /\ InCharge(r)
            /\ Leading(r)' <=> Leading(r)
            /\ Phase(r) = "leads" /\ Phase(r)' = "leads"
          BY <1>7 DEF Leading, InCharge, Phase, TypeOK
      <2>2. UNCHANGED <<Charge, Hand>>
          BY <1>7, <2>1, Moved
      <2>3. QED
          BY <1>7, <2>2, SameStatus DEF Shows
  <1>8. CASE Rejudge(r) \/ Exhausted(r)
      BY <1>7, <1>8 DEF Rejudge, Exhausted, Places
  <1>9. CASE Finish(r)
      <2>1. InCharge(r) /\ pc' = [pc EXCEPT ![r] = "leave"] /\ UNCHANGED item
          BY <1>9 DEF Finish, InCharge
      <2>2. QED
          BY <2>1, GoneAway
  <1>10. CASE CheckFlag(r) \/ Judge(r) \/ RunStage(r)
      BY <1>7, <1>10 DEF CheckFlag, Judge, NextStage, RunStage, Leading, Places
  <1>11. CASE Confirm(r) /\ <<cur[r], at[r]>> \in disk
      BY <1>7, <1>11 DEF Confirm, NextStage, Leading, Places
  <1>12. QED
      BY <1>1, <1>2, <1>3, <1>4, <1>5, <1>6, <1>8, <1>10, <1>11, <1>9 DEF RunnerStep, EditOf

\* queue_add: a case that shows no record gets one.
LEMMA AddShows ==
  ASSUME TypeOK, FileInv, FileInv', UNCHANGED <<Charge, Hand>>,
         NEW a \in Adders, AddWrite(a)
  PROVE  Shows
  <1>1. PICK c \in Cases : adding[a] = c
      BY DEF AddWrite, TypeOK
  <1>2. PICK s \in Slots : /\ item[s].state = ABSENT
                           /\ item' = [item EXCEPT ![s] = NewItem(c)]
      BY <1>1 DEF AddWrite
  <1>3. /\ item'[s].id = c /\ item'[s].state = QUEUED
        /\ \A t \in Slots \ {s} : item'[t] = item[t]
      BY <1>2 DEF TypeOK, NewItem
  <1>4. Shown /\ Shown'
      BY StatusIs, StatusNext
  <1>5. Standing(s)' /\ ~Standing(s)
      BY <1>2, <1>3 DEF Standing, QUEUED, ABSENT, DROPPED
  <1>6. \A t \in Slots : Standing(t) => item[t].id # c
      BY <1>1 DEF FileInv, AddWrite
  <1>7. StatusOf(c) = ABSENT /\ StatusOf(c)' = QUEUED
      <2>1. StatusOf(item[s].id)' = item'[s].state
          BY <1>4, <1>5 DEF Shown
      <2>2. StatusOf(c)' = QUEUED
          BY <1>3, <2>1 DEF StatusOf, Standing
      <2>3. QED
          BY <1>1, <1>4, <1>6, <2>2 DEF Shown
  <1>8. ASSUME NEW d \in Cases, d # c PROVE StatusOf(d)' = StatusOf(d)
      <2>1. CASE \E t \in Slots : Standing(t) /\ item[t].id = d
          <3>1. PICK t \in Slots : Standing(t) /\ item[t].id = d
              BY <2>1
          <3>2. item'[t] = item[t]
              BY <1>3, <1>5, <3>1
          <3>3. Standing(t)'
              BY <3>1, <3>2 DEF Standing
          <3>4. StatusOf(item[t].id)' = item'[t].state /\ StatusOf(item[t].id) = item[t].state
              <4>1. StatusOf(item[t].id) = item[t].state
                  BY <1>4, <3>1 DEF Shown
              <4>2. item'[t].id = item[t].id
                  BY <3>2
              <4>3. \A u \in Slots : Standing(u)' => StatusOf(item[u].id)' = item'[u].state
                  BY <1>4 DEF Shown
              <4>4. QED
                  BY <3>3, <4>1, <4>3
          <3>5. StatusOf(d)' = StatusOf(item[t].id)'
              BY <3>1, <3>2 DEF StatusOf, Standing
          <3>6. QED
              BY <3>1, <3>2, <3>4, <3>5
      <2>2. CASE \A t \in Slots : Standing(t) => item[t].id # d
          <3>1. \A t \in Slots : Standing(t)' => item'[t].id # d
              BY <1>3, <1>8, <2>2 DEF Standing
          <3>2. QED
              BY <1>4, <2>2, <3>1 DEF Shown
      <2>3. QED
          BY <2>1, <2>2
  <1>9. Led!Order(c)
      BY <1>1, <1>7, <1>8 DEF Led!Order, Status, QUEUED, ABSENT
  <1>10. QED
      BY <1>1, <1>9 DEF Shows

\* queue_drop: a record marked "running" goes only when the probe found nobody in
\* charge, and whoever took charge since has not come to edit the file.
LEMMA DropShows ==
  ASSUME TypeOK, LockInv, FileInv, FileInv', KeepsCases, UNCHANGED <<Charge, Hand>>,
         NEW c, Edited(c), ~RetryCase(c), ~Decide(c)
  PROVE  Shows
  <1>1. PICK s \in Slots :
          /\ IsFirst(s, c)
          /\ item[s].state = RUNNING => \E t \in Tools : tool[t] = "clear"
          /\ item' = [item EXCEPT ![s] = Settled(item[s], DROPPED, item[s].stage)]
      BY DEF Edited, Drop, DropWrite
  <1>2. Standing(s) /\ item[s].id = c
      BY <1>1 DEF IsFirst, Matches, FileInv, Standing
  <1>3. item'[s].state = DROPPED /\ \A t \in Slots \ {s} : item'[t] = item[t]
      <2>1. Settled(item[s], DROPPED, item[s].stage).state = DROPPED
          BY DEF TypeOK, Settled, Item
      <2>2. QED
          BY <1>1, <2>1 DEF TypeOK
  <1>4. /\ Status[c] = item[s].state
        /\ Status' = [Status EXCEPT ![c] = ABSENT]
      BY <1>2, <1>3, SeenOne
  <1>5. c \in Cases
      BY <1>2 DEF FileInv, Standing
  <1>6. ASSUME item[s].state = RUNNING PROVE Charge # "leads"
      <2>1. \A r \in Runners : Phase(r) # "leads"
          BY <1>1, <1>6 DEF LockInv, InCharge, Phase
      <2>2. QED
          BY <2>1, ChargeIs DEF Charged
  <1>7. Led!Withdraw(c)
      BY <1>2, <1>4, <1>6, <1>5 DEF Led!Withdraw, Standing, RUNNING, ABSENT
  <1>8. QED
      BY <1>7, <1>5 DEF Shows

LEMMA PeopleShow ==
  ASSUME TypeOK, LockInv, LockInv', FileInv, FileInv', [Next]_vars,
         \A r \in Runners : ~(Start(r) \/ RunnerStep(r) \/ Interrupt(r) \/ Kill(r))
  PROVE  Shows
  <1> USE DEF file, local, people
  <1>1. UNCHANGED <<Charge, Hand>>
      <2>1. \A r \in Runners : /\ Leading(r)' <=> Leading(r)
                               /\ Phase(r)' = Phase(r)
                               /\ cur'[r] = cur[r]
          BY PeopleAreGentle DEF Leading, Phase
      <2>2. QED
          BY <2>1, SameHand
  <1>2. ASSUME NEW a \in Adders, AddWrite(a) PROVE Shows
      BY <1>1, <1>2, AddShows
  <1>3. ASSUME UNCHANGED item PROVE Shows
      BY <1>1, <1>3, SameStatus DEF Shows
  <1>4. ASSUME \A a \in Adders : ~AddWrite(a), ~UNCHANGED item PROVE Shows
      <2>1. KeepsCases
          BY <1>4, OthersKeepCases
      <2>2. ASSUME NEW s \in Slots
            PROVE  /\ Again(item[s]).state = QUEUED
                   /\ [item[s] EXCEPT !.due = TRUE].state = item[s].state
          <3>1. item[s] \in Item
              BY DEF TypeOK
          <3>2. QED
              BY <3>1, AgainItem DEF Item
      <2>3. ASSUME NEW c, RetryCase(c) \/ Decide(c) PROVE Shows
          <3>1. \A s \in Slots : item'[s].state # item[s].state =>
                   item'[s].state = QUEUED /\ item[s].state # RUNNING
              BY <2>2, <2>3
                 DEF RetryCase, Decide, WAITING, RUNNING, RETRY, BLOCKED, FAILED, TypeOK
          <3>2. QED
              BY <1>1, <2>1, <3>1, BackShows
      <2>4. CASE RetryAll
          <3>1. \A s \in Slots : item'[s].state # item[s].state =>
                   item'[s].state = QUEUED /\ item[s].state # RUNNING
              BY <2>2, <2>4 DEF RetryAll, WAITING, RUNNING, RETRY, BLOCKED, FAILED
          <3>2. QED
              BY <1>1, <2>1, <3>1, BackShows
      <2>5. ASSUME NEW s \in Slots, Tick(s) PROVE Shows
          <3>1. \A t \in Slots : item'[t].state = item[t].state
              BY <2>2, <2>5 DEF Tick, TypeOK
          <3>2. QED
              BY <1>1, <2>1, <3>1, BackShows
      <2>6. ASSUME NEW c, Edited(c) PROVE Shows
          BY <1>1, <2>1, <2>3, <2>6, DropShows
      <2>7. QED
          BY <1>4, <2>4, <2>5, <2>6, PeopleSteps
  <1>5. QED
      BY <1>2, <1>3, <1>4

\* Whoever starts takes charge when nobody is, and nothing of the file moves.
LEMMA StartShows ==
  ASSUME TypeOK, LockInv, LockInv', NEW r \in Runners, Start(r)
  PROVE  Shows
  <1>1. UNCHANGED <<item, cur>>
      BY DEF Start, file, local
  <1>2. UNCHANGED Status
      BY <1>1, SameStatus
  <1>3. ASSUME runLock = NoOne, pc' = [pc EXCEPT ![r] = "heal"] PROVE Shows
    <2>1. \A q \in Runners : ~InCharge(q) /\ ~Leading(q) /\ Phase(q) = "nobody"
        BY <1>3, Names DEF LockInv, Leading, InCharge, Phase
    <2>2. \A q \in Runners : ~Leading(q)'
        BY <1>3, <2>1 DEF Leading, TypeOK
    <2>3. Phase(r)' = "comes"
        BY <1>3 DEF Phase, TypeOK
    <2>4. Charge = "nobody" /\ Charge' = "comes"
        BY <2>1, <2>3, ChargeIs, ChargeNext DEF Charged
    <2>5. Hand = NoCase /\ Hand' = NoCase
        BY <2>1, <2>2, HandIs, HandNext DEF Handed
    <2>6. QED
        BY <1>2, <2>4, <2>5 DEF Shows, Led!TakeCharge
  <1>4. ASSUME pc[r] = "off", pc' = [pc EXCEPT ![r] = "busy"] PROVE Shows
    <2>1. \A q \in Runners : /\ Leading(q)' <=> Leading(q)
                             /\ Phase(q)' = Phase(q)
                             /\ cur'[q] = cur[q]
        BY <1>1, <1>4 DEF Leading, Phase, TypeOK
    <2>2. UNCHANGED <<Charge, Hand>>
        BY <2>1, SameHand
    <2>3. QED
        BY <1>2, <2>2 DEF Shows
  <1>5. QED
      BY <1>3, <1>4 DEF Start, GoTo

\* An interruption empties the hand and changes no record.
LEMMA InterruptShows ==
  ASSUME TypeOK, LockInv, LockInv', NEW r \in Runners, Interrupt(r)
  PROVE  Shows
  <1>1. UNCHANGED <<item, cur>> /\ UNCHANGED Status
      BY SameStatus DEF Interrupt, file, local
  <1>2. PICK where \in {"leave", "finish"} : pc' = [pc EXCEPT ![r] = where]
      BY DEF Interrupt, GoTo
  <1>3. InCharge(r) /\ where \in Places /\ ~Leading(r)'
      BY <1>2 DEF Interrupt, InCharge, Leading, Places, TypeOK
  <1>4. CASE where = "leave"
      BY <1>1, <1>2, <1>3, <1>4, GoneAway
  <1>5. CASE where = "finish"
      <2>1. Phase(r) = "leads" /\ Phase(r)' = "leads"
          BY <1>2, <1>5 DEF Interrupt, GoTo, Phase, Leading, TypeOK
      <2>2. UNCHANGED Charge /\ Hand' = NoCase
          BY <1>2, <1>3, <2>1, Moved
      <2>3. QED
          BY <1>1, <2>2 DEF Shows, Led!LetGo
  <1>6. QED
      BY <1>4, <1>5

\* What has passed stays so, or a person took it back.
LEMMA PassedGrows == [Next]_vars => Passed \subseteq Passed'
  <1> SUFFICES ASSUME [Next]_vars PROVE Passed \subseteq Passed'
      OBVIOUS
  <1> USE DEF local, people
  <1>1. ASSUME NEW r \in Runners, Start(r) \/ RunnerStep(r) \/ Interrupt(r) \/ Kill(r)
        PROVE  disk \subseteq disk' /\ UNCHANGED revoked
      BY <1>1 DEF Start, Interrupt, Kill, RunnerStep, Refused, Heal, Rejudge, Requeue,
                  Pick, Exhausted, CheckFlag, Halt, Judge, Mark, RunStage,
                  SettleOutcome, SettleRetry, Confirm, Close, Finish, Leave
  <1>2. ASSUME NEW c \in Cases, Decide(c)
        PROVE  disk \cup revoked \subseteq disk' \cup revoked'
      BY <1>2 DEF Decide
  <1>3. ASSUME \A r \in Runners : ~(Start(r) \/ RunnerStep(r) \/ Interrupt(r) \/ Kill(r)),
               \A c \in Cases : ~Decide(c)
        PROVE  disk \subseteq disk' /\ UNCHANGED revoked
      BY <1>3 DEF Next, vars, AddWrite, AddLook, RetryCase, Drop, RetryAll,
                  Probe, ToolStep, EndProbe, StopWrite, DropProbe, DropAsked,
             DropWrite, Repair, Tick
  <1>4. disk \cup revoked \subseteq disk' \cup revoked'
      BY <1>1, <1>2, <1>3
  <1>5. QED
      BY <1>4 DEF Passed

\* The inductive invariant of the file and its runner.
QueueInv == TypeOK /\ LockInv /\ FileInv /\ LedInv /\ PassedInv

LEMMA LedQueueInit == Init => Led!Init
  <1> SUFFICES ASSUME Init PROVE Led!Init
      OBVIOUS
  <1>1. \A s \in Slots : ~Standing(s)
      BY DEF Init, NewItem, Standing
  <1>2. Status = [c \in Cases |-> "absent"]
      BY <1>1 DEF Status, StatusOf, ABSENT
  <1>3. Charge = "nobody" /\ Hand = NoCase
      BY DEF Init, Charge, Hand, Phase, Leading
  <1>4. Passed = {}
      <2>1. 1 \in Stages
          BY Sizes DEF Stages
      <2>2. QED
          BY <2>1 DEF Init, Passed
  <1>5. QED
      BY <1>2, <1>3, <1>4 DEF Led!Init

LEMMA LedQueueStep ==
  QueueInv /\ QueueInv' /\ [Next]_vars => [Led!Next]_(Led!vars)
  <1> SUFFICES ASSUME QueueInv, QueueInv', [Next]_vars PROVE Led!Next
      OBVIOUS
  <1> USE DEF QueueInv
  <1>1. ASSUME NEW r \in Runners, Start(r) \/ RunnerStep(r) \/ Interrupt(r) \/ Kill(r)
        PROVE  Shows
    <2>1. CASE Start(r)
        BY <2>1, StartShows
    <2>2. CASE RunnerStep(r)
      <3>1. ASSUME NEW a \in Adders, AddWrite(a) PROVE Shows
        <4>1. UNCHANGED <<pc, cur>>
            BY <3>1 DEF AddWrite, local
        <4>2. UNCHANGED <<Charge, Hand>>
            BY <4>1, SameHand DEF Leading, Phase
        <4>3. QED
            BY <3>1, <4>2, AddShows
      <3>2. CASE \A a \in Adders : ~AddWrite(a)
          BY <2>2, <3>2, OthersKeepCases, RunnerShows
      <3>3. QED
          BY <3>1, <3>2
    <2>3. CASE Interrupt(r)
        BY <2>3, InterruptShows
    <2>4. CASE Kill(r)
      <3>1. InCharge(r) /\ pc' = [pc EXCEPT ![r] = "off"] /\ UNCHANGED item
          BY <2>4 DEF Kill, GoTo, file
      <3>2. QED
            BY <3>1, GoneAway
    <2>5. QED
        BY <1>1, <2>1, <2>2, <2>3, <2>4
  <1>2. ASSUME \A r \in Runners : ~(Start(r) \/ RunnerStep(r) \/ Interrupt(r) \/ Kill(r))
        PROVE  Shows
      BY <1>2, PeopleShow
  <1>3. Shows
      BY <1>1, <1>2
  <1>4. Passed \subseteq Passed' /\ Passed' \in SUBSET Cases
      BY PassedGrows DEF Passed
  <1>5. QED
      BY <1>3, <1>4 DEF Shows, Led!Next, Led!view

\* The queue of cases implements LedQueue unless two `queue add` of one case run
\* at once: whatever is read outside the edits and whoever edits the file between
\* two steps of the runner, a case has one state, one case is in hand, only its
\* state is the runner's to change, "done" means every stage has passed, and
\* nothing is withdrawn from under a runner in charge.
THEOREM QueueImplements == Spec /\ []NoTwin => ImplementsLedQueue
  <1>1. Init => QueueInv
      BY TypeInit, LockInit, FileInit, LedInit, PassedInit DEF QueueInv
  <1>2. NoTwin /\ QueueInv /\ [Next]_vars => QueueInv'
      BY TypeNext, LockNext, FileNext, LedNext, PassedNext DEF QueueInv
  <1>3. Spec /\ []NoTwin => []QueueInv
      BY <1>1, <1>2, PTL DEF Spec
  <1>4. QED
      BY <1>3, LedQueueInit, LedQueueStep, PTL DEF Spec, ImplementsLedQueue, Led!Spec

=============================================================================
