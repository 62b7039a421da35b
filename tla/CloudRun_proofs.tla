---------------------------- MODULE CloudRun_proofs ----------------------------
(***************************************************************************)
(* Proofs about CloudRun, for any processes, machines and pages.           *)
(***************************************************************************)
EXTENDS CloudRun, FiniteSetTheorems, TLAPS

-----------------------------------------------------------------------------
(* Type correctness.                                                       *)

LEMMA NoRunTyped == NoRun \in Records
BY DEF NoRun, Records, Verdicts

\* The fields of a record may be changed to values of their types.
LEMMA FieldsTyped ==
  ASSUME NEW r \in Records
  PROVE  /\ [r EXCEPT !.released = TRUE] \in Records
         /\ [r EXCEPT !.pid = TRUE] \in Records
         /\ [r EXCEPT !.again = TRUE] \in Records
         /\ \A v \in Verdicts : [r EXCEPT !.verdict = v] \in Records
         /\ \A b \in Boxes : [NoRun EXCEPT !.box = b] \in Records
BY DEF NoRun, Records, Verdicts

LEMMA OverTyped ==
  ASSUME ShellType, NEW p \in Shells, Over(p), record' \in Records, stale' \in BOOLEAN
  PROVE  ShellType'
BY NoRunTyped DEF Over, To, ShellType, Steps

LEMMA SaveTyped ==
  ASSUME ShellType, NEW p, NEW r \in Records, Save(p, r)
  PROVE  record' \in Records /\ stale' \in BOOLEAN
BY DEF Save, ShellType

LEMMA GoOnTyped ==
  ASSUME ShellType, NEW p \in Shells, NEW r \in Records, NEW w \in Steps, GoOn(p, r, w)
  PROVE  ShellType'
<1>1. record' \in Records /\ stale' \in BOOLEAN
  BY SaveTyped DEF GoOn
<1>2. mine' \in [Shells -> Records] /\ at' \in [Shells -> Steps]
  BY DEF GoOn, To, ShellType
<1> QED BY <1>1, <1>2 DEF GoOn, ShellType

\* A process moves on with its copy or a changed one, and saves nothing.
LEMMA ToTyped ==
  ASSUME ShellType, NEW p \in Shells, NEW w \in Steps, To(p, w),
         Unsaved, mine' \in [Shells -> Records], UNCHANGED <<auto, lease>>
  PROVE  ShellType'
BY DEF To, ShellType, Unsaved

LEMMA CloudTypeStart ==
  ASSUME CloudType, NEW p \in Shells, StartStep(p) PROVE CloudType'
<1> USE CloudNames DEF CloudType, world, ghosts
<1>1. ShellType /\ WorldType /\ mine[p] \in Records
  BY DEF ShellType
<1>2. CASE StartRun(p)
  BY <1>1, <1>2 DEF StartRun, To, ShellType, WorldType, Steps
<1>3. CASE Adopt(p)
  <2>1. WorldType'
    BY <1>1, <1>3 DEF Adopt, WorldType
  <2>2. ShellType'
    <3>1. CASE GoOn(p, mine[p], "watch")
      BY <1>1, <3>1, GoOnTyped DEF Steps
    <3>2. CASE Save(p, mine[p]) /\ Over(p)
      BY <1>1, <3>2, SaveTyped, OverTyped
    <3>3. CASE Over(p) /\ Unsaved
      BY <1>1, <3>3, OverTyped DEF Unsaved, ShellType
    <3>4. CASE To(p, "fresh") /\ Unsaved /\ UNCHANGED <<mine, auto, lease>>
      BY <1>1, <3>4, ToTyped DEF Steps, ShellType
    <3> QED BY <1>3, <3>1, <3>2, <3>3, <3>4 DEF Adopt
  <2> QED BY <2>1, <2>2
<1>4. CASE Clear(p)
  <2>1. WorldType'
    BY <1>1, <1>4 DEF Clear, WorldType
  <2>2. mine' \in [Shells -> Records]
    BY <1>1, <1>4, FieldsTyped DEF Clear, ShellType
  <2>3. ShellType'
    BY <1>1, <1>4, <2>2, ToTyped DEF Clear, Steps, Unsaved
  <2> QED BY <2>1, <2>3
<1>5. CASE Refuse(p)
  BY <1>1, <1>5, OverTyped DEF Refuse, Unsaved, ShellType, WorldType
<1>6. CASE Intend(p)
  BY <1>1, <1>6, GoOnTyped DEF Intend, Steps, WorldType
<1>7. CASE Acquire(p)
  <2>1. PICK b \in Boxes \ taken :
          /\ billing' = billing \cup {b} /\ taken' = taken \cup {b}
          /\ mine' = [mine EXCEPT ![p] = [NoRun EXCEPT !.box = b]]
    BY <1>7 DEF Acquire
  <2>2. mine' \in [Shells -> Records]
    BY <1>1, <2>1, FieldsTyped DEF ShellType
  <2>3. ShellType'
    BY <1>1, <1>7, <2>2, ToTyped DEF Acquire, Steps, Unsaved
  <2>4. WorldType'
    BY <1>1, <1>7, <2>1 DEF Acquire, WorldType
  <2> QED BY <2>3, <2>4
<1>8. CASE Book(p)
  BY <1>1, <1>8, GoOnTyped DEF Book, Steps, WorldType
<1>9. CASE Prepare(p)
  BY <1>1, <1>9, GoOnTyped DEF Prepare, Steps, WorldType
<1>10. CASE Spawned(p)
  <2>1. ShellType'
    BY <1>1, <1>10, ToTyped DEF Spawned, Steps, Unsaved, ShellType
  <2> QED BY <1>1, <1>10, <2>1 DEF Spawned, WorldType
<1>11. CASE BookPid(p)
  <2>1. [mine[p] EXCEPT !.pid = TRUE] \in Records
    BY <1>1, FieldsTyped
  <2>2. ShellType'
    BY <1>1, <1>11, <2>1, GoOnTyped, SaveTyped, OverTyped DEF BookPid, Steps
  <2>3. excused' \subseteq excused \cup {mine[p].box} /\ mine[p].box \in Boxes \cup {NoBox}
    BY <1>1, <1>11 DEF BookPid, Records
  <2> QED BY <1>1, <1>11, <2>2, <2>3 DEF BookPid, WorldType
<1>12. CASE Undo(p)
  <2>1. ShellType'
    <3>1. CASE To(p, "dropped") /\ Unsaved /\ UNCHANGED <<mine, auto, lease>>
      BY <1>1, <3>1, ToTyped DEF Steps, ShellType
    <3>2. CASE Save(p, mine[p]) /\ Over(p)
      BY <1>1, <3>2, SaveTyped, OverTyped
    <3> QED BY <1>12, <3>1, <3>2 DEF Undo
  <2>2. excused' \subseteq excused \cup {mine[p].box} /\ mine[p].box \in Boxes \cup {NoBox}
    BY <1>1, <1>12 DEF Undo, Records
  <2> QED BY <1>1, <1>12, <2>1, <2>2 DEF Undo, WorldType
<1> QED BY <1>2, <1>3, <1>4, <1>5, <1>6, <1>7, <1>8, <1>9, <1>10, <1>11, <1>12
        DEF StartStep

LEMMA CloudTypeGo ==
  ASSUME CloudType, NEW p \in Shells, GoStep(p) PROVE CloudType'
<1> USE CloudNames DEF CloudType, world, ghosts
<1>1. ShellType /\ WorldType /\ mine[p] \in Records /\ mine[p].box \in Boxes \cup {NoBox}
  BY DEF ShellType, Records
<1>2. CASE Watch(p)
  <2>1. ShellType'
    BY <1>1, <1>2, ToTyped DEF Watch, Steps, Unsaved, ShellType
  <2> QED BY <1>1, <1>2, <2>1 DEF Watch, WorldType
<1>3. CASE BreakOff(p)
  <2>1. ShellType'
    BY <1>1, <1>3, ToTyped DEF BreakOff, Steps, Unsaved, ShellType
  <2>2. job' \in [Boxes -> {"none", "runs", "over"}]
    BY <1>1, <1>3 DEF BreakOff, WorldType
  <2> QED BY <1>1, <1>3, <2>1, <2>2 DEF BreakOff, WorldType
<1>4. CASE Fetch(p)
  <2>1. ASSUME NEW v \in Verdicts PROVE [mine[p] EXCEPT !.verdict = v] \in Records
    BY <1>1, FieldsTyped
  <2>2. ShellType'
    <3>1. CASE GoOn(p, mine[p], "judge")
      BY <1>1, <3>1, GoOnTyped DEF Steps
    <3>2. CASE GoOn(p, [mine[p] EXCEPT !.verdict = "stopped"], "release")
      BY <1>1, <2>1, <3>2, GoOnTyped DEF Steps, Verdicts
    <3>3. CASE Save(p, [mine[p] EXCEPT !.verdict = "unfetched"]) /\ Over(p)
      BY <1>1, <2>1, <3>3, SaveTyped, OverTyped DEF Verdicts
    <3> QED BY <1>4, <3>1, <3>2, <3>3 DEF Fetch
  <2>3. excused' \subseteq excused \cup {mine[p].box} /\ home' \subseteq Pages
    BY <1>1, <1>4 DEF Fetch, WorldType
  <2> QED BY <1>1, <1>4, <2>2, <2>3 DEF Fetch, WorldType
<1>5. CASE Judge(p)
  <2>1. CASE GoOn(p, [mine[p] EXCEPT !.again = TRUE], "spawn")
    BY <1>1, <1>5, <2>1, FieldsTyped, GoOnTyped DEF Judge, Steps, WorldType
  <2>2. ASSUME NEW v \in {"ok", "incomplete"},
               GoOn(p, [mine[p] EXCEPT !.verdict = v], "release")
        PROVE  CloudType'
    <3>1. v \in Verdicts
      BY DEF Verdicts
    <3> QED BY <1>1, <1>5, <2>2, <3>1, FieldsTyped, GoOnTyped DEF Judge, Steps, WorldType
  <2> QED BY <1>5, <2>1, <2>2 DEF Judge
<1>6. CASE Drop(p)
  <2>1. ShellType'
    <3>1. CASE To(p, "dropped") /\ Unsaved /\ UNCHANGED <<mine, auto, lease>>
      BY <1>1, <3>1, ToTyped DEF Steps, ShellType
    <3>2. CASE Save(p, mine[p]) /\ Over(p)
      BY <1>1, <3>2, SaveTyped, OverTyped
    <3> QED BY <1>6, <3>1, <3>2 DEF Drop
  <2> QED BY <1>1, <1>6, <2>1 DEF Drop, WorldType
<1>7. CASE BookRelease(p)
  BY <1>1, <1>7, FieldsTyped, SaveTyped, OverTyped DEF BookRelease, WorldType
<1> QED BY <1>2, <1>3, <1>4, <1>5, <1>6, <1>7 DEF GoStep

LEMMA CloudTypeCommand ==
  ASSUME CloudType, NEW p \in Shells, Command(p) \/ Perish(p) PROVE CloudType'
<1> USE CloudNames DEF CloudType, world, ghosts
<1>1. ShellType /\ WorldType /\ mine[p] \in Records /\ mine[p].box \in Boxes \cup {NoBox}
  BY DEF ShellType, Records
<1>2. CASE LoadRun(p)
  <2>1. mine' \in [Shells -> Records]
    BY <1>1, <1>2 DEF LoadRun, ShellType
  <2>2. ShellType'
    BY <1>1, <1>2, <2>1, ToTyped DEF LoadRun, Unsaved, Steps
  <2> QED BY <1>1, <1>2, <2>2, CloudSizes DEF LoadRun, WorldType
<1>3. CASE FetchIt(p)
  <2>1. ShellType'
    BY <1>1, <1>3, SaveTyped, OverTyped DEF FetchIt, Unsaved, ShellType
  <2> QED BY <1>1, <1>3, <2>1 DEF FetchIt, WorldType
<1>4. CASE VerifyIt(p)
  <2>1. [mine[p] EXCEPT !.verdict = IF home = Pages THEN "ok" ELSE "incomplete"]
          \in Records
    BY <1>1, FieldsTyped DEF Verdicts
  <2>2. ShellType'
    BY <1>1, <1>4, <2>1, SaveTyped, OverTyped DEF VerifyIt
  <2> QED BY <1>1, <1>4, <2>2 DEF VerifyIt, WorldType
<1>5. CASE StopIt(p)
  <2>1. ShellType'
    <3>1. CASE To(p, "dropped") /\ UNCHANGED <<mine, auto, lease>>
      BY <1>1, <1>5, <3>1, ToTyped DEF StopIt, Steps, Unsaved, ShellType
    <3>2. CASE Over(p)
      BY <1>1, <1>5, <3>2, OverTyped DEF StopIt, Unsaved, ShellType
    <3> QED BY <1>5, <3>1, <3>2 DEF StopIt
  <2>2. job' \in [Boxes -> {"none", "runs", "over"}]
    BY <1>1, <1>5 DEF StopIt, WorldType
  <2>3. excused' \subseteq Boxes \cup {NoBox} /\ billing' \subseteq billing
    BY <1>1, <1>5 DEF StopIt, WorldType
  <2> QED BY <1>1, <1>5, <2>1, <2>2, <2>3 DEF StopIt, WorldType
<1>6. CASE Perish(p)
  <2>1. ShellType'
    BY <1>1, <1>6, OverTyped DEF Perish, Unsaved, ShellType
  <2>2. extras' \in 0..MaxExtras
    BY <1>1, <1>6, CloudSizes DEF Perish, WorldType
  <2> QED BY <1>1, <1>6, <2>1, <2>2 DEF Perish, WorldType
<1> QED BY <1>2, <1>3, <1>4, <1>5, <1>6 DEF Command

LEMMA CloudTypeBox ==
  ASSUME CloudType, NEW b \in Boxes, PageRead(b) \/ JobEnds(b) \/ BoxGone(b)
  PROVE  CloudType'
<1> USE DEF CloudType, ghosts
<1>1. ShellType'
  BY DEF PageRead, JobEnds, BoxGone, ShellType
<1>2. CASE PageRead(b)
  <2>1. texts' \in [Boxes -> SUBSET Pages]
    BY <1>2 DEF PageRead, WorldType
  <2> QED BY <1>1, <1>2, <2>1 DEF PageRead, WorldType
<1>3. CASE JobEnds(b)
  BY <1>1, <1>3 DEF JobEnds, WorldType
<1>4. CASE BoxGone(b)
  BY <1>1, <1>4, CloudSizes DEF BoxGone, WorldType
<1> QED BY <1>2, <1>3, <1>4

LEMMA CloudTypeStep == ASSUME CloudType, [CloudNext]_cloudVars PROVE CloudType'
<1>1. CASE UNCHANGED cloudVars
  BY <1>1 DEF cloudVars, CloudType, ShellType, WorldType
<1> QED BY <1>1, CloudTypeStart, CloudTypeGo, CloudTypeCommand, CloudTypeBox DEF CloudNext

LEMMA CloudTypeInit == CloudInit => CloudType
<1> SUFFICES ASSUME CloudInit PROVE CloudType
  OBVIOUS
<1>1. ShellType
  BY NoRunTyped DEF CloudInit, ShellType, Steps
<1>2. job \in [Boxes -> {"none", "runs", "over"}] /\ texts \in [Boxes -> SUBSET Pages]
  BY DEF CloudInit
<1>3. WorldType
  BY <1>2, CloudSizes DEF CloudInit, WorldType
<1> QED BY <1>1, <1>3 DEF CloudType

\* Every variable keeps its type.
THEOREM CloudTypeCorrect == CloudSpec => []CloudType
<1> QED BY CloudTypeInit, CloudTypeStep, PTL DEF CloudSpec

-----------------------------------------------------------------------------
(* The invariant.                                                          *)

Locked == {"adopt", "fresh", "cleared", "acquire", "acquired", "prepare", "spawn", "spawned",
           "undo", "watch", "fetch", "salvage", "judge", "release"}
WithBox == {"acquired", "prepare", "spawn", "spawned", "undo", "watch", "fetch", "salvage",
            "judge", "release"}

\* start and go work under the lock, and nobody else has it.
Leased ==
  /\ \A p \in Shells : at[p] \in Locked => lease = p
  /\ lease # NoShell => at[lease] \in Locked \cup {"dropped"}

\* A record tells of a machine that was rented, and of a release that took place.
Honest(r) == r.box \in taken \cup {NoBox} /\ (r.released => r.box \notin billing)

Copies ==
  /\ Honest(record)
  /\ \A p \in Shells : /\ Honest(mine[p])
                       /\ at[p] = "dropped" => mine[p].box \notin billing
                       /\ at[p] \in WithBox => mine[p].box # NoBox

\* Nothing ever ran on a machine that was not rented, and nothing was read where
\* nothing ran.
Unused ==
  \A b \in Boxes : /\ b \notin taken => job[b] = "none"
                   /\ job[b] = "none" => texts[b] = {}

Base == CloudType /\ Leased /\ Copies /\ Unused

Holder(p) == lease = p /\ p # NoShell

\* The holder of the lock knows of the machine in the record, or has a newer one.
InHand ==
  \A p \in Shells : Holder(p) =>
    \/ at[p] = "acquired" /\ mine[p] = [NoRun EXCEPT !.box = mine[p].box]
    \/ /\ at[p] # "acquired"
       /\ mine[p].box = record.box /\ mine[p].pid = record.pid

\* What costs money: the machine just rented, or the one in the record.
Sole ==
  /\ \A b \in billing \ cut : Noting(b) \/ (record.box = b /\ ~record.released)
  /\ \A p \in Shells : Holder(p) =>
       /\ at[p] \in {"cleared", "acquire"} => billing \ cut = {}
       /\ at[p] = "acquired" => billing \ cut \subseteq {mine[p].box}

Busy == {"acquired", "prepare", "spawn", "spawned", "watch", "fetch", "judge"}

\* Nobody goes on working with machine b.
Left(b) == \A p \in Shells : Holder(p) /\ mine[p].box = b => at[p] \notin Busy

\* Nothing is lost with machine b.
Safe(b) == b \in excused \/ texts[b] \subseteq home

\* A record that lets `stop` go ahead tells the truth: what was read is here and no
\* more is, or the machine is excused.
Truthful(r) ==
  /\ r.verdict = "ok" => home = Pages
  /\ r.verdict = "stopped"
       => /\ r.box \in Boxes
          /\ \/ r.box \in excused
             \/ job[r.box] # "runs" /\ texts[r.box] \subseteq home /\ Left(r.box)

\* Where no work was noted none was begun, unless its starter is about to note it.
Idle(b) ==
  \/ b \in excused
  \/ job[b] = "none"
  \/ \E p \in Shells : Holder(p) /\ at[p] = "spawned" /\ mine[p].box = b

\* What each step of start and go has behind it.
Doing(p) ==
  /\ at[p] = "acquired" => Idle(mine[p].box)
  /\ at[p] = "prepare" => ~mine[p].pid /\ ~mine[p].again
  /\ at[p] \in {"spawn", "spawned"} => mine[p].pid = mine[p].again
  /\ at[p] \in {"watch", "fetch", "salvage", "judge", "release"} => mine[p].pid
  /\ at[p] \in {"spawned", "watch", "fetch", "salvage", "judge", "release"}
       => job[mine[p].box] # "none"
  /\ at[p] = "spawn" /\ mine[p].again => job[mine[p].box] # "none"
  /\ at[p] \in {"fetch", "judge"} => job[mine[p].box] # "runs"
  /\ at[p] = "release" => job[mine[p].box] # "runs" \/ mine[p].box \in excused
  /\ at[p] \in {"judge", "release"} => Safe(mine[p].box)

Work ==
  /\ record.box # NoBox /\ ~record.pid => Idle(record.box)
  /\ Truthful(record)
  /\ \A p \in Shells : Truthful(mine[p])
  /\ \A p \in Shells : Holder(p) => Doing(p)
  /\ \A b \in taken \ billing : Safe(b)

CloudInv == Base /\ (~stale => InHand /\ Sole /\ Work)

-----------------------------------------------------------------------------
(* The lock, and what the copies say.                                      *)

Others(p) == \A q \in Shells : q # p => mine'[q] = mine[q] /\ at'[q] = at[q]

\* A rented machine is a new one.
GrowOnly == /\ taken \subseteq taken'
            /\ \A b \in billing' : b \in billing \/ b \notin taken \cup {NoBox}

HonestNow(r) == r.box \in taken' \cup {NoBox} /\ (r.released => r.box \notin billing')

LEMMA OverLeased ==
  ASSUME ShellType, Leased, NEW p \in Shells, Over(p) PROVE Leased'
BY CloudNames DEF ShellType, Leased, Over, To, Locked

LEMMA ToLeased ==
  ASSUME ShellType, Leased, NEW p \in Shells, NEW w, To(p, w), lease' = lease,
         w \in Locked => lease = p,
         lease = p => w \in Locked \cup {"dropped"}
  PROVE  Leased'
BY CloudNames DEF ShellType, Leased, To

LEMMA StayHonest == ASSUME GrowOnly, NEW r, Honest(r) PROVE HonestNow(r)
BY DEF GrowOnly, Honest, HonestNow

LEMMA CopiesKeep ==
  ASSUME Copies, GrowOnly, NEW p, Others(p),
         record' = record \/ HonestNow(record'),
         p \in Shells => /\ mine'[p] = mine[p] \/ HonestNow(mine'[p])
                         /\ at'[p] = "dropped" => mine'[p].box \notin billing'
                         /\ at'[p] \in WithBox => mine'[p].box # NoBox
  PROVE  Copies'
<1>1. HonestNow(record')
  BY StayHonest DEF Copies
<1>2. ASSUME NEW q \in Shells
      PROVE  /\ HonestNow(mine'[q])
             /\ at'[q] = "dropped" => mine'[q].box \notin billing'
             /\ at'[q] \in WithBox => mine'[q].box # NoBox
  <2>1. CASE q = p
    BY <2>1, StayHonest DEF Copies
  <2>2. CASE q # p
    <3>1. mine'[q] = mine[q] /\ at'[q] = at[q]
      BY <2>2 DEF Others
    <3>2. HonestNow(mine[q])
      BY StayHonest DEF Copies
    <3>3. at[q] = "dropped" => mine[q].box \notin billing'
      BY DEF Copies, Honest, GrowOnly
    <3> QED BY <3>1, <3>2, <3>3 DEF Copies
  <2> QED BY <2>1, <2>2
<1> QED BY <1>1, <1>2 DEF Copies, Honest, HonestNow

LEMMA OverCopies ==
  ASSUME CloudType, Copies, GrowOnly, NEW p \in Shells, Over(p),
         record' = record \/ HonestNow(record')
  PROVE  Copies'
<1>1. Others(p) /\ mine'[p] = NoRun /\ at'[p] = "idle"
  BY DEF Over, To, Others, CloudType, ShellType
<1>2. HonestNow(NoRun)
  BY DEF HonestNow, NoRun
<1> QED BY <1>1, <1>2, CopiesKeep DEF WithBox

LEMMA GoOnCopies ==
  ASSUME CloudType, Copies, GrowOnly, NEW p \in Shells, NEW r, HonestNow(r), NEW w,
         GoOn(p, r, w), w # "dropped", w \in WithBox => r.box # NoBox
  PROVE  Copies'
<1>1. Others(p) /\ mine'[p] = r /\ at'[p] = w /\ record' = r
  BY DEF GoOn, Save, To, Others, CloudType, ShellType
<1> QED BY <1>1, CopiesKeep

\* A process moves on and saves nothing.
LEMMA ToCopies ==
  ASSUME CloudType, Copies, GrowOnly, NEW p \in Shells, NEW w, To(p, w),
         record' = record, mine' = mine,
         w = "dropped" => mine[p].box \notin billing',
         w \in WithBox => mine[p].box # NoBox
  PROVE  Copies'
<1>1. Others(p) /\ mine'[p] = mine[p] /\ at'[p] = w
  BY DEF To, Others, CloudType, ShellType
<1> QED BY <1>1, CopiesKeep

LEMMA Bystander ==
  ASSUME CloudType, Leased, NEW p \in Shells, at[p] \notin Locked, at[p] # "dropped"
  PROVE  lease # p
BY CloudNames DEF Leased, CloudType, ShellType

\* The changes of its fields leave a copy as honest as it was.
LEMMA FieldsHonest ==
  ASSUME NEW r \in Records
  PROVE  /\ [r EXCEPT !.pid = TRUE].box = r.box
         /\ [r EXCEPT !.pid = TRUE].released = r.released
         /\ [r EXCEPT !.again = TRUE].box = r.box
         /\ [r EXCEPT !.again = TRUE].released = r.released
         /\ \A v : /\ [r EXCEPT !.verdict = v].box = r.box
                   /\ [r EXCEPT !.verdict = v].released = r.released
         /\ [r EXCEPT !.released = TRUE].box = r.box
BY DEF Records

LEMMA BaseStart ==
  ASSUME Base, NEW p \in Shells, StartStep(p) PROVE Leased' /\ Copies' /\ Unused'
<1> USE DEF world, ghosts
<1>1. /\ CloudType /\ ShellType /\ Leased /\ Copies /\ Unused
      /\ Honest(mine[p]) /\ mine[p] \in Records
      /\ at[p] \in Locked => lease = p
      /\ at[p] \in WithBox => mine[p].box # NoBox
  BY DEF Base, CloudType, ShellType, Leased, Copies
<1>2. CASE StartRun(p)
  <2>1. Leased'
    BY <1>1, <1>2, CloudNames DEF StartRun, To, ShellType, Leased, Locked
  <2>2. Copies'
    <3>1. Others(p) /\ mine'[p] = record /\ at'[p] = "adopt" /\ GrowOnly
      BY <1>1, <1>2 DEF StartRun, To, Others, ShellType, GrowOnly
    <3>2. HonestNow(record)
      BY <1>1, <3>1, StayHonest DEF Copies
    <3> QED BY <1>1, <1>2, <3>1, <3>2, CopiesKeep DEF StartRun, WithBox
  <2> QED BY <1>1, <1>2, <2>1, <2>2 DEF StartRun, Unused
<1>3. CASE Adopt(p)
  <2>1. GrowOnly /\ HonestNow(mine[p]) /\ Unused'
    BY <1>1, <1>3, StayHonest DEF Adopt, GrowOnly, Unused
  <2>2. lease = p
    BY <1>1, <1>3 DEF Adopt, Locked
  <2>3. CASE GoOn(p, mine[p], "watch") /\ mine[p].box # NoBox
    BY <1>1, <2>1, <2>2, <2>3, ToLeased, GoOnCopies DEF GoOn, Locked
  <2>4. CASE Save(p, mine[p]) /\ Over(p)
    BY <1>1, <2>1, <2>4, OverLeased, OverCopies DEF Save
  <2>5. CASE Over(p) /\ Unsaved
    BY <1>1, <2>1, <2>5, OverLeased, OverCopies DEF Unsaved
  <2>6. CASE To(p, "fresh") /\ Unsaved /\ UNCHANGED <<mine, auto, lease>>
    BY <1>1, <2>1, <2>2, <2>6, ToLeased, ToCopies DEF Unsaved, Locked, WithBox
  <2> QED BY <1>3, <2>3, <2>4, <2>5, <2>6 DEF Adopt
<1>4. CASE Clear(p)
  <2>1. lease = p /\ To(p, "cleared") /\ lease' = lease /\ record' = record
    BY <1>1, <1>4 DEF Clear, Locked
  <2>2. Leased'
    BY <1>1, <2>1, ToLeased DEF Locked
  <2>3. GrowOnly /\ Others(p) /\ at'[p] = "cleared"
    BY <1>1, <1>4 DEF Clear, To, GrowOnly, Others, ShellType
  <2>4. mine'[p] = mine[p] \/ HonestNow(mine'[p])
    <3>1. CASE NeedsRelease(mine[p])
      <4>1. /\ billing' = billing \ {mine[p].box} /\ taken' = taken
            /\ mine'[p] = [mine[p] EXCEPT !.released = TRUE]
        BY <1>1, <1>4, <3>1 DEF Clear, ShellType
      <4>2. mine'[p].box = mine[p].box
        BY <1>1, <4>1, FieldsHonest
      <4> QED BY <1>1, <4>1, <4>2 DEF Honest, HonestNow
    <3>2. CASE ~NeedsRelease(mine[p])
      BY <1>1, <1>4, <3>2 DEF Clear
    <3> QED BY <3>1, <3>2
  <2>5. Copies'
    BY <1>1, <2>1, <2>3, <2>4, CopiesKeep DEF WithBox
  <2> QED BY <1>1, <1>4, <2>2, <2>5 DEF Clear, Unused
<1>5. CASE Refuse(p)
  <2>1. GrowOnly /\ Unused'
    BY <1>1, <1>5 DEF Refuse, GrowOnly, Unused
  <2> QED BY <1>1, <1>5, <2>1, OverLeased, OverCopies DEF Refuse, Unsaved
<1>6. CASE Intend(p)
  <2>1. GrowOnly /\ Unused' /\ HonestNow(mine[p])
    BY <1>1, <1>6, StayHonest DEF Intend, GrowOnly, Unused
  <2> QED BY <1>1, <1>6, <2>1, ToLeased, GoOnCopies DEF Intend, GoOn, Locked, WithBox
<1>7. CASE Acquire(p)
  <2>1. PICK b \in Boxes \ taken :
          /\ billing' = billing \cup {b} /\ taken' = taken \cup {b}
          /\ mine' = [mine EXCEPT ![p] = [NoRun EXCEPT !.box = b]]
    BY <1>7 DEF Acquire
  <2>2. lease = p /\ To(p, "acquired") /\ lease' = lease /\ record' = record
    BY <1>1, <1>7 DEF Acquire, Locked
  <2>3. Leased'
    BY <1>1, <2>2, ToLeased DEF Locked
  <2>4. /\ GrowOnly /\ Others(p) /\ at'[p] = "acquired"
        /\ mine'[p] = [NoRun EXCEPT !.box = b]
    BY <1>1, <2>1, <2>2, CloudNames DEF To, GrowOnly, Others, ShellType
  <2>5. HonestNow(mine'[p]) /\ mine'[p].box # NoBox
    BY <2>1, <2>4, CloudNames DEF HonestNow, NoRun
  <2>6. Copies'
    BY <1>1, <2>2, <2>4, <2>5, CopiesKeep
  <2> QED BY <1>1, <1>7, <2>1, <2>3, <2>6 DEF Acquire, Unused
<1>8. CASE Book(p)
  <2>1. GrowOnly /\ Unused' /\ HonestNow(mine[p])
    BY <1>1, <1>8, StayHonest DEF Book, GrowOnly, Unused
  <2> QED BY <1>1, <1>8, <2>1, ToLeased, GoOnCopies DEF Book, GoOn, Locked, WithBox
<1>9. CASE Prepare(p)
  <2>1. GrowOnly /\ Unused' /\ HonestNow(mine[p])
    BY <1>1, <1>9, StayHonest DEF Prepare, GrowOnly, Unused
  <2> QED BY <1>1, <1>9, <2>1, ToLeased, GoOnCopies DEF Prepare, GoOn, Locked, WithBox
<1>10. CASE Spawned(p)
  <2>1. lease = p /\ mine[p].box \in taken
    BY <1>1, <1>10 DEF Spawned, Locked, WithBox, Honest
  <2>2. GrowOnly /\ Unused'
    BY <1>1, <1>10, <2>1 DEF Spawned, GrowOnly, Unused, Base, CloudType, WorldType
  <2> QED BY <1>1, <1>10, <2>1, <2>2, ToLeased, ToCopies DEF Spawned, Locked, WithBox
<1>11. CASE BookPid(p)
  <2>1. GrowOnly /\ Unused'
    BY <1>1, <1>11 DEF BookPid, GrowOnly, Unused
  <2> DEFINE r == [mine[p] EXCEPT !.pid = TRUE]
  <2>2. HonestNow(r) /\ r.box # NoBox
    BY <1>1, <1>11, <2>1, StayHonest, FieldsHonest DEF BookPid, HonestNow, WithBox
  <2> HIDE DEF r
  <2>3. lease = p
    BY <1>1, <1>11 DEF BookPid, Locked
  <2>4. ASSUME NEW w \in {"watch", "undo"}, GoOn(p, r, w) PROVE Leased' /\ Copies'
    BY <1>1, <2>1, <2>2, <2>3, <2>4, ToLeased, GoOnCopies DEF GoOn, Locked
  <2>5. CASE GoOn(p, mine[p], "undo")
    <3>1. HonestNow(mine[p]) /\ mine[p].box # NoBox
      BY <1>1, <1>11, <2>1, StayHonest DEF BookPid, WithBox
    <3> QED BY <1>1, <2>1, <2>3, <2>5, <3>1, ToLeased, GoOnCopies DEF GoOn, Locked
  <2>6. CASE Save(p, r) /\ Over(p)
    BY <1>1, <2>1, <2>2, <2>6, OverLeased, OverCopies DEF Save
  <2> QED BY <1>11, <2>1, <2>4, <2>6, <2>5 DEF BookPid, r
<1>12. CASE Undo(p)
  <2>1. GrowOnly /\ Unused'
    BY <1>1, <1>12 DEF Undo, GrowOnly, Unused
  <2>2. CASE /\ billing' = billing \ {mine[p].box} /\ To(p, "dropped") /\ Unsaved
             /\ UNCHANGED <<mine, auto, lease>>
    BY <1>1, <1>12, <2>1, <2>2, ToLeased, ToCopies DEF Undo, Unsaved, Locked, WithBox
  <2>3. CASE Save(p, mine[p]) /\ Over(p)
    BY <1>1, <2>1, <2>3, StayHonest, OverLeased, OverCopies DEF Save
  <2> QED BY <1>12, <2>1, <2>2, <2>3 DEF Undo
<1> QED BY <1>2, <1>3, <1>4, <1>5, <1>6, <1>7, <1>8, <1>9, <1>10, <1>11, <1>12
        DEF StartStep

LEMMA BaseGo ==
  ASSUME Base, NEW p \in Shells, GoStep(p) PROVE Leased' /\ Copies' /\ Unused'
<1> USE DEF world, ghosts
<1>1. /\ CloudType /\ ShellType /\ Leased /\ Copies /\ Unused
      /\ Honest(mine[p]) /\ mine[p] \in Records
      /\ at[p] \in Locked => lease = p
      /\ at[p] \in WithBox => mine[p].box # NoBox
      /\ at[p] = "dropped" => mine[p].box \notin billing
  BY DEF Base, CloudType, ShellType, Leased, Copies
<1>2. CASE Watch(p)
  <2>1. lease = p /\ GrowOnly /\ Unused'
    BY <1>1, <1>2 DEF Watch, Locked, GrowOnly, Unused
  <2> QED BY <1>1, <1>2, <2>1, ToLeased, ToCopies DEF Watch, Locked, WithBox
<1>3. CASE BreakOff(p)
  <2>1. lease = p /\ mine[p].box # NoBox
    BY <1>1, <1>3 DEF BreakOff, Locked, WithBox
  <2>2. GrowOnly /\ Unused'
    BY <1>1, <1>3 DEF BreakOff, GrowOnly, Unused, Base, CloudType, WorldType
  <2> QED BY <1>1, <1>3, <2>1, <2>2, ToLeased, ToCopies DEF BreakOff, Locked
<1>4. CASE Fetch(p)
  <2>1. GrowOnly /\ Unused' /\ lease = p /\ mine[p].box # NoBox
    BY <1>1, <1>4 DEF Fetch, GrowOnly, Unused, Locked, WithBox
  <2>2. /\ HonestNow(mine[p])
        /\ \A v : LET r == [mine[p] EXCEPT !.verdict = v]
                  IN  HonestNow(r) /\ r.box # NoBox
    BY <1>1, <2>1, StayHonest, FieldsHonest DEF HonestNow
  <2>3. ASSUME NEW r, HonestNow(r), r.box # NoBox, NEW w \in {"judge", "release"},
               GoOn(p, r, w)
        PROVE  Leased' /\ Copies'
    BY <1>1, <2>1, <2>3, ToLeased, GoOnCopies DEF GoOn, Locked
  <2>4. ASSUME NEW r, HonestNow(r), Save(p, r), Over(p) PROVE Leased' /\ Copies'
    BY <1>1, <2>1, <2>4, OverLeased, OverCopies DEF Save
  <2> QED BY <1>4, <2>1, <2>2, <2>3, <2>4 DEF Fetch
<1>5. CASE Judge(p)
  <2>1. GrowOnly /\ Unused' /\ lease = p /\ mine[p].box # NoBox
    BY <1>1, <1>5 DEF Judge, GrowOnly, Unused, Locked, WithBox
  <2>2. \A v : LET r == [mine[p] EXCEPT !.verdict = v]
               IN  HonestNow(r) /\ r.box # NoBox
    BY <1>1, <2>1, StayHonest, FieldsHonest DEF HonestNow
  <2>3. LET r == [mine[p] EXCEPT !.again = TRUE] IN HonestNow(r) /\ r.box # NoBox
    BY <1>1, <2>1, StayHonest, FieldsHonest DEF HonestNow
  <2>4. ASSUME NEW r, HonestNow(r), r.box # NoBox, NEW w \in {"spawn", "release"},
               GoOn(p, r, w)
        PROVE  Leased' /\ Copies'
    BY <1>1, <2>1, <2>4, ToLeased, GoOnCopies DEF GoOn, Locked
  <2> QED BY <1>5, <2>1, <2>2, <2>3, <2>4 DEF Judge
<1>6. CASE Drop(p)
  <2>1. lease = p /\ mine[p].box \in taken
    BY <1>1, <1>6 DEF Drop, Locked, WithBox, Honest
  <2>2. GrowOnly /\ Unused'
    BY <1>1, <1>6, <2>1 DEF Drop, GrowOnly, Unused, Base, CloudType, WorldType
  <2>3. CASE /\ billing' = billing \ {mine[p].box} /\ To(p, "dropped") /\ Unsaved
             /\ UNCHANGED <<mine, auto, lease>>
    BY <1>1, <1>6, <2>1, <2>2, <2>3, ToLeased, ToCopies DEF Drop, Unsaved, Locked, WithBox
  <2>4. CASE Save(p, mine[p]) /\ Over(p)
    BY <1>1, <2>2, <2>4, StayHonest, OverLeased, OverCopies DEF Save
  <2> QED BY <1>6, <2>2, <2>3, <2>4 DEF Drop
<1>7. CASE BookRelease(p)
  <2>1. GrowOnly /\ Unused'
    BY <1>1, <1>7 DEF BookRelease, GrowOnly, Unused
  <2> DEFINE r == [mine[p] EXCEPT !.released = TRUE]
  <2>2. Save(p, r) /\ Over(p) /\ billing' = billing
    BY <1>7 DEF BookRelease
  <2>3. HonestNow(r)
    BY <1>1, <1>7, <2>1, <2>2, FieldsHonest, StayHonest DEF BookRelease, HonestNow
  <2> HIDE DEF r
  <2> QED BY <1>1, <2>1, <2>2, <2>3, OverLeased, OverCopies DEF Save
<1> QED BY <1>2, <1>3, <1>4, <1>5, <1>6, <1>7 DEF GoStep

LEMMA BaseCommand ==
  ASSUME Base, NEW p \in Shells, Command(p) \/ Perish(p) PROVE Leased' /\ Copies' /\ Unused'
<1> USE DEF world, ghosts
<1>1. /\ CloudType /\ ShellType /\ Leased /\ Copies /\ Unused
      /\ Honest(mine[p]) /\ mine[p] \in Records
  BY DEF Base, CloudType, ShellType, Leased, Copies
<1>2. CASE LoadRun(p)
  <2>1. lease # p
    BY <1>1, <1>2, Bystander DEF LoadRun, Locked
  <2>2. Leased'
    BY <1>1, <1>2, <2>1, ToLeased DEF LoadRun, Locked
  <2>3. Others(p) /\ mine'[p] = record /\ at'[p] = "command" /\ GrowOnly /\ Unused'
    BY <1>1, <1>2 DEF LoadRun, To, Others, ShellType, GrowOnly, Unused
  <2>4. HonestNow(record)
    BY <1>1, <2>3, StayHonest DEF Copies
  <2> QED BY <1>1, <1>2, <2>2, <2>3, <2>4, CopiesKeep DEF LoadRun, WithBox
<1>3. CASE FetchIt(p)
  <2>1. GrowOnly /\ Unused' /\ HonestNow(mine[p])
    BY <1>1, <1>3, StayHonest DEF FetchIt, GrowOnly, Unused
  <2> QED BY <1>1, <1>3, <2>1, OverLeased, OverCopies DEF FetchIt, Save, Unsaved
<1>4. CASE VerifyIt(p)
  <2> DEFINE r == [mine[p] EXCEPT !.verdict = IF home = Pages THEN "ok" ELSE "incomplete"]
  <2>1. GrowOnly /\ Unused' /\ HonestNow(mine[p])
    BY <1>1, <1>4, StayHonest DEF VerifyIt, GrowOnly, Unused
  <2>2. HonestNow(r)
    BY <1>1, <2>1, FieldsHonest DEF HonestNow
  <2>3. Save(p, r) /\ Over(p)
    BY <1>4 DEF VerifyIt
  <2> HIDE DEF r
  <2> QED BY <1>1, <2>1, <2>2, <2>3, OverLeased, OverCopies DEF Save
<1>5. CASE StopIt(p)
  <2>1. GrowOnly /\ record' = record
    BY <1>5 DEF StopIt, GrowOnly
  <2>2. Unused'
    BY <1>1, <1>5 DEF StopIt, Unused, Base, CloudType, WorldType
  <2>3. lease # p
    BY <1>1, <1>5, Bystander DEF StopIt, Locked
  <2>4. CASE To(p, "dropped") /\ billing' = billing \ {mine[p].box}
             /\ UNCHANGED <<mine, auto, lease>>
    BY <1>1, <2>1, <2>2, <2>3, <2>4, ToLeased, ToCopies DEF Locked, WithBox
  <2>5. CASE Over(p)
    BY <1>1, <2>1, <2>2, <2>5, OverLeased, OverCopies
  <2> QED BY <1>5, <2>4, <2>5 DEF StopIt
<1>6. CASE Perish(p)
  <2>1. GrowOnly /\ Unused'
    BY <1>1, <1>6 DEF Perish, GrowOnly, Unused
  <2> QED BY <1>1, <1>6, <2>1, OverLeased, OverCopies DEF Perish
<1> QED BY <1>2, <1>3, <1>4, <1>5, <1>6 DEF Command

LEMMA BaseBox ==
  ASSUME Base, NEW b \in Boxes, PageRead(b) \/ JobEnds(b) \/ BoxGone(b)
  PROVE  Leased' /\ Copies' /\ Unused'
<1> USE DEF ghosts
<1>1. CloudType /\ Leased /\ Copies /\ Unused
  BY DEF Base
<1>2. GrowOnly /\ UNCHANGED <<record, mine, at, lease, taken>>
  BY DEF PageRead, JobEnds, BoxGone, GrowOnly
<1>3. Leased'
  BY <1>1, <1>2 DEF Leased
<1>4. Copies'
  BY <1>1, <1>2, CloudNames, CopiesKeep DEF Others, Copies, Honest, GrowOnly
<1>5. Unused'
  <2>1. b \in taken
    BY <1>1 DEF PageRead, JobEnds, BoxGone, Unused, CloudType, WorldType
  <2> QED BY <1>1, <2>1 DEF PageRead, JobEnds, BoxGone, Unused, CloudType, WorldType
<1> QED BY <1>3, <1>4, <1>5

LEMMA BaseStep == ASSUME Base, [CloudNext]_cloudVars PROVE Base'
<1>1. CloudType'
  BY CloudTypeStep DEF Base
<1>2. CASE UNCHANGED cloudVars
  BY <1>1, <1>2 DEF cloudVars, Base, Leased, Copies, Honest, Unused
<1> QED BY <1>1, <1>2, BaseStart, BaseGo, BaseCommand, BaseBox DEF CloudNext, Base

-----------------------------------------------------------------------------
(* What the record, the money and the work have to do with each other.     *)

SameLease(p) == lease' = lease \/ (lease = p /\ lease' = NoShell)

\* The world does not get worse.
Harmless ==
  /\ home \subseteq home' /\ home' \subseteq Pages
  /\ excused \subseteq excused' /\ texts' = texts
  /\ \A b \in Boxes : /\ job'[b] = "runs" => job[b] = "runs"
                      /\ job[b] = "none" => job'[b] = "none" \/ b \in excused'
                      /\ job'[b] = "none" => job[b] = "none"

SafeNow(b) == b \in excused' \/ texts'[b] \subseteq home'
LeftNow(b) ==
  \A p \in Shells : lease' = p /\ p # NoShell /\ mine'[p].box = b => at'[p] \notin Busy
TruthfulNow(r) ==
  /\ r.verdict = "ok" => home' = Pages
  /\ r.verdict = "stopped"
       => /\ r.box \in Boxes
          /\ \/ r.box \in excused'
             \/ job'[r.box] # "runs" /\ texts'[r.box] \subseteq home' /\ LeftNow(r.box)

\* p stays with the machine it was busy with, or takes up one whose work goes on.
StaysWith(p) ==
  Holder(p) /\ lease' = lease /\ at'[p] \in Busy
    => \/ at[p] \in Busy /\ mine'[p].box = mine[p].box
       \/ job[mine'[p].box] = "runs"

LEMMA SafeStays == ASSUME Harmless, NEW b, Safe(b) PROVE SafeNow(b)
BY DEF Harmless, Safe, SafeNow

LEMMA TruthStays ==
  ASSUME Harmless, NEW p, Others(p), SameLease(p), StaysWith(p), NEW r, Truthful(r)
  PROVE  TruthfulNow(r)
<1>1. r.verdict = "ok" => home' = Pages
  BY DEF Truthful, Harmless
<1>2. ASSUME r.verdict = "stopped", r.box \notin excused'
      PROVE  /\ r.box \in Boxes /\ job'[r.box] # "runs" /\ texts'[r.box] \subseteq home'
             /\ LeftNow(r.box)
  <2>1. /\ r.box \in Boxes /\ job[r.box] # "runs" /\ texts[r.box] \subseteq home
        /\ Left(r.box)
    BY <1>2 DEF Truthful, Harmless
  <2>2. job'[r.box] # "runs" /\ texts'[r.box] \subseteq home'
    BY <2>1 DEF Harmless
  <2>3. ASSUME NEW q \in Shells, lease' = q, q # NoShell, mine'[q].box = r.box,
               at'[q] \in Busy
        PROVE  FALSE
    <3>1. lease = q
      BY <2>3 DEF SameLease
    <3>2. CASE q # p
      BY <2>1, <2>3, <3>1, <3>2 DEF Others, Left, Holder
    <3>3. CASE q = p
      BY <2>1, <2>3, <3>1, <3>3 DEF StaysWith, Left, Holder
    <3> QED BY <3>2, <3>3
  <2> QED BY <2>1, <2>2, <2>3 DEF LeftNow
<1>3. r.verdict = "stopped" => r.box \in Boxes
  BY DEF Truthful
<1> QED BY <1>1, <1>2, <1>3 DEF TruthfulNow

\* A step of p, or of nobody, that rents and starts nothing.
LEMMA QuietStep ==
  ASSUME Base, Base', InHand, Sole, Work,
         NEW p \in Shells \cup {NoShell}, Others(p), SameLease(p), Harmless,
         billing' \subseteq billing, taken' = taken, cut \subseteq cut',
         \A b \in billing \ billing' : SafeNow(b),
         record'.box = record.box,
         record'.pid = record.pid \/ (record'.pid /\ Holder(p)),
         record' = record \/ TruthfulNow(record'),
         p \in Shells => mine'[p] = mine[p] \/ TruthfulNow(mine'[p]),
         Holder(p) /\ at[p] = "acquired" => billing' \ cut' = {} /\ lease' = NoShell,
         Holder(p) /\ at[p] = "spawned" =>
           \/ record'.pid \/ mine[p].box \in excused'
           \/ at'[p] = "spawned" /\ lease' = lease /\ mine'[p].box = mine[p].box,
         StaysWith(p),
         Holder(p) /\ lease' = lease =>
           /\ at'[p] # "acquired"
           /\ mine'[p].box = record.box /\ mine'[p].pid = record'.pid
           /\ at'[p] \in {"cleared", "acquire"} => billing' \ cut' = {}
           /\ Doing(p)'
  PROVE  InHand' /\ Sole' /\ Work'
<1>1. /\ Honest(record)' /\ lease \in Shells \cup {NoShell}
      /\ CloudType /\ CloudType'
  BY DEF Base, Copies, CloudType, ShellType
<1>2. ASSUME NEW q \in Shells, Holder(q)'
      PROVE  Holder(q) /\ lease' = lease /\ (q = p \/ ~Holder(p))
  BY <1>2 DEF Holder, SameLease
<1>3. InHand'
  <2> SUFFICES ASSUME NEW q \in Shells, Holder(q)'
               PROVE  \/ at'[q] = "acquired" /\ mine'[q] = [NoRun EXCEPT !.box = mine'[q].box]
                      \/ /\ at'[q] # "acquired"
                         /\ mine'[q].box = record'.box /\ mine'[q].pid = record'.pid
    BY DEF InHand
  <2>1. CASE q = p
    BY <1>2, <2>1
  <2>2. CASE q # p
    BY <1>2, <2>2 DEF InHand, Others
  <2> QED BY <2>1, <2>2
<1>4. Sole'
  <2>1. ASSUME NEW b \in billing', b \notin cut'
        PROVE  Noting(b)' \/ (record'.box = b /\ ~record'.released)
    <3>1. b \in billing \ cut
      BY <2>1
    <3>2. CASE record.box = b
      BY <1>1, <2>1, <3>2 DEF Honest
    <3>3. CASE Noting(b)
      <4>1. CASE lease = p
        BY <1>1, <2>1, <3>3, <4>1 DEF Noting, Holder
      <4>2. CASE lease # p
        BY <1>1, <3>3, <4>2 DEF Noting, SameLease, Others
      <4> QED BY <4>1, <4>2
    <3> QED BY <3>1, <3>2, <3>3 DEF Sole
  <2>2. ASSUME NEW q \in Shells, Holder(q)'
        PROVE  /\ at'[q] \in {"cleared", "acquire"} => billing' \ cut' = {}
               /\ at'[q] = "acquired" => billing' \ cut' \subseteq {mine'[q].box}
    <3>1. CASE q = p
      BY <1>2, <2>2, <3>1
    <3>2. CASE q # p
      BY <1>2, <2>2, <3>2 DEF Sole, Others
    <3> QED BY <3>1, <3>2
  <2> QED BY <2>1, <2>2 DEF Sole
<1>5. Work'
  <2>1. TruthfulNow(record')
    BY TruthStays DEF Work
  <2>2. ASSUME NEW q \in Shells PROVE TruthfulNow(mine'[q])
    <3>1. TruthfulNow(mine[q])
      BY TruthStays DEF Work
    <3> QED BY <3>1 DEF Others
  <2>3. ASSUME NEW b \in Boxes, Idle(b),
               \A z \in Shells : Holder(z) /\ at[z] = "spawned" /\ mine[z].box = b
                 => b \in excused' \/ (at'[z] = "spawned" /\ lease' = lease /\ mine'[z].box = b)
        PROVE  Idle(b)'
    BY <2>3 DEF Idle, Harmless, Holder
  <2>4. ASSUME record'.box # NoBox, ~record'.pid PROVE Idle(record.box)'
    <3>1. record.box \in Boxes /\ record'.pid = record.pid
      BY <1>1, <2>4 DEF CloudType, ShellType, Records
    <3>2. Idle(record.box)
      BY <2>4, <3>1 DEF Work
    <3>3. ASSUME NEW z \in Shells, Holder(z), at[z] = "spawned", mine[z].box = record.box
          PROVE  \/ record.box \in excused'
                 \/ at'[z] = "spawned" /\ lease' = lease /\ mine'[z].box = record.box
      <4>1. CASE z = p
        BY <2>4, <3>3, <4>1
      <4>2. CASE z # p
        BY <3>3, <4>2 DEF Others, SameLease, Holder
      <4> QED BY <4>1, <4>2
    <3> DEFINE b == record.box
    <3>4. b \in Boxes /\ Idle(b) /\ record'.box = b
      BY <3>1, <3>2
    <3> QED BY <2>3, <3>3, <3>4 DEF Idle, Harmless, Holder
  <2>5. ASSUME NEW q \in Shells, Holder(q)' PROVE Doing(q)'
    <3>1. CASE q = p
      BY <1>2, <2>5, <3>1
    <3>2. CASE q # p
      <4>1. mine'[q] = mine[q] /\ at'[q] = at[q] /\ Holder(q) /\ Doing(q)
        BY <1>2, <2>5, <3>2 DEF Others, Work
      <4>2. at[q] \in WithBox => mine[q].box \in Boxes
        BY <1>1 DEF Base, Copies, CloudType, ShellType, Records
      <4>3. at[q] = "acquired" => Idle(mine[q].box)'
        <5> SUFFICES ASSUME at[q] = "acquired" PROVE Idle(mine[q].box)'
          OBVIOUS
        <5>1. \A z \in Shells : Holder(z) => at[z] # "spawned"
          BY <4>1 DEF Holder
        <5> QED BY <4>1, <4>2, <5>1 DEF Doing, Idle, Harmless, WithBox
      <4> QED BY <4>1, <4>2, <4>3, SafeStays DEF Doing, Harmless, Safe, SafeNow, WithBox
    <3> QED BY <3>1, <3>2
  <2>6. \A b \in taken' \ billing' : SafeNow(b)
    BY SafeStays DEF Work
  <2> QED BY <2>1, <2>2, <2>4, <2>5, <2>6
          DEF Work, Truthful, TruthfulNow, Safe, SafeNow, Left, LeftNow, Holder
<1> QED BY <1>3, <1>4, <1>5

Before == /\ Base /\ InHand /\ Sole /\ Work
          /\ Base' /\ ~stale'
After  == InHand' /\ Sole' /\ Work'

\* The command ends; what it may have saved is about the same run.
LEMMA QuietOver ==
  ASSUME Before, NEW p \in Shells, Over(p), Harmless,
         billing' \subseteq billing, taken' = taken, cut \subseteq cut',
         \A b \in billing \ billing' : SafeNow(b),
         record'.box = record.box,
         record'.pid = record.pid \/ (record'.pid /\ Holder(p)),
         record' = record \/ TruthfulNow(record'),
         Holder(p) /\ at[p] = "acquired" => billing' \ cut' = {},
         Holder(p) /\ at[p] = "spawned" => record'.pid \/ mine[p].box \in excused'
  PROVE  After
<1>1. /\ Others(p) /\ at'[p] = "idle" /\ mine'[p] = NoRun /\ SameLease(p)
      /\ lease = p => lease' = NoShell
  BY DEF Before, Base, CloudType, ShellType, Over, To, Others, SameLease
<1>2. TruthfulNow(NoRun)
  BY DEF TruthfulNow, NoRun
<1>3. Holder(p) => lease' # lease
  BY <1>1, CloudNames DEF Holder
<1>4. StaysWith(p)
  BY <1>3 DEF StaysWith
<1> QED BY <1>1, <1>2, <1>3, <1>4, QuietStep DEF Before, After, Holder

\* What is saved by a command without the lock is about the same run, or marked.
LEMMA SaveSame ==
  ASSUME Before, NEW p \in Shells, NEW r, Save(p, r), r.box = mine[p].box,
         Holder(p) => at[p] # "acquired",
         r.pid = mine[p].pid \/ (r.pid /\ Holder(p))
  PROVE  /\ record' = r /\ record'.box = record.box
         /\ record'.pid = record.pid \/ (record'.pid /\ Holder(p))
<1>1. CASE lease = p
  <2>1. Holder(p) /\ mine[p].box = record.box /\ mine[p].pid = record.pid
    BY <1>1, CloudNames DEF Holder, Before, InHand
  <2> QED BY <2>1 DEF Save
<1>2. CASE lease # p
  <2>1. r.box = record.box /\ r.pid = record.pid
    BY <1>2 DEF Save, Before
  <2> QED BY <2>1 DEF Save
<1> QED BY <1>1, <1>2

\* The holder goes on, with what it saved or without saving; the world moves or not.
LEMMA QuietGo ==
  ASSUME Before, NEW p \in Shells, Holder(p), at[p] # "acquired",
         NEW w, To(p, w), w # "acquired", lease' = lease,
         \A q \in Shells : q # p => mine'[q] = mine[q],
         Harmless, billing' \subseteq billing, taken' = taken, cut' = cut,
         \A b \in billing \ billing' : SafeNow(b),
         mine'[p].box = mine[p].box, record'.box = record.box,
         record'.pid = mine'[p].pid,
         mine'[p].pid = mine[p].pid \/ mine'[p].pid,
         record' = record \/ TruthfulNow(record'),
         mine'[p] = mine[p] \/ TruthfulNow(mine'[p]),
         at[p] = "spawned" => mine'[p].pid \/ mine[p].box \in excused',
         w \in Busy => at[p] \in Busy \/ job[mine[p].box] = "runs",
         w \in {"cleared", "acquire"} => billing' \ cut' = {},
         Doing(p)'
  PROVE  After
<1>1. mine[p].box = record.box /\ mine[p].pid = record.pid
  BY DEF Before, InHand
<1>2. Others(p) /\ at'[p] = w /\ SameLease(p)
  BY DEF To, Others, SameLease, Before, Base, CloudType, ShellType
<1>3. StaysWith(p)
  BY <1>2 DEF StaysWith
<1> QED BY <1>1, <1>2, <1>3, QuietStep DEF Before, After

\* What the holder of the lock may count on.
LEMMA Known ==
  ASSUME Before, NEW p \in Shells
  PROVE  /\ at[p] \in Locked => Holder(p)
         /\ Holder(p) /\ at[p] # "acquired"
              => mine[p].box = record.box /\ mine[p].pid = record.pid
         /\ Holder(p) => Doing(p)
         /\ Truthful(mine[p]) /\ mine[p] \in Records /\ record \in Records
         /\ at[p] \in WithBox => mine[p].box \in Boxes
         /\ home \subseteq Pages /\ billing \subseteq Boxes
         /\ job \in [Boxes -> {"none", "runs", "over"}]
         /\ texts \in [Boxes -> SUBSET Pages]
         /\ \A b \in Boxes : job[b] = "none" => texts[b] = {}
         /\ at \in [Shells -> Steps] /\ mine \in [Shells -> Records]
BY CloudNames DEF Before, Base, Leased, InHand, Work, Copies, CloudType, ShellType,
   WorldType, Unused, Holder, Records

\* Nothing happens to machines and pages.
LEMMA StillWorld ==
  ASSUME Before, NEW p \in Shells, UNCHANGED world, excused \subseteq excused'
  PROVE  /\ Harmless /\ billing' \subseteq billing /\ taken' = taken
         /\ \A b \in billing \ billing' : SafeNow(b)
BY Known DEF world, Harmless

LEMMA StartRunStep == ASSUME Before, NEW p \in Shells, StartRun(p) PROVE After
<1> USE DEF world, ghosts
<1>1. /\ lease = NoShell /\ lease' = p
      /\ UNCHANGED <<record, billing, taken, job, texts, home, cut, excused>>
      /\ \A q \in Shells : q # p => mine'[q] = mine[q] /\ at'[q] = at[q]
      /\ mine'[p] = record /\ at'[p] = "adopt"
  BY Known DEF StartRun, To
<1>2. \A q \in Shells : ~Holder(q) /\ (Holder(q)' <=> q = p)
  BY <1>1, CloudNames DEF Holder
<1>3. \A b : ~Noting(b)
  BY <1>1 DEF Noting
<1>4. InHand'
  BY <1>1, <1>2 DEF InHand
<1>5. Sole'
  BY <1>1, <1>2, <1>3 DEF Before, Sole
<1>6. ASSUME NEW r, Truthful(r) PROVE TruthfulNow(r)
  BY <1>1, <1>6, CloudNames DEF Truthful, TruthfulNow, Safe, SafeNow, LeftNow, Busy
<1>7. TruthfulNow(record') /\ \A q \in Shells : TruthfulNow(mine'[q])
  BY <1>1, <1>6 DEF Before, Work
<1>8. record'.box # NoBox /\ ~record'.pid => Idle(record.box)'
  BY <1>1, <1>2 DEF Before, Work, Idle
<1>9. Work'
  BY <1>1, <1>2, <1>7, <1>8
     DEF Before, Work, Truthful, TruthfulNow, Safe, SafeNow, Left, LeftNow, Holder, Doing
<1> QED BY <1>4, <1>5, <1>9 DEF After

LEMMA AdoptStep == ASSUME Before, NEW p \in Shells, Adopt(p) PROVE After
<1> USE Known DEF ghosts
<1>1. /\ Holder(p) /\ at[p] = "adopt" /\ UNCHANGED <<world, excused, cut>>
  BY DEF Adopt, Locked
<1>2. /\ Harmless /\ billing' \subseteq billing /\ taken' = taken
      /\ \A b \in billing \ billing' : SafeNow(b)
  BY <1>1, StillWorld
<1>3. mine[p].box = record.box /\ mine[p].pid = record.pid
  BY <1>1
<1>4. CASE /\ GoOn(p, mine[p], "watch") /\ mine[p].pid
           /\ mine[p].box \in billing /\ job[mine[p].box] = "runs"
  <2>1. /\ To(p, "watch") /\ lease' = lease /\ record' = mine[p] /\ mine' = mine
        /\ mine'[p] = mine[p] /\ at'[p] = "watch" /\ job' = job
    BY <1>1, <1>4 DEF GoOn, Save, To, world
  <2>2. StaysWith(p)
    BY <1>4, <2>1 DEF StaysWith
  <2>3. TruthfulNow(mine[p])
    BY <1>2, <2>1, <2>2, TruthStays DEF Others, SameLease, To
  <2>4. Doing(p)'
    BY <1>4, <2>1 DEF Doing
  <2> QED BY <1>1, <1>2, <1>3, <1>4, <2>1, <2>3, <2>4, QuietGo
<1>5. CASE Save(p, mine[p]) /\ Over(p)
  <2>1. TruthfulNow(mine[p])
    BY <1>1, <1>2, <1>5, TruthStays DEF Over, To, Others, SameLease, StaysWith, Busy
  <2> QED BY <1>1, <1>2, <1>5, <2>1, SaveSame, QuietOver
<1>6. CASE Over(p) /\ Unsaved
  BY <1>1, <1>2, <1>6, QuietOver DEF Unsaved
<1>7. CASE To(p, "fresh") /\ Unsaved /\ UNCHANGED <<mine, auto, lease>>
  <2>1. Doing(p)'
    BY <1>1, <1>7 DEF To, Doing
  <2> QED BY <1>1, <1>2, <1>3, <1>7, <2>1, QuietGo DEF Unsaved, Busy
<1> QED BY <1>4, <1>5, <1>6, <1>7 DEF Adopt

\* What is left of an earlier attempt is the machine in the record, if anything.
LEMMA ClearStep == ASSUME Before, NEW p \in Shells, Clear(p) PROVE After
<1> USE Known DEF ghosts
<1>1. /\ Holder(p) /\ at[p] = "fresh" /\ To(p, "cleared") /\ at'[p] = "cleared"
      /\ UNCHANGED <<record, lease, taken, job, texts, home, cut, excused>>
      /\ \A q \in Shells : q # p => mine'[q] = mine[q]
      /\ NeedsRelease(mine[p]) => ~mine[p].pid
  BY DEF Clear, To, Locked
<1>2. mine[p].box = record.box /\ mine[p].pid = record.pid
  BY <1>1
<1>3. Harmless
  BY <1>1 DEF Harmless
<1>4. \A b \in billing \ cut : b = mine[p].box
  BY <1>1, <1>2, CloudNames DEF Before, Sole, Noting, Holder
<1>5. CASE NeedsRelease(mine[p])
  <2>1. /\ billing' = billing \ {mine[p].box}
        /\ mine'[p] = [mine[p] EXCEPT !.released = TRUE]
    BY <1>5 DEF Clear
  <2>2. mine[p].box \in Boxes
    BY <1>5 DEF NeedsRelease, Records
  <2>3. Idle(record.box)
    BY <1>1, <1>2, <1>5, <2>2, CloudNames DEF Before, Work, NeedsRelease
  <2>4. SafeNow(mine[p].box)
    BY <1>1, <1>2, <2>2, <2>3 DEF Idle, SafeNow, Holder
  <2>5. TruthfulNow(mine[p])
    BY <1>1, <1>3, TruthStays DEF To, Others, SameLease, StaysWith, Busy
  <2>6. /\ mine'[p].box = mine[p].box /\ mine'[p].pid = mine[p].pid
        /\ mine'[p].verdict = mine[p].verdict
    BY <2>1 DEF Records
  <2>7. TruthfulNow(mine'[p])
    BY <2>5, <2>6 DEF TruthfulNow
  <2>8. Doing(p)'
    BY <1>1 DEF Doing
  <2> QED BY <1>1, <1>2, <1>3, <1>4, <2>1, <2>4, <2>6, <2>7, <2>8, QuietGo DEF Busy
<1>6. CASE ~NeedsRelease(mine[p])
  <2>1. billing' = billing /\ mine' = mine
    BY <1>6 DEF Clear
  <2>2. billing \ cut = {}
    <3>1. mine[p].box \notin billing
      BY <1>6, CloudNames DEF NeedsRelease, Before, Base, Copies, Honest
    <3> QED BY <1>4, <3>1
  <2>3. Doing(p)'
    BY <1>1 DEF Doing
  <2> QED BY <1>1, <1>2, <1>3, <2>1, <2>2, <2>3, QuietGo DEF Busy
<1> QED BY <1>5, <1>6

LEMMA RefuseStep == ASSUME Before, NEW p \in Shells, Refuse(p) PROVE After
<1> USE DEF ghosts
<1>1. Over(p) /\ Unsaved /\ UNCHANGED <<world, excused, cut>>
  BY DEF Refuse
<1>2. at[p] # "acquired" /\ at[p] # "spawned"
  BY DEF Refuse
<1> QED BY <1>1, <1>2, StillWorld, QuietOver DEF Unsaved

LEMMA IntendStep == ASSUME Before, NEW p \in Shells, Intend(p) PROVE After
<1> USE Known DEF ghosts
<1>1. /\ Holder(p) /\ at[p] = "cleared" /\ UNCHANGED <<world, excused, cut>>
      /\ To(p, "acquire") /\ at'[p] = "acquire" /\ lease' = lease
      /\ record' = mine[p] /\ mine' = mine
  BY DEF Intend, GoOn, Save, To, Locked
<1>2. billing \ cut = {}
  BY <1>1 DEF Before, Sole
<1>3. /\ Harmless /\ billing' = billing /\ taken' = taken
  BY <1>1, StillWorld DEF world
<1>4. TruthfulNow(mine[p])
  BY <1>1, <1>3, TruthStays DEF To, Others, SameLease, StaysWith, Busy
<1>5. Doing(p)'
  BY <1>1 DEF Doing
<1> QED BY <1>1, <1>2, <1>3, <1>4, <1>5, QuietGo DEF Busy

\* Who rents finds nothing that costs money, and a machine nobody knows of.
LEMMA AcquireStep == ASSUME Before, NEW p \in Shells, Acquire(p) PROVE After
<1> USE Known DEF ghosts
<1>1. PICK b \in Boxes \ taken :
        /\ billing' = billing \cup {b} /\ taken' = taken \cup {b}
        /\ mine' = [mine EXCEPT ![p] = [NoRun EXCEPT !.box = b]]
  BY DEF Acquire
<1>2. /\ Holder(p) /\ at[p] = "acquire" /\ at'[p] = "acquired"
      /\ UNCHANGED <<record, lease, job, texts, home, cut, excused>>
      /\ \A q \in Shells : q # p => mine'[q] = mine[q] /\ at'[q] = at[q] /\ ~Holder(q)
      /\ Holder(p)' /\ \A q \in Shells : Holder(q)' => q = p
  BY <1>1 DEF Acquire, To, Locked, Holder
<1>3. mine'[p] = [NoRun EXCEPT !.box = b] /\ mine'[p].box = b /\ mine'[p].verdict = "none"
  BY <1>1 DEF NoRun
<1>4. InHand'
  BY <1>2, <1>3 DEF InHand
<1>5. billing \ cut = {}
  BY <1>2 DEF Before, Sole
<1>6. Sole'
  BY <1>1, <1>2, <1>3, <1>5 DEF Sole, Noting, Holder
<1>7. ASSUME NEW r, Truthful(r), Honest(r) PROVE TruthfulNow(r)
  <2>1. r.verdict = "stopped" => r.box # b
    BY <1>1, <1>7, CloudNames DEF Truthful, Honest
  <2> QED BY <1>2, <1>3, <1>7, <2>1
          DEF Truthful, TruthfulNow, Safe, SafeNow, Left, LeftNow, Holder
<1>8. TruthfulNow(record') /\ \A q \in Shells : TruthfulNow(mine'[q])
  <2>1. TruthfulNow(mine'[p])
    BY <1>3 DEF TruthfulNow
  <2> QED BY <1>2, <1>7, <2>1 DEF Before, Work, Base, Copies
<1>9. record'.box # NoBox /\ ~record'.pid => Idle(record.box)'
  BY <1>2 DEF Before, Work, Idle, Holder
<1>10. Doing(p)'
  <2>1. Idle(mine[p].box)'
    BY <1>1, <1>2, <1>3 DEF Before, Base, Unused, Idle
  <2> QED BY <1>2, <2>1 DEF Doing
<1>11. \A c \in taken' \ billing' : Safe(c)'
  BY <1>1, <1>2 DEF Before, Work, Safe
<1>12. Work'
  BY <1>2, <1>8, <1>9, <1>10, <1>11
     DEF Work, Truthful, TruthfulNow, Safe, SafeNow, Left, LeftNow, Holder
<1> QED BY <1>4, <1>6, <1>12 DEF After

LEMMA BookStep == ASSUME Before, NEW p \in Shells, Book(p) PROVE After
<1> USE Known DEF ghosts
<1>1. /\ Holder(p) /\ at[p] = "acquired" /\ at'[p] = "prepare"
      /\ record' = mine[p] /\ mine' = mine
      /\ UNCHANGED <<lease, billing, taken, job, texts, home, cut, excused>>
      /\ \A q \in Shells : q # p => at'[q] = at[q] /\ ~Holder(q)
      /\ Holder(p)' /\ \A q \in Shells : Holder(q)' => q = p
  BY DEF Book, GoOn, Save, To, Locked, Holder, world
<1>2. mine[p] = [NoRun EXCEPT !.box = mine[p].box]
  BY <1>1 DEF Before, InHand
<1>3. ~mine[p].released /\ ~mine[p].pid /\ ~mine[p].again
  BY <1>2 DEF NoRun
<1>4. InHand'
  BY <1>1 DEF InHand
<1>5. Sole'
  <2>1. billing \ cut \subseteq {mine[p].box}
    BY <1>1 DEF Before, Sole
  <2> QED BY <1>1, <1>3, <2>1 DEF Sole
<1>6. ASSUME NEW r, Truthful(r) PROVE TruthfulNow(r)
  <2>1. Harmless
    BY <1>1 DEF Harmless
  <2> QED BY <1>1, <1>6, <2>1, TruthStays DEF Others, SameLease, StaysWith, Busy
<1>7. Idle(mine[p].box)'
  BY <1>1 DEF Doing, Idle, Holder
<1>8. Work'
  BY <1>1, <1>3, <1>6, <1>7
     DEF Before, Work, Truthful, TruthfulNow, Safe, SafeNow, Left, LeftNow, Holder, Doing
<1> QED BY <1>4, <1>5, <1>8 DEF After

LEMMA PrepareStep == ASSUME Before, NEW p \in Shells, Prepare(p) PROVE After
<1> USE Known DEF ghosts
<1>1. PICK w \in {"spawn", "undo"} : GoOn(p, mine[p], w)
  BY DEF Prepare
<1>2. /\ Holder(p) /\ at[p] = "prepare" /\ UNCHANGED <<world, excused, cut>>
      /\ To(p, w) /\ at'[p] = w /\ lease' = lease
      /\ record' = mine[p] /\ mine' = mine
  BY <1>1 DEF Prepare, GoOn, Save, To, Locked
<1>3. /\ Harmless /\ billing' = billing /\ taken' = taken
  BY <1>2, StillWorld DEF world
<1>4. TruthfulNow(mine[p])
  BY <1>2, <1>3, TruthStays DEF To, Others, SameLease, StaysWith, Busy
<1>5. Doing(p)'
  <2>1. ~mine[p].pid /\ ~mine[p].again
    BY <1>2 DEF Doing
  <2> QED BY <1>2, <2>1 DEF Doing, Records
<1> QED BY <1>2, <1>3, <1>4, <1>5, QuietGo DEF Busy

LEMMA SpawnedStep == ASSUME Before, NEW p \in Shells, Spawned(p) PROVE After
<1> USE Known DEF ghosts
<1>1. /\ Holder(p) /\ at[p] = "spawn" /\ at'[p] = "spawned"
      /\ UNCHANGED <<record, mine, lease, billing, taken, texts, home, cut, excused>>
      /\ \A q \in Shells : q # p => at'[q] = at[q] /\ ~Holder(q)
      /\ Holder(p)' /\ \A q \in Shells : Holder(q)' => q = p
      /\ mine[p].box \in Boxes
      /\ job'[mine[p].box] = "runs"
      /\ \A b \in Boxes : b # mine[p].box => job'[b] = job[b]
  BY DEF Spawned, To, Locked, WithBox, Holder
<1>2. mine[p].box = record.box /\ mine[p].pid = record.pid /\ mine[p].pid = mine[p].again
  BY <1>1 DEF Doing
<1>3. InHand'
  BY <1>1, <1>2 DEF InHand
<1>4. Sole'
  BY <1>1 DEF Before, Sole, Noting, Holder
<1>5. ASSUME NEW r, Truthful(r) PROVE TruthfulNow(r)
  <2>1. r.verdict = "stopped" /\ r.box \notin excused => r.box # mine[p].box
    BY <1>1, <1>5 DEF Truthful, Left, Busy
  <2>2. r.verdict = "stopped" /\ r.box \notin excused => LeftNow(r.box)
    BY <1>1, <2>1, <1>5 DEF LeftNow, Holder
  <2> QED BY <1>1, <1>5, <2>1, <2>2 DEF Truthful, TruthfulNow
<1>6. record'.box # NoBox /\ ~record'.pid => Idle(record.box)'
  BY <1>1, <1>2 DEF Before, Work, Idle
<1>7. Doing(p)'
  BY <1>1, <1>2 DEF Doing
<1>8. Work'
  BY <1>1, <1>5, <1>6, <1>7
     DEF Before, Work, Truthful, TruthfulNow, Safe, SafeNow, Left, LeftNow, Holder
<1> QED BY <1>3, <1>4, <1>8 DEF After

LEMMA BookPidStep == ASSUME Before, NEW p \in Shells, BookPid(p) PROVE After
<1> USE Known DEF ghosts
<1> DEFINE r == [mine[p] EXCEPT !.pid = TRUE]
<1>1. /\ Holder(p) /\ at[p] = "spawned" /\ UNCHANGED <<world, cut>>
      /\ mine[p].box = record.box /\ mine[p].pid = record.pid
      /\ excused \subseteq excused'
  BY DEF BookPid, Locked
<1>2. /\ Harmless /\ billing' = billing /\ taken' = taken
  BY <1>1, StillWorld DEF world
<1>3. r.pid /\ r.box = mine[p].box /\ r.verdict = mine[p].verdict
  BY DEF Records
<1>4. \/ \E w \in {"watch", "undo"} : GoOn(p, r, w)
      \/ Save(p, r) /\ Over(p)
      \/ GoOn(p, mine[p], "undo") /\ mine[p].box \in excused'
  BY <1>3 DEF BookPid
<1> HIDE DEF r
<1>5. CASE Save(p, r) /\ Over(p)
  <2>1. TruthfulNow(mine[p])
    BY <1>1, <1>2, <1>5, TruthStays DEF Over, To, Others, SameLease, StaysWith, Busy
  <2>2. TruthfulNow(r)
    BY <1>3, <2>1 DEF TruthfulNow
  <2> QED BY <1>1, <1>2, <1>3, <1>5, <2>2, SaveSame, QuietOver
<1>6. ASSUME NEW w \in {"watch", "undo"}, NEW c, c = r \/ c = mine[p], GoOn(p, c, w),
             c = r \/ (w = "undo" /\ mine[p].box \in excused')
      PROVE  After
  <2>1. /\ To(p, w) /\ at'[p] = w /\ lease' = lease /\ record' = c /\ mine'[p] = c
        /\ \A q \in Shells : q # p => mine'[q] = mine[q]
    BY <1>6 DEF GoOn, Save, To
  <2>2. c.box = mine[p].box /\ c.verdict = mine[p].verdict /\ c.pid \in {mine[p].pid, TRUE}
    BY <1>3, <1>6
  <2>3. TruthfulNow(mine[p])
    BY <1>1, <1>2, <2>1, <2>2, TruthStays DEF To, Others, SameLease, StaysWith, Busy
  <2>4. TruthfulNow(c)
    BY <2>2, <2>3 DEF TruthfulNow
  <2>5. Doing(p)'
    BY <1>1, <1>3, <1>6, <2>1, <2>2 DEF Doing, world
  <2> QED BY <1>1, <1>2, <1>3, <1>6, <2>1, <2>2, <2>4, <2>5, QuietGo DEF Busy
<1> QED BY <1>4, <1>5, <1>6

\* The machine that is given back was never at work, or is excused.
LEMMA UndoStep == ASSUME Before, NEW p \in Shells, Undo(p) PROVE After
<1> USE Known DEF ghosts
<1>1. /\ Holder(p) /\ at[p] = "undo" /\ mine[p].box \in Boxes
      /\ UNCHANGED <<taken, job, texts, home, cut>> /\ excused \subseteq excused'
      /\ mine[p].box = record.box /\ mine[p].pid = record.pid
  BY DEF Undo, Locked, WithBox
<1>2. Harmless
  BY <1>1 DEF Harmless
<1>3. CASE /\ billing' = billing \ {mine[p].box} /\ To(p, "dropped") /\ Unsaved
           /\ excused' = IF job[mine[p].box] = "none" THEN excused
                                                      ELSE excused \cup {mine[p].box}
           /\ UNCHANGED <<mine, auto, lease>>
  <2>1. Doing(p)'
    BY <1>3 DEF To, Doing
  <2>2. SafeNow(mine[p].box)
    BY <1>1, <1>3 DEF SafeNow
  <2> QED BY <1>1, <1>2, <1>3, <2>1, <2>2, QuietGo DEF Unsaved, Busy
<1>4. CASE Save(p, mine[p]) /\ Over(p) /\ UNCHANGED billing
  <2>1. TruthfulNow(mine[p])
    BY <1>1, <1>2, <1>4, TruthStays DEF Over, To, Others, SameLease, StaysWith, Busy
  <2> QED BY <1>1, <1>2, <1>4, <2>1, SaveSame, QuietOver
<1> QED BY <1>3, <1>4 DEF Undo

LEMMA GoStepAfter == ASSUME Before, NEW p \in Shells, GoStep(p) PROVE After
<1> USE Known DEF ghosts
<1>1. /\ at[p] \in {"watch", "fetch", "salvage", "judge", "release"} =>
           /\ Holder(p) /\ mine[p].box = record.box /\ mine[p].pid = record.pid
           /\ mine[p].pid /\ mine[p].box \in Boxes /\ job[mine[p].box] # "none"
      /\ at[p] \in {"fetch", "judge"} => job[mine[p].box] # "runs"
      /\ at[p] = "release" => job[mine[p].box] # "runs" \/ mine[p].box \in excused
      /\ at[p] \in {"judge", "release"} => Safe(mine[p].box)
  BY DEF Locked, WithBox, Doing
<1>2. CASE Watch(p)
  <2>1. /\ at[p] = "watch" /\ To(p, "fetch") /\ at'[p] = "fetch"
        /\ job[mine[p].box] # "runs"
        /\ UNCHANGED <<record, mine, lease, world, excused, cut>>
    BY <1>2 DEF Watch, To
  <2>2. /\ Harmless /\ billing' = billing /\ taken' = taken
    BY <2>1, StillWorld DEF world
  <2>3. Doing(p)'
    BY <1>1, <2>1 DEF Doing, world
  <2> QED BY <1>1, <2>1, <2>2, <2>3, QuietGo DEF Busy
<1>3. CASE BreakOff(p)
  <2>1. /\ To(p, "salvage") /\ at'[p] = "salvage" /\ at[p] # "acquired"
        /\ UNCHANGED <<record, mine, lease, billing, taken, texts, home, cut, excused>>
        /\ job' \in {job, [job EXCEPT ![mine[p].box] = IF @ = "runs" THEN "over" ELSE @]}
    BY <1>3 DEF BreakOff, To
  <2>2. /\ Holder(p) /\ mine[p].box = record.box /\ mine[p].pid = record.pid
        /\ mine[p].pid /\ mine[p].box \in Boxes /\ job[mine[p].box] # "none"
    BY <1>1, <1>3 DEF BreakOff, Doing, Locked, WithBox
  <2>3. \A b \in Boxes : job'[b] = job[b] \/ (job[b] = "runs" /\ job'[b] = "over")
    BY <2>1
  <2>4. Harmless
    BY <2>1, <2>3 DEF Harmless
  <2>5. Doing(p)'
    BY <2>1, <2>2, <2>3 DEF Doing
  <2> QED BY <2>1, <2>2, <2>4, <2>5, QuietGo DEF Busy
<1>4. CASE Fetch(p)
  <2>1. /\ at[p] \in {"fetch", "salvage"} /\ UNCHANGED <<billing, taken, job, texts, cut>>
    BY <1>4 DEF Fetch
  <2>2. CASE /\ at[p] = "fetch" /\ GoOn(p, mine[p], "judge")
             /\ home' = home \cup texts[mine[p].box]
             /\ UNCHANGED excused
    <3>1. Harmless
      BY <1>1, <2>1, <2>2 DEF Harmless
    <3>2. /\ To(p, "judge") /\ at'[p] = "judge" /\ lease' = lease
          /\ record' = mine[p] /\ mine' = mine
      BY <2>1, <2>2 DEF GoOn, Save, To
    <3>3. TruthfulNow(mine[p])
      BY <2>2, <3>1, <3>2, TruthStays DEF To, Others, SameLease, StaysWith, Busy
    <3>4. Doing(p)'
      BY <1>1, <2>1, <2>2, <3>2 DEF Doing, Safe
    <3> QED BY <1>1, <2>1, <2>2, <3>1, <3>2, <3>3, <3>4, QuietGo DEF Busy
  <2>3. CASE /\ at[p] = "salvage"
             /\ GoOn(p, [mine[p] EXCEPT !.verdict = "stopped"], "release")
             /\ home \subseteq home' /\ home' \subseteq Pages
             /\ excused' \in {excused, excused \cup {mine[p].box}}
             /\ \/ mine[p].box \in excused'
                \/ job[mine[p].box] # "runs" /\ texts[mine[p].box] \subseteq home'
    <3> DEFINE r == [mine[p] EXCEPT !.verdict = "stopped"]
    <3>1. Harmless
      BY <1>1, <2>1, <2>3 DEF Harmless
    <3>2. r.box = mine[p].box /\ r.pid = mine[p].pid /\ r.verdict = "stopped"
      BY DEF Records
    <3>3. GoOn(p, r, "release")
      BY <2>3
    <3> HIDE DEF r
    <3>4. /\ To(p, "release") /\ at'[p] = "release" /\ lease' = lease
          /\ record' = r /\ mine'[p] = r
          /\ \A q \in Shells : q # p => mine'[q] = mine[q] /\ ~Holder(q)
      BY <1>1, <2>1, <3>3 DEF GoOn, Save, To, Holder
    <3>5. TruthfulNow(r)
      <4>1. LeftNow(r.box)
        BY <3>4, <1>1, <2>1 DEF LeftNow, Busy, Holder
      <4> QED BY <1>1, <2>1, <2>3, <3>2, <4>1 DEF TruthfulNow
    <3>6. Doing(p)'
      BY <1>1, <2>1, <2>3, <3>2, <3>4 DEF Doing, Safe
    <3> QED BY <1>1, <2>1, <2>3, <3>1, <3>2, <3>4, <3>5, <3>6, QuietGo DEF Busy
  <2>4. CASE /\ Save(p, [mine[p] EXCEPT !.verdict = "unfetched"])
             /\ Over(p) /\ UNCHANGED <<home, excused>>
    <3> DEFINE r == [mine[p] EXCEPT !.verdict = "unfetched"]
    <3>1. Harmless
      BY <2>1, <2>4 DEF Harmless
    <3>2. r.box = mine[p].box /\ r.pid = mine[p].pid /\ r.verdict = "unfetched"
      BY DEF Records
    <3>3. Save(p, r) /\ TruthfulNow(r)
      BY <2>4, <3>2 DEF TruthfulNow
    <3> HIDE DEF r
    <3> QED BY <1>1, <2>1, <2>4, <3>1, <3>2, <3>3, SaveSame, QuietOver
  <2>5. at[p] = "fetch" \/ at[p] = "salvage"
    BY <2>1
  <2>6. home \cup texts[mine[p].box] \subseteq Pages
    BY <1>1, <2>1
  <2> QED BY <1>4, <2>2, <2>3, <2>4, <2>5, <2>6 DEF Fetch
<1>5. CASE Judge(p)
  <2>1. at[p] = "judge" /\ UNCHANGED <<world, excused, cut>>
    BY <1>5 DEF Judge
  <2>2. /\ Harmless /\ billing' = billing /\ taken' = taken
    BY <2>1, StillWorld DEF world
  <2>3. CASE GoOn(p, [mine[p] EXCEPT !.again = TRUE], "spawn")
    <3> DEFINE r == [mine[p] EXCEPT !.again = TRUE]
    <3>1. /\ r.box = mine[p].box /\ r.pid = mine[p].pid /\ r.again
          /\ r.verdict = mine[p].verdict
      BY DEF Records
    <3>2. GoOn(p, r, "spawn")
      BY <2>3
    <3> HIDE DEF r
    <3>3. /\ To(p, "spawn") /\ at'[p] = "spawn" /\ lease' = lease
          /\ record' = r /\ mine'[p] = r
          /\ \A q \in Shells : q # p => mine'[q] = mine[q]
      BY <2>1, <3>2 DEF GoOn, Save, To
    <3>4. TruthfulNow(mine[p])
      BY <1>1, <2>1, <2>2, <3>1, <3>3, TruthStays DEF To, Others, SameLease, StaysWith, Busy
    <3>5. TruthfulNow(r)
      BY <3>1, <3>4 DEF TruthfulNow
    <3>6. Doing(p)'
      BY <1>1, <2>1, <3>1, <3>3 DEF Doing, world
    <3> QED BY <1>1, <2>1, <2>2, <3>1, <3>3, <3>5, <3>6, QuietGo DEF Busy
  <2>4. ASSUME NEW v \in {"ok", "incomplete"}, v = "ok" => home = Pages,
               GoOn(p, [mine[p] EXCEPT !.verdict = v], "release")
        PROVE  After
    <3> DEFINE r == [mine[p] EXCEPT !.verdict = v]
    <3>1. /\ r.box = mine[p].box /\ r.pid = mine[p].pid /\ r.verdict = v
      BY DEF Records
    <3>2. GoOn(p, r, "release")
      BY <2>4
    <3> HIDE DEF r
    <3>3. /\ To(p, "release") /\ at'[p] = "release" /\ lease' = lease
          /\ record' = r /\ mine'[p] = r
          /\ \A q \in Shells : q # p => mine'[q] = mine[q] /\ ~Holder(q)
      BY <1>1, <2>1, <3>2 DEF GoOn, Save, To, Holder
    <3>4. TruthfulNow(r)
      BY <2>1, <2>4, <3>1 DEF TruthfulNow, world
    <3>5. Doing(p)'
      BY <1>1, <2>1, <3>1, <3>3 DEF Doing, Safe, world
    <3> QED BY <1>1, <2>1, <2>2, <3>1, <3>3, <3>4, <3>5, QuietGo DEF Busy
  <2> QED BY <1>5, <2>3, <2>4 DEF Judge
<1>6. CASE Drop(p)
  <2>1. at[p] = "release" /\ UNCHANGED <<taken, texts, home, excused, cut>>
    BY <1>6 DEF Drop
  <2>2. CASE /\ billing' = billing \ {mine[p].box}
             /\ job' = [job EXCEPT ![mine[p].box] = "over"]
             /\ To(p, "dropped") /\ Unsaved /\ UNCHANGED <<mine, auto, lease>>
    <3>1. Harmless
      BY <1>1, <2>1, <2>2 DEF Harmless
    <3>2. SafeNow(mine[p].box)
      BY <1>1, <2>1, <3>1, SafeStays
    <3>3. Doing(p)'
      BY <2>2 DEF To, Doing
    <3> QED BY <1>1, <2>1, <2>2, <3>1, <3>2, <3>3, QuietGo DEF Unsaved, Busy
  <2>3. CASE Save(p, mine[p]) /\ Over(p) /\ UNCHANGED <<billing, job>>
    <3>1. Harmless
      BY <2>1, <2>3 DEF Harmless
    <3>2. TruthfulNow(mine[p])
      BY <2>3, <3>1, TruthStays, CloudNames
         DEF Over, To, Others, SameLease, StaysWith, Busy
    <3> QED BY <1>1, <2>1, <2>3, <3>1, <3>2, SaveSame, QuietOver
  <2> QED BY <1>6, <2>2, <2>3 DEF Drop
<1>7. CASE BookRelease(p)
  <2> DEFINE r == [mine[p] EXCEPT !.released = TRUE]
  <2>1. /\ at[p] = "dropped" /\ UNCHANGED <<world, excused, cut>>
        /\ Save(p, r) /\ Over(p)
    BY <1>7 DEF BookRelease
  <2>2. /\ r.box = mine[p].box /\ r.pid = mine[p].pid /\ r.verdict = mine[p].verdict
    BY DEF Records
  <2> HIDE DEF r
  <2>3. /\ Harmless /\ billing' = billing /\ taken' = taken
    BY <2>1, StillWorld DEF world
  <2>4. TruthfulNow(mine[p])
    BY <2>1, <2>3, TruthStays, CloudNames DEF Over, To, Others, SameLease, StaysWith, Busy
  <2>5. TruthfulNow(r)
    BY <2>2, <2>4 DEF TruthfulNow
  <2> QED BY <2>1, <2>2, <2>3, <2>5, SaveSame, QuietOver
<1> QED BY <1>2, <1>3, <1>4, <1>5, <1>6, <1>7 DEF GoStep

LEMMA CommandStep ==
  ASSUME Before, NEW p \in Shells, Command(p) \/ Perish(p) PROVE After
<1> USE Known DEF ghosts
<1>1. ASSUME at[p] \in {"idle", "command"}
      PROVE  lease # p /\ ~Holder(p) /\ at[p] # "spawned"
  BY <1>1, Bystander DEF Locked, Holder, Before, Base
<1>2. CASE LoadRun(p)
  <2>1. /\ ~Holder(p)
        /\ UNCHANGED <<record, lease, billing, taken, job, texts, home, excused, cut>>
        /\ Others(p) /\ mine'[p] = record
    BY <1>1, <1>2 DEF LoadRun, To, Others
  <2>2. Harmless /\ SameLease(p) /\ StaysWith(p)
    BY <2>1 DEF Harmless, SameLease, StaysWith, world
  <2>3. TruthfulNow(mine'[p])
    BY <2>1, <2>2, TruthStays DEF Before, Work
  <2> QED BY <2>1, <2>2, <2>3, QuietStep DEF Before, After, world
<1>3. CASE FetchIt(p)
  <2>1. /\ at[p] = "command" /\ Over(p) /\ ~Holder(p)
        /\ UNCHANGED <<billing, taken, job, texts, excused, cut>>
    BY <1>1, <1>3 DEF FetchIt
  <2>2. CASE /\ mine[p].box \in billing /\ Save(p, mine[p])
             /\ home' = home \cup texts[mine[p].box]
    <3>1. Harmless
      BY <2>1, <2>2 DEF Harmless
    <3>2. TruthfulNow(mine[p])
      BY <2>1, <3>1, TruthStays DEF Over, To, Others, SameLease, StaysWith, Busy
    <3> QED BY <2>1, <2>2, <3>1, <3>2, SaveSame, QuietOver
  <2>3. CASE Unsaved /\ UNCHANGED home
    <3>1. Harmless
      BY <2>1, <2>3 DEF Harmless
    <3> QED BY <2>1, <2>3, <3>1, QuietOver DEF Unsaved
  <2> QED BY <1>3, <2>2, <2>3 DEF FetchIt
<1>4. CASE VerifyIt(p)
  <2> DEFINE v == IF home = Pages THEN "ok" ELSE "incomplete"
             r == [mine[p] EXCEPT !.verdict = v]
  <2>1. /\ at[p] = "command" /\ ~Holder(p) /\ UNCHANGED <<world, excused, cut>>
        /\ Save(p, r) /\ Over(p)
    BY <1>1, <1>4 DEF VerifyIt
  <2>2. r.box = mine[p].box /\ r.pid = mine[p].pid /\ r.verdict = v
    BY DEF Records
  <2>3. /\ Harmless /\ billing' = billing /\ taken' = taken
    BY <2>1, StillWorld DEF world
  <2>4. v # "stopped" /\ (v = "ok" => home' = Pages)
    BY <2>1 DEF world
  <2> HIDE DEF r, v
  <2>5. TruthfulNow(r)
    <3> HIDE Known
    <3> QED BY <2>2, <2>4 DEF TruthfulNow
  <2> QED BY <2>1, <2>2, <2>3, <2>5, SaveSame, QuietOver
<1>5. CASE StopIt(p)
  <2>1. /\ at[p] = "command" /\ ~Holder(p)
        /\ UNCHANGED <<record, taken, texts, home, cut>>
    BY <1>1, <1>5 DEF StopIt
  <2>2. CASE /\ billing' = billing \ {mine[p].box}
             /\ job' = [job EXCEPT ![mine[p].box] = IF @ = "runs" THEN "over" ELSE @]
             /\ excused \subseteq excused'
             /\ mine[p].box \in excused' \/ MayStop(mine[p])
             /\ To(p, "dropped")
             /\ UNCHANGED <<mine, auto, lease>>
    <3>1. \A b \in Boxes : job'[b] = IF b = mine[p].box /\ job[b] = "runs"
                                     THEN "over" ELSE job[b]
      BY <2>2
    <3>2. Harmless
      BY <2>1, <2>2, <3>1 DEF Harmless
    <3>3. \A b \in billing \ billing' : SafeNow(b)
      <4>1. CASE mine[p].box \in excused'
        BY <2>2, <4>1 DEF SafeNow
      <4>2. CASE mine[p].verdict = "ok"
        BY <2>1, <2>2, <4>2 DEF Truthful, SafeNow
      <4>3. CASE mine[p].verdict = "stopped"
        <5>1. Safe(mine[p].box)
          BY <4>3 DEF Truthful, Safe
        <5> QED BY <2>2, <3>2, <5>1, SafeStays
      <4> QED BY <2>2, <4>1, <4>2, <4>3 DEF MayStop
    <3>4. Others(p) /\ SameLease(p) /\ StaysWith(p)
      BY <2>1, <2>2 DEF To, Others, SameLease, StaysWith
    <3> QED BY <2>1, <2>2, <3>2, <3>3, <3>4, QuietStep DEF Before, After
  <2>3. CASE Over(p) /\ UNCHANGED <<billing, job, excused>>
    <3>1. Harmless
      BY <2>1, <2>3 DEF Harmless
    <3> QED BY <2>1, <2>3, <3>1, QuietOver
  <2> QED BY <1>5, <2>2, <2>3 DEF StopIt
<1>6. CASE Perish(p)
  <2>1. /\ Over(p) /\ UNCHANGED <<record, billing, taken, job, texts, home>>
        /\ cut \subseteq cut' /\ excused \subseteq excused'
        /\ at[p] = "acquired" => mine[p].box \in cut'
        /\ at[p] = "spawned" => mine[p].pid \/ mine[p].box \in excused'
    BY <1>6 DEF Perish
  <2>2. Harmless
    BY <2>1 DEF Harmless
  <2>3. Holder(p) /\ at[p] = "acquired" => billing' \ cut' = {}
    BY <2>1 DEF Before, Sole
  <2>4. Holder(p) /\ at[p] = "spawned" => record'.pid \/ mine[p].box \in excused'
    BY <2>1
  <2> QED BY <2>1, <2>2, <2>3, <2>4, QuietOver
<1> QED BY <1>2, <1>3, <1>4, <1>5, <1>6 DEF Command

LEMMA BoxStep ==
  ASSUME Before, NEW b \in Boxes, PageRead(b) \/ JobEnds(b) \/ BoxGone(b) PROVE After
<1> USE DEF ghosts
<1>1. /\ CloudType /\ NoShell \notin Shells /\ home \subseteq Pages
      /\ UNCHANGED <<record, mine, at, lease, taken, home, cut>>
      /\ ~Holder(NoShell)
      /\ job \in [Boxes -> {"none", "runs", "over"}]
      /\ texts \in [Boxes -> SUBSET Pages]
  BY CloudNames DEF PageRead, JobEnds, BoxGone, Before, Base, CloudType, WorldType, Holder
<1>2. /\ Others(NoShell) /\ SameLease(NoShell) /\ StaysWith(NoShell)
  BY <1>1 DEF Others, SameLease, StaysWith
<1>3. CASE PageRead(b)
  <2>1. /\ b \in billing /\ job[b] = "runs" /\ UNCHANGED <<billing, job, excused>>
        /\ \A c \in Boxes : c # b => texts'[c] = texts[c]
    BY <1>1, <1>3 DEF PageRead
  <2>2. InHand' /\ Sole'
    BY <1>1, <2>1 DEF Before, InHand, Sole, Noting, Holder
  <2>3. ASSUME NEW r, Truthful(r) PROVE TruthfulNow(r)
    BY <1>1, <2>1, <2>3 DEF Truthful, TruthfulNow, Safe, SafeNow, Left, LeftNow, Holder
  <2>4. record'.box # NoBox /\ ~record'.pid => Idle(record.box)'
    <3>1. record.box \in Boxes \cup {NoBox}
      BY <1>1 DEF CloudType, ShellType, Records
    <3>2. record.box # NoBox /\ ~record.pid => Idle(record.box)
      BY DEF Before, Work
    <3> QED BY <1>1, <2>1, <3>1, <3>2 DEF Idle, Holder
  <2>5. ASSUME NEW p \in Shells, Holder(p)' PROVE Doing(p)'
    <3>1. Doing(p) /\ Holder(p)
      BY <1>1, <2>5 DEF Before, Work, Holder
    <3>2. at[p] \in WithBox => mine[p].box \in Boxes
      BY <1>1 DEF Before, Base, Copies, CloudType, ShellType, Records
    <3>3. CASE mine[p].box = b
      BY <1>1, <2>1, <3>1, <3>3 DEF Doing, Safe, Idle, Holder
    <3>4. CASE mine[p].box # b
      BY <1>1, <2>1, <3>1, <3>2, <3>4 DEF Doing, Safe, Idle, Holder, WithBox
    <3> QED BY <3>3, <3>4
  <2>6. \A c \in taken' \ billing' : Safe(c)'
    BY <1>1, <2>1 DEF Before, Work, Safe, Base, CloudType, WorldType
  <2>7. Work'
    BY <1>1, <2>3, <2>4, <2>5, <2>6
       DEF Before, Work, Truthful, TruthfulNow, Safe, SafeNow, Left, LeftNow, Holder
  <2> QED BY <2>2, <2>7 DEF After
<1>4. CASE JobEnds(b) \/ BoxGone(b)
  <2>1. /\ billing' \subseteq billing /\ texts' = texts /\ excused \subseteq excused'
        /\ \A c \in billing \ billing' : c \in excused'
        /\ job' = [job EXCEPT ![b] = "over"]
        /\ job[b] = "runs" \/ b \in excused'
    BY <1>4 DEF JobEnds, BoxGone
  <2>2. Harmless
    BY <1>1, <2>1 DEF Harmless
  <2>3. \A c \in billing \ billing' : SafeNow(c)
    BY <2>1 DEF SafeNow
  <2> QED BY <1>1, <1>2, <2>1, <2>2, <2>3, QuietStep DEF Before, After
<1> QED BY <1>3, <1>4

-----------------------------------------------------------------------------
(* The theorems.                                                           *)

\* A copy that went over a newer one stays on record.
LEMMA StaleStays == ASSUME CloudType, [CloudNext]_cloudVars, stale PROVE stale'
<1> DEFINE Kept == stale' = stale \/ \E p, r : Save(p, r)
<1>1. Kept => stale'
  BY DEF Save
<1>2. ASSUME NEW p \in Shells, StartStep(p) PROVE Kept
  <2>1. CASE StartRun(p) \/ Clear(p) \/ Acquire(p) \/ Spawned(p)
    BY <2>1 DEF StartRun, Clear, Acquire, Spawned
  <2>2. CASE Adopt(p)
    BY <2>2 DEF Adopt, GoOn, Unsaved
  <2>3. CASE Refuse(p) \/ Undo(p)
    BY <2>3 DEF Refuse, Undo, Unsaved
  <2>4. CASE Intend(p) \/ Book(p) \/ Prepare(p)
    BY <2>4 DEF Intend, Book, Prepare, GoOn
  <2>5. CASE BookPid(p)
    BY <2>5 DEF BookPid, GoOn
  <2> QED BY <1>2, <2>1, <2>2, <2>3, <2>4, <2>5 DEF StartStep
<1>3. ASSUME NEW p \in Shells, GoStep(p) PROVE Kept
  <2>1. CASE Watch(p) \/ BreakOff(p)
    BY <2>1 DEF Watch, BreakOff
  <2>2. CASE Fetch(p)
    BY <2>2 DEF Fetch, GoOn
  <2>3. CASE Judge(p)
    BY <2>3 DEF Judge, GoOn
  <2>4. CASE Drop(p) \/ BookRelease(p)
    BY <2>4 DEF Drop, BookRelease, Unsaved
  <2> QED BY <1>3, <2>1, <2>2, <2>3, <2>4 DEF GoStep
<1>4. ASSUME NEW p \in Shells, Command(p) \/ Perish(p) PROVE Kept
  BY <1>4 DEF Command, Perish, LoadRun, FetchIt, VerifyIt, StopIt, Unsaved
<1>5. ASSUME NEW b \in Boxes, PageRead(b) \/ JobEnds(b) \/ BoxGone(b) PROVE Kept
  BY <1>5 DEF PageRead, JobEnds, BoxGone
<1>6. UNCHANGED cloudVars => Kept
  BY DEF cloudVars
<1> HIDE DEF Kept
<1> QED BY <1>1, <1>2, <1>3, <1>4, <1>5, <1>6 DEF CloudNext

LEMMA CloudInvInit == CloudInit => CloudInv
<1> SUFFICES ASSUME CloudInit PROVE CloudInv
  OBVIOUS
<1>1. /\ record = NoRun /\ lease = NoShell /\ billing = {} /\ taken = {}
      /\ \A p \in Shells : mine[p] = NoRun /\ at[p] = "idle" /\ ~Holder(p)
  BY DEF CloudInit, Holder
<1>2. Base
  BY <1>1, CloudTypeInit
     DEF CloudInit, Base, Leased, Copies, Honest, Unused, NoRun, Locked, WithBox
<1>3. InHand /\ Sole
  BY <1>1 DEF InHand, Sole
<1>4. Work
  BY <1>1 DEF Work, Truthful, NoRun
<1> QED BY <1>2, <1>3, <1>4 DEF CloudInv

LEMMA CloudInvAlways == CloudSpec => []CloudInv
<1>1. ASSUME CloudInv, [CloudNext]_cloudVars PROVE CloudInv'
  <2>1. Base'
    BY <1>1, BaseStep DEF CloudInv
  <2>2. CASE stale'
    BY <2>1, <2>2 DEF CloudInv
  <2>3. CASE ~stale'
    <3>1. ~stale
      BY <1>1, <2>3, StaleStays DEF CloudInv, Base
    <3>2. Before
      BY <1>1, <2>1, <2>3, <3>1 DEF CloudInv, Before
    <3>3. CASE UNCHANGED cloudVars
      BY <3>2, <3>3 DEF Before, CloudInv, cloudVars, InHand, Sole, Noting, Holder, Work,
         Truthful, Safe, Left, Idle, Doing
    <3>4. ASSUME NEW p \in Shells, StartStep(p) PROVE After
      BY <3>2, <3>4, StartRunStep, AdoptStep, ClearStep, RefuseStep, IntendStep,
         AcquireStep, BookStep, PrepareStep, SpawnedStep, BookPidStep, UndoStep
         DEF StartStep
    <3>5. CASE CloudNext
      BY <2>1, <3>2, <3>4, <3>5, GoStepAfter, CommandStep, BoxStep
         DEF CloudNext, CloudInv, After
    <3> QED BY <1>1, <3>3, <3>5
  <2> QED BY <2>2, <2>3
<1> QED BY <1>1, CloudInvInit, PTL DEF CloudSpec

\* Whatever costs money is in the record, or in the hands of who is about to note it,
\* however many commands run, fail, die and are repeated.
THEOREM NoMachineAlone == CloudSpec => []NoOrphan
<1>1. CloudInv => NoOrphan
  BY DEF CloudInv, Sole, NoOrphan
<1> QED BY <1>1, CloudInvAlways, PTL

\* The case never costs two machines at once.
THEOREM OneAtATime == CloudSpec => []OneMachine
<1>1. ASSUME CloudInv, ~stale PROVE Cardinality(billing \ cut) <= 1
  <2>1. PICK c : billing \ cut \subseteq {c}
    <3>1. CASE \E b : Noting(b)
      <4>1. lease \in Shells /\ Holder(lease) /\ at[lease] = "acquired"
        BY <1>1, <3>1 DEF Noting, Holder, CloudInv, Base, CloudType, ShellType
      <4> QED BY <1>1, <4>1 DEF CloudInv, Sole
    <3>2. CASE \A b : ~Noting(b)
      BY <1>1, <3>2 DEF CloudInv, Sole
    <3> QED BY <3>1, <3>2
  <2>2. IsFiniteSet({c}) /\ Cardinality({c}) = 1
    BY FS_Singleton
  <2>3. Cardinality(billing \ cut) <= Cardinality({c})
    BY <2>1, <2>2, FS_Subset
  <2> QED BY <2>2, <2>3
<1>2. CloudInv => OneMachine
  BY <1>1 DEF OneMachine
<1> QED BY <1>2, CloudInvAlways, PTL

\* No machine is given back with pages on it that are not here, but for the cases the
\* property names.
THEOREM NothingGivenAway == CloudSpec => []NothingThrown
<1>1. CloudInv => NothingThrown
  BY DEF CloudInv, Work, Safe, NothingThrown
<1> QED BY <1>1, CloudInvAlways, PTL

-----------------------------------------------------------------------------
(* What state.py promises.                                                 *)

\* No process is killed between the renting of a machine and its noting.
NotesItsMachine == \A p \in Shells : at[p] = "acquired" => ~Perish(p)

LEMMA NobodyCut ==
  ASSUME CloudType, cut = {}, [CloudNext]_cloudVars, [NotesItsMachine]_cloudVars
  PROVE  cut' = {}
<1> USE DEF ghosts
<1>1. ASSUME NEW p \in Shells, StartStep(p) PROVE cut' = {}
  BY <1>1 DEF StartStep, StartRun, Adopt, Clear, Refuse, Intend, Acquire, Book, Prepare,
              Spawned, BookPid, Undo
<1>2. ASSUME NEW p \in Shells, GoStep(p) PROVE cut' = {}
  BY <1>2 DEF GoStep, Watch, BreakOff, Fetch, Judge, Drop, BookRelease
<1>3. ASSUME NEW p \in Shells, Command(p) PROVE cut' = {}
  BY <1>3 DEF Command, LoadRun, FetchIt, VerifyIt, StopIt
<1>4. ASSUME NEW p \in Shells, Perish(p) PROVE cut' = {}
  <2>1. NotesItsMachine
    BY <1>4 DEF Perish, cloudVars, CloudType, WorldType
  <2>2. at[p] # "acquired"
    BY <1>4, <2>1 DEF NotesItsMachine
  <2> QED BY <1>4, <2>2 DEF Perish
<1>5. ASSUME NEW b \in Boxes, PageRead(b) \/ JobEnds(b) \/ BoxGone(b) PROVE cut' = {}
  BY <1>5 DEF PageRead, JobEnds, BoxGone
<1>6. CASE UNCHANGED cloudVars
  BY <1>6 DEF cloudVars
<1> QED BY <1>1, <1>2, <1>3, <1>4, <1>5, <1>6 DEF CloudNext

\* Every machine that costs money is found by the next command, however many commands
\* run, fail and die, if none dies between renting a machine and noting it and none
\* without the lock saves a copy that is old.
THEOREM MachinesAreFound ==
  CloudSpec /\ [][NotesItsMachine]_cloudVars /\ []~stale => []MachineFound
<1>1. CloudInit => cut = {}
  BY DEF CloudInit
<1>2. CloudInv => CloudType
  BY DEF CloudInv, Base
<1>3. CloudType /\ cut = {} /\ [CloudNext]_cloudVars /\ [NotesItsMachine]_cloudVars
        => (cut = {})'
  BY NobodyCut
<1>4. NoOrphan /\ ~stale /\ cut = {} => MachineFound
  BY DEF NoOrphan, MachineFound
<1> QED BY <1>1, <1>2, <1>3, <1>4, CloudInvAlways, NoMachineAlone, PTL DEF CloudSpec

=============================================================================
