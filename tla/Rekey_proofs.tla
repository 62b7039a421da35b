----------------------------- MODULE Rekey_proofs -----------------------------
(***************************************************************************)
(* Proofs about Rekey: no note is lost (WorkKept), and a rollback brings   *)
(* back exactly what the apply found (Restores).                           *)
(*                                                                         *)
(* The applies that stand lie on each other like a stack, and a rollback   *)
(* takes the top one.  What an apply did not touch is, below it, as that   *)
(* apply found it, but for newer notes (Stack); so an archive that holds   *)
(* what was touched is enough.  The sums in the journal of a finished      *)
(* apply see every note made since (Seen), so a rollback that is not       *)
(* forced finds nothing newer than its archive.                            *)
(***************************************************************************)
EXTENDS Rekey, TLAPS

USE DEF Stamps, NoFile

Touched(j) == journal[j].kept \cup journal[j].created

\* b, written when m had been made, is what apply j found wherever j touched nothing,
\* but for newer notes.
AsFound(j, b, m) ==
  \A f \in Files \ Touched(j) :
     /\ journal[j].archive[f] \subseteq b[f]
     /\ b[f] \subseteq journal[j].archive[f] \cup (m \ journal[j].made)

\* k is the apply that stands next above j.
Above(k, j) ==
  /\ j \in Active /\ k \in Active /\ j < k
  /\ \A i \in Active : i <= j \/ k <= i

Archived(n, j) == \E f \in journal[j].kept : n \in journal[j].archive[f]

\* Only notes that were made are in the files.
OnlyMade == \A f \in Files : book[f] \subseteq made \cup {Torn}

\* What the journals say of the past.
Past ==
  \A j \in Active :
     /\ journal[j].made \subseteq made
     /\ \A f \in Files : /\ journal[j].archive[f] \subseteq journal[j].made
                         /\ journal[j].written[f] \subseteq journal[j].made \cup {Torn}
     /\ \A f \in journal[j].created : journal[j].archive[f] = {}
     /\ \A f \in journal[j].kept : journal[j].archive[f] # {}
     /\ \A i \in Active : i < j => journal[i].made \subseteq journal[j].made

\* A note there was when an apply began is among what it found, or in the archive of
\* an older one that was being taken back.
Found ==
  \A j \in Active : \A n \in journal[j].made \ forgone :
     \/ \E f \in Files : n \in journal[j].archive[f]
     \/ \E i \in undoing : i < j /\ Archived(n, i)

\* A file not written since a finished apply has no newer note.
Seen ==
  \A j \in Active : journal[j].state = "done" =>
     \A f \in Files \ newer[j] : book[f] \subseteq journal[j].made \cup {Torn}

Stack ==
  /\ \A j \in Active : Latest(j) => AsFound(j, book, made)
  /\ \A j, k \in Active :
        Above(k, j) => AsFound(j, journal[k].archive, journal[k].made)

\* Where a command stands.
Place1 ==
  /\ undoing \subseteq Active
  /\ step # "none" => Latest(which)
  /\ step \in {"move", "unlink", "finish"} =>
        /\ made = journal[which].made
        /\ \A f \in todo : {f, Place(f)} \subseteq Touched(which) /\ f # Place(f)
  /\ step = "unlink" =>
        /\ {moved, Place(moved)} \subseteq Touched(which)
        /\ moved # Place(moved)
        /\ book[moved] \subseteq book[Place(moved)]

Place2 ==
  /\ step \in {"undo", "close"} =>
        which \in undoing /\ made \ forgone \subseteq journal[which].made
  /\ step = "undo" =>
        /\ todo \subseteq journal[which].created /\ keep \subseteq journal[which].kept
        /\ todo # {} => keep = journal[which].kept
        /\ \A f \in journal[which].created \ todo : book[f] = {}
        /\ \A f \in journal[which].kept \ keep : book[f] = journal[which].archive[f]
  /\ step = "close" =>
        /\ \A f \in journal[which].created : book[f] = {}
        /\ \A f \in journal[which].kept : book[f] = journal[which].archive[f]
        /\ marker = journal[which].marker

RekeyInv ==
  RekeyType /\ OnlyMade /\ Past /\ Found /\ Seen /\ Stack /\ Place1 /\ Place2 /\ WorkKept

-----------------------------------------------------------------------------
(* Types.                                                                  *)

LEMMA PlaceIsFile ==
  ASSUME RekeyType, NEW f \in Files PROVE Place(f) \in Files
BY DEF RekeyType, Place, Files

LEMMA NewJournalType ==
  ASSUME RekeyType PROVE NewJournal \in Journals
<1>1. Plan \subseteq Files /\ Targets \subseteq Files
  BY PlaceIsFile DEF Plan, Targets
<1>2. QED
  BY <1>1 DEF NewJournal, Journals, RekeyType, Created

LEMMA RekeyTypeInit == RekeyInit => RekeyType
<1> SUFFICES ASSUME RekeyInit PROVE RekeyType
  OBVIOUS
<1>1. book \in Books
  BY DEF RekeyInit, Books, Files, Notes
<1>2. NoJournal \in Journals
  BY DEF NoJournal, Journals, Books
<1>3. journal \in [Stamps -> Journals] /\ newer \in [Stamps -> SUBSET Files]
  BY <1>2 DEF RekeyInit
<1>4. proper \in [Cases -> Names] /\ stamps \in 0..MaxMoves /\ which \in 0..MaxMoves
  BY RekeySizes DEF RekeyInit, Names
<1>5. kills \in 0..MaxKills
  BY RekeySizes DEF RekeyInit
<1>6. QED
  BY <1>1, <1>3, <1>4, <1>5 DEF RekeyInit, RekeyType, Notes

LEMMA RekeyTypeStep ==
  ASSUME RekeyType, [RekeyNext]_rekeyVars PROVE RekeyType'
<1> USE DEF RekeyType
<1>1. CASE Start
  <2>1. stamps + 1 \in Stamps
    BY <1>1, RekeySizes DEF Start
  <2>2. journal' \in [Stamps -> Journals]
    BY <1>1, <2>1, NewJournalType DEF Start
  <2>3. todo' \subseteq Files
    BY <1>1 DEF Start, Plan
  <2>4. stamps' \in 0..MaxMoves /\ which' \in 0..MaxMoves
    BY <1>1, <2>1, RekeySizes DEF Start
  <2>5. QED
    BY <1>1, <2>2, <2>3, <2>4 DEF Start, pastVars
<1>2. ASSUME NEW f \in Files, MoveIn(f) PROVE RekeyType'
  <2>1. Place(f) \in Files
    BY PlaceIsFile
  <2>2. book' \in Books
    BY <1>2, <2>1 DEF MoveIn, Books
  <2>3. newer' \in [Stamps -> SUBSET Files]
    BY <1>2, <2>1 DEF MoveIn, Wrote
  <2>4. QED
    BY <1>2, <2>2, <2>3 DEF MoveIn, pastVars
<1>3. CASE MoveOut
  <2>1. book' \in Books
    BY <1>3 DEF MoveOut, Books
  <2>2. QED
    BY <1>3, <2>1 DEF MoveOut, pastVars, journalVars
<1>4. CASE SetMarker
  BY <1>4 DEF SetMarker, pastVars, journalVars
<1>5. CASE EndApply
  <2>1. which \in Stamps
    BY <1>5 DEF EndApply
  <2>2. [journal[which] EXCEPT !.state = "done", !.written = book] \in Journals
    BY <2>1 DEF Journals
  <2>3. journal' = [journal EXCEPT ![which] =
                      [journal[which] EXCEPT !.state = "done", !.written = book]]
    BY <1>5, <2>1 DEF EndApply, Journals
  <2>4. journal' \in [Stamps -> Journals]
    BY <2>2, <2>3
  <2>5. newer' \in [Stamps -> SUBSET Files]
    BY <1>5 DEF EndApply
  <2>6. QED
    BY <1>5, <2>4, <2>5 DEF EndApply, pastVars
<1>6. CASE ApplyFails
  <2>1. CASE step \in {"move", "unlink"} /\ broken = {}
    <3>1. journal[which] \in Journals
      BY <2>1
    <3>2. journal[which].created \subseteq Files /\ journal[which].kept \subseteq Files
      BY <3>1 DEF Journals
    <3>3. QED
      BY <1>6, <2>1, <3>2 DEF ApplyFails, journalVars
  <2>2. CASE step = "finish" \/ broken # {}
    BY <1>6, <2>2 DEF ApplyFails, journalVars, pastVars
  <2>3. QED
    BY <1>6, <2>1, <2>2 DEF ApplyFails
<1>7. ASSUME NEW j \in Stamps, NEW force \in BOOLEAN, StartBack(j, force) PROVE RekeyType'
  <2>1. journal[j].created \subseteq Files /\ journal[j].kept \subseteq Files
    BY DEF Journals
  <2>2. forgone' \subseteq Notes
    BY <1>7 DEF StartBack
  <2>3. j \in 0..MaxMoves
    BY RekeySizes
  <2>4. QED
    BY <1>7, <2>1, <2>2, <2>3 DEF StartBack, journalVars
<1>8. ASSUME NEW f \in Files, Remove(f) PROVE RekeyType'
  <2>1. book' \in Books
    BY <1>8 DEF Remove, Books
  <2>2. QED
    BY <1>8, <2>1 DEF Remove, pastVars, journalVars
<1>9. ASSUME NEW f \in Files, Restore(f) PROVE RekeyType'
  <2>1. journal[which].archive \in Books
    BY <1>9 DEF Restore, Journals
  <2>2. book' \in Books
    BY <1>9, <2>1 DEF Restore, Books
  <2>3. newer' \in [Stamps -> SUBSET Files]
    BY <1>9 DEF Restore, Wrote
  <2>4. QED
    BY <1>9, <2>2, <2>3 DEF Restore, pastVars
<1>10. CASE RestoreMarker
  <2>1. journal[which].marker \in BOOLEAN
    BY <1>10 DEF RestoreMarker, Journals
  <2>2. QED
    BY <1>10, <2>1 DEF RestoreMarker, pastVars, journalVars
<1>11. CASE EndBack
  <2>1. which \in Stamps
    BY <1>11 DEF EndBack
  <2>2. [journal[which] EXCEPT !.state = "back"] \in Journals
    BY <2>1 DEF Journals
  <2>3. journal' \in [Stamps -> Journals]
    BY <1>11, <2>1, <2>2 DEF EndBack
  <2>4. QED
    BY <1>11, <2>3 DEF EndBack
<1>12. CASE KillRekey
  <2>1. book' \in Books
    BY <1>12 DEF KillRekey, Books
  <2>2. newer' \in [Stamps -> SUBSET Files]
    BY <1>12 DEF KillRekey, Wrote
  <2>3. broken' \subseteq {"marker", "journal"}
    BY <1>12 DEF KillRekey, InPlace
  <2>4. kills' \in 0..MaxKills
    BY <1>12, RekeySizes DEF KillRekey
  <2>5. QED
    BY <1>12, <2>1, <2>2, <2>3, <2>4 DEF KillRekey, pastVars
<1>13. ASSUME NEW c \in Cases, NEW n \in Later, Annotate(c, n) PROVE RekeyType'
  <2>1. <<c, proper[c]>> \in Files
    BY DEF Files
  <2>2. book' \in Books
    BY <1>13, <2>1 DEF Annotate, Books, Notes
  <2>3. newer' \in [Stamps -> SUBSET Files]
    BY <1>13, <2>1 DEF Annotate, Wrote
  <2>4. QED
    BY <1>13, <2>2, <2>3 DEF Annotate, commandVars, Notes
<1>14. ASSUME NEW c \in Cases, Correct(c) PROVE RekeyType'
  <2>1. proper' \in [Cases -> Names]
    BY <1>14, RekeySizes DEF Correct, Names
  <2>2. QED
    BY <1>14, <2>1 DEF Correct, journalVars, commandVars, pastVars
<1>15. CASE UNCHANGED rekeyVars
  BY <1>15 DEF rekeyVars, journalVars, commandVars, pastVars
<1>16. QED
  BY <1>1, <1>2, <1>3, <1>4, <1>5, <1>6, <1>7, <1>8, <1>9, <1>10, <1>11, <1>12, <1>13,
     <1>14, <1>15 DEF RekeyNext, ApplyStep, BackStep

\* Every variable keeps its type: names, journals and what a command has before it.
THEOREM RekeyTypeCorrect == RekeySpec => []RekeyType
<1>1. RekeyInit => RekeyType
  BY RekeyTypeInit
<1>2. RekeyType /\ [RekeyNext]_rekeyVars => RekeyType'
  BY RekeyTypeStep
<1>3. QED
  BY <1>1, <1>2, PTL DEF RekeySpec

-----------------------------------------------------------------------------
(* What the steps have in common.                                          *)

LEMMA ActiveStamps ==
  ASSUME RekeyType
  PROVE /\ Active \subseteq Stamps
        /\ \A j \in Active : j \in Nat /\ journal[j] \in Journals
BY RekeySizes DEF RekeyType, Active

\* Nothing of the journals changes.
Frame == journal' = journal /\ stamps' = stamps

LEMMA FrameActive == Frame => Active' = Active
BY DEF Frame, Active

LEMMA FrameLatest ==
  ASSUME Frame
  PROVE \A j : /\ Latest(j)' <=> Latest(j)
               /\ Touched(j)' = Touched(j)
               /\ \A n : Archived(n, j)' <=> Archived(n, j)
BY FrameActive DEF Frame, Latest, Touched, Archived

\* The journals' past is as it was while nobody makes a note.
LEMMA PastFrame ==
  ASSUME Past, Found, Frame, made' = made, undoing \subseteq undoing',
         forgone \subseteq forgone'
  PROVE Past' /\ Found'
<1>1. Active' = Active
  BY FrameActive
<1>2. Past'
  BY <1>1 DEF Past, Frame
<1>3. ASSUME NEW j \in Active', NEW n \in (journal[j].made \ forgone)'
      PROVE \/ \E f \in Files : n \in journal'[j].archive[f]
            \/ \E i \in undoing' : i < j /\ Archived(n, i)'
  <2>1. j \in Active /\ n \in journal[j].made \ forgone
    BY <1>1, <1>3 DEF Frame
  <2>2. \/ \E f \in Files : n \in journal[j].archive[f]
        \/ \E i \in undoing : i < j /\ Archived(n, i)
    BY <2>1 DEF Found
  <2>3. QED
    BY <2>2, FrameLatest DEF Frame
<1>4. Found'
  BY <1>3 DEF Found
<1>5. QED
  BY <1>2, <1>4

\* What is put into a file is seen by the journals.
LEMMA SeenFrame ==
  ASSUME Seen, Frame, \A j \in Active : newer[j] \subseteq newer'[j],
         \A g \in Files : \/ book'[g] \subseteq book[g]
                          \/ \A j \in Active : g \in newer'[j]
  PROVE Seen'
<1>1. Active' = Active
  BY FrameActive
<1>2. ASSUME NEW j \in Active', journal'[j].state = "done", NEW f \in Files \ newer'[j]
      PROVE book'[f] \subseteq journal'[j].made \cup {Torn}
  <2>1. j \in Active /\ journal[j].state = "done" /\ f \in Files \ newer[j]
    BY <1>1, <1>2 DEF Frame
  <2>2. book[f] \subseteq journal[j].made \cup {Torn}
    BY <2>1 DEF Seen
  <2>3. book'[f] \subseteq book[f]
    BY <1>2, <2>1
  <2>4. QED
    BY <2>2, <2>3 DEF Frame
<1>3. QED
  BY <1>2 DEF Seen

\* The apply on top writes only what it touched.
LEMMA StackFrame ==
  ASSUME Stack, Frame, made' = made, NEW w, Latest(w),
         \A g \in Files \ Touched(w) : book'[g] = book[g]
  PROVE Stack'
<1>1. Active' = Active
  BY FrameActive
<1>2. ASSUME NEW j \in Active', Latest(j)' PROVE AsFound(j, book, made)'
  <2>1. j \in Active /\ Latest(j)
    BY <1>1, <1>2, FrameLatest
  <2>2. \A g \in Files \ Touched(j) : book'[g] = book[g]
    <3>1. Active \subseteq Nat
      BY DEF Active
    <3>2. j = w
      BY <2>1, <3>1 DEF Latest
    <3>3. QED
      BY <3>2
  <2>3. AsFound(j, book, made)
    BY <2>1 DEF Stack
  <2>4. QED
    BY <2>2, <2>3 DEF AsFound, Frame, Touched
<1>3. ASSUME NEW j \in Active', NEW k \in Active', Above(k, j)'
      PROVE AsFound(j, journal[k].archive, journal[k].made)'
  <2>1. j \in Active /\ k \in Active /\ Above(k, j)
    BY <1>1, <1>3 DEF Above
  <2>2. AsFound(j, journal[k].archive, journal[k].made)
    BY <2>1 DEF Stack
  <2>3. QED
    BY <2>2 DEF AsFound, Frame, Touched
<1>4. QED
  BY <1>2, <1>3 DEF Stack

\* While the apply on top is being taken back, a note is in a file it did not touch or
\* in an archive.
LEMMA StillThere ==
  ASSUME RekeyInv, NEW w \in undoing, Latest(w), made \ forgone \subseteq journal[w].made,
         NEW b, \A g \in Files \ Touched(w) : b[g] = book[g],
         NEW n \in made \ forgone
  PROVE \/ \E g \in Files : n \in b[g]
        \/ \E j \in undoing : Archived(n, j)
<1>1. w \in Active /\ n \in journal[w].made \ forgone
  BY DEF Latest
<1>2. \/ \E f \in Files : n \in journal[w].archive[f]
      \/ \E i \in undoing : i < w /\ Archived(n, i)
  BY <1>1 DEF RekeyInv, Found
<1>3. ASSUME NEW f \in Files, n \in journal[w].archive[f]
      PROVE \/ \E g \in Files : n \in b[g]
            \/ \E j \in undoing : Archived(n, j)
  <2>1. CASE f \in journal[w].kept
    BY <1>3, <2>1 DEF Archived
  <2>2. f \notin journal[w].created
    BY <1>1, <1>3 DEF RekeyInv, Past
  <2>3. CASE f \notin journal[w].kept
    <3>1. f \in Files \ Touched(w)
      BY <2>2, <2>3 DEF Touched
    <3>2. n \in book[f]
      BY <1>1, <1>3, <3>1 DEF RekeyInv, Stack, AsFound
    <3>3. QED
      BY <3>1, <3>2
  <2>4. QED
    BY <2>1, <2>3
<1>4. QED
  BY <1>2, <1>3

LEMMA RekeyInvInit == RekeyInit => RekeyInv
<1> SUFFICES ASSUME RekeyInit PROVE RekeyInv
  OBVIOUS
<1>1. RekeyType
  BY RekeyTypeInit
<1>2. Active = {}
  BY DEF Active, RekeyInit
<1>3. OnlyMade
  BY DEF OnlyMade, RekeyInit, Files
<1>4. Past /\ Found /\ Seen /\ Stack
  BY <1>2 DEF Past, Found, Seen, Stack
<1>5. Place1 /\ Place2
  BY DEF Place1, Place2, RekeyInit
<1>6. WorkKept
  <2>1. ASSUME NEW n \in made PROVE \E f \in Files : n \in book[f]
    <3>1. <<n, 0>> \in Files /\ n \in book[<<n, 0>>]
      BY RekeySizes DEF RekeyInit, Files, Names
    <3>2. QED
      BY <3>1
  <2>2. QED
    BY <2>1 DEF WorkKept
<1>7. QED
  BY <1>1, <1>3, <1>4, <1>5, <1>6 DEF RekeyInv

-----------------------------------------------------------------------------
(* The steps of apply.                                                     *)

LEMMA MoveInStep ==
  ASSUME RekeyInv, NEW f \in Files, MoveIn(f) PROVE RekeyInv'
<1> USE DEF RekeyInv
<1>1. RekeyType'
  BY RekeyTypeStep DEF RekeyNext, ApplyStep
<1>2. Frame /\ made' = made /\ undoing' = undoing /\ forgone' = forgone /\ which' = which
      /\ proper' = proper
  BY DEF MoveIn, Frame, pastVars
<1>3. /\ Place(f) \in Files /\ {f, Place(f)} \subseteq Touched(which) /\ f # Place(f)
      /\ Latest(which) /\ made = journal[which].made
  BY PlaceIsFile DEF MoveIn, Place1
<1>4. /\ book' = [book EXCEPT ![Place(f)] = book[Place(f)] \cup book[f]]
      /\ \A g \in Files : book[g] \subseteq book'[g]
      /\ \A g \in Files : g # Place(f) => book'[g] = book[g]
      /\ book'[Place(f)] = book[Place(f)] \cup book[f]
  BY <1>3 DEF MoveIn, RekeyType, Books
<1>5. OnlyMade'
  BY <1>2, <1>3, <1>4 DEF OnlyMade
<1>6. Past' /\ Found'
  BY <1>2, PastFrame
<1>7. Seen'
  <2>1. \A j \in Active : newer[j] \subseteq newer'[j] /\ Place(f) \in newer'[j]
    BY ActiveStamps DEF MoveIn, Wrote
  <2>2. QED
    BY <1>2, <1>4, <2>1, SeenFrame
<1>8. Stack'
  BY <1>2, <1>3, <1>4, StackFrame
<1>9. Place1'
  <2>1. \A g : Place(g)' = Place(g)
    BY <1>2 DEF Place
  <2>2. Active' = Active /\ Latest(which)' /\ Touched(which)' = Touched(which)
    BY <1>2, <1>3, FrameActive, FrameLatest
  <2>3. step' = "unlink" /\ moved' = f /\ todo' \subseteq todo /\ step = "move"
    BY DEF MoveIn
  <2>4. book'[f] \subseteq book'[Place(f)]
    BY <1>3, <1>4
  <2>5. \A g \in todo' : {g, Place(g)} \subseteq Touched(which) /\ g # Place(g)
    BY <2>3 DEF Place1
  <2>6. made' = journal'[which'].made
    BY <1>2, <1>3 DEF Frame
  <2>7. QED
    BY <1>2, <1>3, <2>1, <2>2, <2>3, <2>4, <2>5, <2>6 DEF Place1
<1>10. Place2'
  BY DEF MoveIn, Place2
<1>11. WorkKept'
  <2>1. \A j : \A n : Archived(n, j)' <=> Archived(n, j)
    BY <1>2, FrameLatest
  <2>2. QED
    BY <1>2, <1>4, <2>1 DEF WorkKept, Archived
<1>12. QED
  BY <1>1, <1>5, <1>6, <1>7, <1>8, <1>9, <1>10, <1>11

LEMMA MoveOutStep ==
  ASSUME RekeyInv, MoveOut PROVE RekeyInv'
<1> USE DEF RekeyInv
<1>1. RekeyType'
  BY RekeyTypeStep DEF RekeyNext, ApplyStep
<1>2. Frame /\ made' = made /\ undoing' = undoing /\ forgone' = forgone /\ which' = which
      /\ proper' = proper /\ todo' = todo /\ newer' = newer
  BY DEF MoveOut, Frame, pastVars, journalVars
<1>3. /\ moved \in Files /\ Place(moved) \in Files
      /\ {moved, Place(moved)} \subseteq Touched(which) /\ moved # Place(moved)
      /\ Latest(which) /\ book[moved] \subseteq book[Place(moved)]
      /\ made = journal[which].made
  BY PlaceIsFile DEF MoveOut, Place1, RekeyType
<1>4. /\ \A g \in Files : g # moved => book'[g] = book[g]
      /\ book'[moved] = {}
  BY <1>3 DEF MoveOut, RekeyType, Books
<1>5. OnlyMade'
  BY <1>2, <1>3, <1>4 DEF OnlyMade
<1>6. Past' /\ Found'
  BY <1>2, PastFrame
<1>7. Seen'
  BY <1>2, <1>4, SeenFrame
<1>8. Stack'
  BY <1>2, <1>3, <1>4, StackFrame
<1>9. Place1'
  <2>1. \A g : Place(g)' = Place(g)
    BY <1>2 DEF Place
  <2>2. Active' = Active /\ Latest(which)' /\ Touched(which)' = Touched(which)
    BY <1>2, <1>3, FrameActive, FrameLatest
  <2>3. step' = "move" /\ step = "unlink"
    BY DEF MoveOut
  <2>4. made' = journal'[which'].made
    BY <1>2, <1>3 DEF Frame
  <2>5. QED
    BY <1>2, <1>3, <2>1, <2>2, <2>3, <2>4 DEF Place1
<1>10. Place2'
  BY DEF MoveOut, Place2
<1>11. WorkKept'
  <2>1. \A j : \A n : Archived(n, j)' <=> Archived(n, j)
    BY <1>2, FrameLatest
  <2>2. \A n : (\E g \in Files : n \in book[g]) => \E g \in Files : n \in book'[g]
    BY <1>3, <1>4
  <2>3. QED
    BY <1>2, <2>1, <2>2 DEF WorkKept, Archived
<1>12. QED
  BY <1>1, <1>5, <1>6, <1>7, <1>8, <1>9, <1>10, <1>11

\* Steps that change neither files nor journals.
LEMMA QuietStep ==
  ASSUME RekeyInv, Frame, made' = made, undoing \subseteq undoing', forgone \subseteq forgone',
         book' = book, newer' = newer
  PROVE OnlyMade' /\ Past' /\ Found' /\ Seen' /\ Stack' /\ WorkKept'
<1> USE DEF RekeyInv
<1>1. OnlyMade'
  BY DEF OnlyMade
<1>2. Past' /\ Found'
  BY PastFrame
<1>3. Seen'
  BY SeenFrame
<1>4. Stack'
  <2>1. Active' = Active
    BY FrameActive
  <2>2. QED
    BY <2>1 DEF Stack, AsFound, Latest, Above, Touched, Frame
<1>5. WorkKept'
  <2>1. \A j : \A n : Archived(n, j)' <=> Archived(n, j)
    BY FrameLatest
  <2>2. QED
    BY <2>1 DEF WorkKept, Archived
<1>6. QED
  BY <1>1, <1>2, <1>3, <1>4, <1>5

LEMMA SetMarkerStep ==
  ASSUME RekeyInv, SetMarker PROVE RekeyInv'
<1> USE DEF RekeyInv
<1>1. RekeyType'
  BY RekeyTypeStep DEF RekeyNext, ApplyStep
<1>2. Frame /\ made' = made /\ undoing' = undoing /\ forgone' = forgone /\ which' = which
      /\ book' = book /\ newer' = newer /\ todo' = {} /\ step = "move" /\ step' = "finish"
  BY DEF SetMarker, Frame, pastVars, journalVars
<1>3. OnlyMade' /\ Past' /\ Found' /\ Seen' /\ Stack' /\ WorkKept'
  BY <1>2, QuietStep
<1>4. Place1'
  BY <1>2, FrameActive, FrameLatest DEF Place1, Frame
<1>5. Place2'
  BY <1>2 DEF Place2
<1>6. QED
  BY <1>1, <1>3, <1>4, <1>5

LEMMA ApplyFailsStep ==
  ASSUME RekeyInv, ApplyFails PROVE RekeyInv'
<1> USE DEF RekeyInv
<1>1. RekeyType'
  BY RekeyTypeStep DEF RekeyNext, ApplyStep
<1>2. Frame /\ made' = made /\ undoing \subseteq undoing' /\ forgone' = forgone
      /\ which' = which /\ book' = book /\ newer' = newer
  BY DEF ApplyFails, Frame, pastVars, journalVars
<1>3. OnlyMade' /\ Past' /\ Found' /\ Seen' /\ Stack' /\ WorkKept'
  BY <1>2, QuietStep
<1>4. Latest(which)' /\ Active' = Active
  BY <1>2, FrameActive, FrameLatest DEF ApplyFails, Place1
<1>5. CASE step \in {"move", "unlink"} /\ broken = {}
  <2>1. /\ step' = "undo" /\ undoing' = undoing \cup {which}
        /\ todo' = journal[which].created /\ keep' = journal[which].kept
    BY <1>5 DEF ApplyFails
  <2>2. made = journal[which].made /\ which \in Active
    BY <1>5 DEF Place1, Latest
  <2>3. Place1'
    BY <1>2, <1>4, <2>1, <2>2 DEF Place1
  <2>4. Place2'
    BY <1>2, <2>1, <2>2 DEF Place2, Frame
  <2>5. QED
    BY <1>1, <1>3, <2>3, <2>4
<1>6. CASE step = "finish" \/ broken # {}
  <2>1. step' = "none" /\ undoing' = undoing
    BY <1>6 DEF ApplyFails, pastVars
  <2>2. Place1' /\ Place2'
    BY <1>2, <1>4, <2>1 DEF Place1, Place2
  <2>3. QED
    BY <1>1, <1>3, <2>2
<1>7. QED
  BY <1>5, <1>6 DEF ApplyFails

\* A journal that is closed keeps what it says of the past.
LEMMA EndApplyJournal ==
  ASSUME RekeyInv, EndApply
  PROVE /\ Active' = Active /\ which \in Active
        /\ \A j \in Stamps :
              /\ journal'[j].kept = journal[j].kept
              /\ journal'[j].created = journal[j].created
              /\ journal'[j].archive = journal[j].archive
              /\ journal'[j].made = journal[j].made
              /\ journal'[j].marker = journal[j].marker
              /\ j # which => journal'[j] = journal[j]
        /\ journal'[which].written = book
<1> USE DEF RekeyInv
<1>1. which \in Active /\ which \in Stamps
  BY ActiveStamps DEF EndApply, Place1, Latest
<1>2. \A j \in Stamps : journal[j] \in Journals
  BY DEF RekeyType
<1>3. journal' = [journal EXCEPT ![which] =
                    [journal[which] EXCEPT !.state = "done", !.written = book]]
  BY <1>1, <1>2 DEF EndApply, Journals
<1>4. \A j \in Stamps : j # which => journal'[j] = journal[j]
  BY <1>3 DEF RekeyType
<1>5. journal'[which] = [journal[which] EXCEPT !.state = "done", !.written = book]
  BY <1>1, <1>3 DEF RekeyType
<1>6. /\ journal'[which].kept = journal[which].kept
      /\ journal'[which].created = journal[which].created
      /\ journal'[which].archive = journal[which].archive
      /\ journal'[which].made = journal[which].made
      /\ journal'[which].marker = journal[which].marker
      /\ journal'[which].state = "done" /\ journal'[which].written = book
  BY <1>1, <1>2, <1>5 DEF Journals
<1>7. stamps' = stamps /\ Active \subseteq Stamps /\ 1..stamps \subseteq Stamps
  BY RekeySizes, ActiveStamps DEF EndApply, RekeyType
<1>8. \A j \in 1..stamps : journal'[j].state # "back" <=> journal[j].state # "back"
  BY <1>1, <1>4, <1>6, <1>7 DEF Active
<1>9. Active' = Active
  BY <1>7, <1>8 DEF Active
<1>10. QED
  BY <1>1, <1>4, <1>6, <1>9

LEMMA EndApplyStep ==
  ASSUME RekeyInv, EndApply PROVE RekeyInv'
<1> USE DEF RekeyInv
<1>1. RekeyType'
  BY RekeyTypeStep DEF RekeyNext, ApplyStep
<1>2. /\ made' = made /\ undoing' = undoing /\ forgone' = forgone /\ book' = book
      /\ step = "finish" /\ step' = "none"
  BY DEF EndApply, pastVars
<1>3. made = journal[which].made
  BY <1>2 DEF Place1
<1>4. Active' = Active /\ which \in Active /\ Active \subseteq Stamps /\ undoing \subseteq Active
  BY EndApplyJournal, ActiveStamps DEF Place1
<1>5. \A j \in Active :
         /\ journal'[j].kept = journal[j].kept
         /\ journal'[j].created = journal[j].created
         /\ journal'[j].archive = journal[j].archive
         /\ journal'[j].made = journal[j].made
         /\ j # which => journal'[j] = journal[j]
  BY <1>4, EndApplyJournal
<1>6. OnlyMade'
  BY <1>2 DEF OnlyMade
<1>7. Past'
  <2>1. ASSUME NEW j \in Active
        PROVE \A f \in Files : journal'[j].written[f] \subseteq journal[j].made \cup {Torn}
    <3>1. CASE j = which
      BY <1>3, <3>1, EndApplyJournal DEF OnlyMade
    <3>2. CASE j # which
      BY <1>5, <3>2 DEF Past
    <3>3. QED
      BY <3>1, <3>2
  <2>2. QED
    BY <1>2, <1>4, <1>5, <2>1 DEF Past
<1>8. \A j \in Active : \A n : Archived(n, j)' <=> Archived(n, j)
  BY <1>5 DEF Archived
<1>9. Found'
  BY <1>2, <1>4, <1>5, <1>8 DEF Found
<1>10. Seen'
  <2>1. ASSUME NEW j \in Active, journal'[j].state = "done", NEW f \in Files \ newer'[j]
        PROVE book'[f] \subseteq journal'[j].made \cup {Torn}
    <3>1. CASE j = which
      BY <1>2, <1>3, <1>5, <3>1 DEF OnlyMade
    <3>2. CASE j # which
      <4>1. newer'[j] = newer[j]
        BY <1>4, <3>2 DEF EndApply, RekeyType
      <4>2. journal[j].state = "done"
        BY <1>5, <2>1, <3>2
      <4>3. QED
        BY <1>2, <1>5, <2>1, <4>1, <4>2 DEF Seen
    <3>3. QED
      BY <3>1, <3>2
  <2>2. QED
    BY <1>4, <2>1 DEF Seen
<1>11. Stack'
  <2>1. \A j \in Active : Touched(j)' = Touched(j)
    BY <1>5 DEF Touched
  <2>2. ASSUME NEW j \in Active, Latest(j)' PROVE AsFound(j, book, made)'
    <3>1. Latest(j)
      BY <1>4, <2>2 DEF Latest
    <3>2. QED
      BY <1>2, <1>5, <2>1, <3>1 DEF Stack, AsFound
  <2>3. ASSUME NEW j \in Active, NEW k \in Active, Above(k, j)'
        PROVE AsFound(j, journal[k].archive, journal[k].made)'
    <3>1. Above(k, j)
      BY <1>4, <2>3 DEF Above
    <3>2. QED
      BY <1>5, <2>1, <3>1 DEF Stack, AsFound
  <2>4. QED
    BY <1>4, <2>2, <2>3 DEF Stack
<1>12. Place1' /\ Place2'
  BY <1>2, <1>4 DEF Place1, Place2
<1>13. WorkKept'
  BY <1>2, <1>4, <1>8 DEF WorkKept, Archived
<1>14. QED
  BY <1>1, <1>6, <1>7, <1>9, <1>10, <1>11, <1>12, <1>13

\* A new apply stands on top, and the others stay as they are.
LEMMA StartJournal ==
  ASSUME RekeyInv, Start
  PROVE /\ stamps + 1 \in Stamps
        /\ \A j \in Active : j < stamps + 1 /\ journal'[j] = journal[j]
        /\ journal'[stamps + 1] = NewJournal
        /\ Active' = Active \cup {stamps + 1}
<1> USE DEF RekeyInv
<1>1. stamps + 1 \in Stamps /\ stamps \in Nat
  BY RekeySizes DEF Start, RekeyType
<1>2. /\ journal'[stamps + 1] = NewJournal
      /\ \A j \in Stamps : j # stamps + 1 => journal'[j] = journal[j]
  BY <1>1 DEF Start, RekeyType
<1>3. \A j \in 1..stamps : j \in Stamps /\ j < stamps + 1
  BY <1>1, RekeySizes
<1>4. 1..(stamps + 1) = 1..stamps \cup {stamps + 1}
  BY <1>1
<1>5. NewJournal.state # "back"
  BY DEF NewJournal
<1>6. Active' = Active \cup {stamps + 1}
  BY <1>1, <1>2, <1>3, <1>4, <1>5 DEF Active, Start
<1>7. QED
  BY <1>1, <1>2, <1>3, <1>6 DEF Active

LEMMA StartStep ==
  ASSUME RekeyInv, Start PROVE RekeyInv'
<1> DEFINE w == stamps + 1
<1> USE DEF RekeyInv
<1>1. RekeyType'
  BY RekeyTypeStep DEF RekeyNext, ApplyStep
<1>2. /\ made' = made /\ undoing' = undoing /\ forgone' = forgone /\ book' = book
      /\ newer' = newer /\ which' = w /\ todo' = Plan /\ step' = "move" /\ proper' = proper
      /\ step = "none"
  BY DEF Start, pastVars
<1>3. /\ w \in Stamps /\ Active' = Active \cup {w} /\ journal'[w] = NewJournal
      /\ \A j \in Active : j < w /\ journal'[j] = journal[j]
      /\ w \notin Active
  BY StartJournal, RekeySizes DEF RekeyType, Active
<1>4. \A f \in Files : book[f] \subseteq made
  BY DEF Start, OnlyMade
<1>5. /\ journal'[w].kept = {f \in Plan \cup Targets : book[f] # {}}
      /\ journal'[w].created = Created
      /\ journal'[w].archive = book /\ journal'[w].written = book
      /\ journal'[w].made = made /\ journal'[w].state = "open"
  BY <1>3 DEF NewJournal
<1>6. OnlyMade'
  BY <1>2 DEF OnlyMade
<1>7. Past'
  <2>1. \A j \in Active : journal[j].made \subseteq made
    BY DEF Past
  <2>2. \A j \in Active : ~(w < j)
    BY <1>3, ActiveStamps, RekeySizes
  <2>3. ASSUME NEW j \in Active'
        PROVE /\ journal'[j].made \subseteq made'
              /\ \A f \in Files :
                    /\ journal'[j].archive[f] \subseteq journal'[j].made
                    /\ journal'[j].written[f] \subseteq journal'[j].made \cup {Torn}
              /\ \A f \in journal'[j].created : journal'[j].archive[f] = {}
              /\ \A f \in journal'[j].kept : journal'[j].archive[f] # {}
              /\ \A i \in Active' : i < j => journal'[i].made \subseteq journal'[j].made
    <3>1. CASE j = w
      BY <1>2, <1>3, <1>4, <1>5, <2>1, <3>1 DEF Created
    <3>2. CASE j \in Active
      BY <1>2, <1>3, <2>2, <3>2 DEF Past
    <3>3. QED
      BY <1>3, <3>1, <3>2
  <2>4. QED
    BY <2>3 DEF Past
<1>8. undoing \subseteq Active /\ \A i \in undoing : \A n : Archived(n, i)' <=> Archived(n, i)
  BY <1>3 DEF Archived, Place1
<1>9. Found'
  <2>1. ASSUME NEW n \in made \ forgone
        PROVE \/ \E f \in Files : n \in journal'[w].archive[f]
              \/ \E i \in undoing : i < w /\ Archived(n, i)'
    BY <1>3, <1>5, <1>8 DEF WorkKept, Archived
  <2>2. ASSUME NEW j \in Active, NEW n \in journal[j].made \ forgone
        PROVE \/ \E f \in Files : n \in journal'[j].archive[f]
              \/ \E i \in undoing : i < j /\ Archived(n, i)'
    BY <1>3, <1>8, <2>2 DEF Found
  <2>3. QED
    BY <1>2, <1>3, <1>5, <2>1, <2>2 DEF Found
<1>10. Seen'
  BY <1>2, <1>3, <1>5 DEF Seen
<1>11. Stack'
  <2>1. \A j \in Active : Touched(j)' = Touched(j)
    BY <1>3 DEF Touched
  <2>2. ASSUME NEW j \in Active', Latest(j)' PROVE AsFound(j, book, made)'
    <3>1. j = w
      BY <1>3, <2>2, ActiveStamps, RekeySizes DEF Latest
    <3>2. QED
      BY <1>2, <1>5, <3>1 DEF AsFound
  <2>3. ASSUME NEW j \in Active', NEW k \in Active', Above(k, j)'
        PROVE AsFound(j, journal[k].archive, journal[k].made)'
    <3>1. j \in Active
      BY <1>3, <2>3, ActiveStamps, RekeySizes DEF Above
    <3>2. CASE k = w
      <4>1. Latest(j)
        BY <1>3, <2>3, <3>1, <3>2, ActiveStamps DEF Above, Latest
      <4>2. AsFound(j, book, made)
        BY <3>1, <4>1 DEF Stack
      <4>3. QED
        BY <1>3, <1>5, <2>1, <3>1, <3>2, <4>2 DEF AsFound
    <3>3. CASE k \in Active
      <4>1. Above(k, j)
        BY <1>3, <2>3, <3>1, <3>3 DEF Above
      <4>2. AsFound(j, journal[k].archive, journal[k].made)
        BY <3>1, <3>3, <4>1 DEF Stack
      <4>3. QED
        BY <1>3, <2>1, <3>1, <3>3, <4>2 DEF AsFound
    <3>4. QED
      BY <1>3, <3>2, <3>3
  <2>4. QED
    BY <2>2, <2>3 DEF Stack
<1>12. Place1'
  <2>1. \A j \in Active : j <= w
    BY <1>3, ActiveStamps, RekeySizes
  <2>2. Latest(which)'
    BY <1>2, <1>3, <2>1, RekeySizes DEF Latest
  <2>3. \A f \in Plan : {f, Place(f)} \subseteq Plan \cup Targets /\ f # Place(f)
                        /\ book[f] # {}
    BY DEF Plan, Targets
  <2>4. Touched(which)' = Plan \cup Targets
    BY <1>2, <1>5 DEF Touched, Created, Plan
  <2>5. \A f : Place(f)' = Place(f)
    BY <1>2 DEF Place
  <2>6. QED
    BY <1>2, <1>3, <1>5, <1>8, <2>2, <2>3, <2>4, <2>5 DEF Place1
<1>13. Place2'
  BY <1>2 DEF Place2
<1>14. WorkKept'
  BY <1>2, <1>8 DEF WorkKept, Archived
<1>15. QED
  BY <1>1, <1>6, <1>7, <1>9, <1>10, <1>11, <1>12, <1>13, <1>14

\* A rollback that is allowed to begin has nothing newer than its archive before it,
\* but for what is forgone.
LEMMA NothingNewer ==
  ASSUME RekeyInv, NEW j \in Active, Latest(j), journal[j].state = "done", ~ChangedSince(j)
  PROVE made \ forgone \subseteq journal[j].made
<1> USE DEF RekeyInv
<1> SUFFICES ASSUME NEW n \in made \ forgone, n \notin journal[j].made PROVE FALSE
  OBVIOUS
<1>1. n # Torn
  BY RekeyNames DEF RekeyType, Notes
<1>2. ASSUME NEW f \in Files, n \in book[f] PROVE FALSE
  <2>1. f \in newer[j]
    BY <1>1, <1>2 DEF Seen
  <2>2. CASE f \in journal[j].targets
    <3>1. book[f] = journal[j].written[f]
      BY <2>2 DEF ChangedSince
    <3>2. QED
      BY <1>1, <1>2, <3>1 DEF Past
  <2>3. CASE f \notin journal[j].targets
    BY <1>2, <2>1, <2>3 DEF ChangedSince
  <2>4. QED
    BY <2>2, <2>3
<1>3. ASSUME NEW i \in undoing, NEW f \in journal[i].kept, n \in journal[i].archive[f]
      PROVE FALSE
  <2>1. i \in Active /\ i \in Nat /\ j \in Nat /\ i <= j
    BY ActiveStamps DEF Place1, Latest
  <2>2. f \in Files
    BY <2>1, ActiveStamps DEF Journals
  <2>3. n \in journal[i].made
    BY <1>3, <2>1, <2>2 DEF Past
  <2>4. CASE i = j
    BY <2>3, <2>4
  <2>5. CASE i < j
    BY <2>1, <2>3, <2>5 DEF Past
  <2>6. QED
    BY <2>1, <2>4, <2>5
<1>4. QED
  BY <1>2, <1>3 DEF WorkKept

LEMMA StartBackStep ==
  ASSUME RekeyInv, NEW j \in Stamps, NEW force \in BOOLEAN, StartBack(j, force)
  PROVE RekeyInv'
<1> USE DEF RekeyInv
<1>1. RekeyType'
  BY RekeyTypeStep DEF RekeyNext, BackStep
<1>2. /\ Frame /\ made' = made /\ book' = book /\ newer' = newer /\ which' = j
      /\ undoing' = undoing \cup {j} /\ step' = "undo" /\ forgone \subseteq forgone'
      /\ todo' = journal[j].created /\ keep' = journal[j].kept
  BY DEF StartBack, Frame, journalVars
<1>3. OnlyMade' /\ Past' /\ Found' /\ Seen' /\ Stack' /\ WorkKept'
  BY <1>2, QuietStep
<1>4. Latest(j) /\ j \in Active
  BY DEF StartBack, Latest
<1>5. Place1'
  BY <1>2, <1>4, FrameActive, FrameLatest DEF Place1
<1>6. made \ forgone' \subseteq journal[j].made
  <2>1. CASE force \/ journal[j].state = "open"
    BY <2>1 DEF StartBack
  <2>2. CASE ~force /\ journal[j].state # "open"
    <3>1. journal[j].state = "done"
      BY <1>4, <2>2 DEF RekeyType, Journals, Active
    <3>2. ~ChangedSince(j) /\ forgone' = forgone
      BY <2>2 DEF StartBack
    <3>3. QED
      BY <1>4, <3>1, <3>2, NothingNewer
  <2>3. QED
    BY <2>1, <2>2
<1>7. Place2'
  BY <1>2, <1>6 DEF Place2, Frame
<1>8. QED
  BY <1>1, <1>3, <1>5, <1>7

\* Writing what was touched by the apply that is being taken back loses nothing.
LEMMA BackWrites ==
  ASSUME RekeyInv, Frame, step = "undo", made' = made, undoing' = undoing,
         forgone' = forgone, OnlyMade',
         \A g \in Files \ Touched(which) : book'[g] = book[g],
         \A j \in Active : newer[j] \subseteq newer'[j],
         \A g \in Files : \/ book'[g] \subseteq book[g]
                          \/ \A j \in Active : g \in newer'[j]
  PROVE Past' /\ Found' /\ Seen' /\ Stack' /\ WorkKept' /\ undoing' \subseteq Active'
<1> USE DEF RekeyInv
<1>1. Latest(which) /\ which \in undoing /\ made \ forgone \subseteq journal[which].made
  BY DEF Place1, Place2
<1>2. Past' /\ Found'
  BY PastFrame
<1>3. Seen'
  BY SeenFrame
<1>4. Stack'
  BY <1>1, StackFrame
<1>5. WorkKept'
  <2>1. ASSUME NEW n \in made \ forgone
        PROVE \/ \E g \in Files : n \in book'[g]
              \/ \E j \in undoing : Archived(n, j)
    BY <1>1, StillThere
  <2>2. \A j : \A n : Archived(n, j)' <=> Archived(n, j)
    BY FrameLatest
  <2>3. \A n \in made' \ forgone' : \/ \E g \in Files : n \in book'[g]
                                    \/ \E j \in undoing' : Archived(n, j)'
    BY <2>1, <2>2
  <2>4. QED
    BY <2>3 DEF WorkKept, Archived
<1>6. undoing' \subseteq Active'
  BY FrameActive DEF Place1
<1>7. QED
  BY <1>2, <1>3, <1>4, <1>5, <1>6

LEMMA RemoveStep ==
  ASSUME RekeyInv, NEW f \in Files, Remove(f) PROVE RekeyInv'
<1> USE DEF RekeyInv
<1>1. RekeyType'
  BY RekeyTypeStep DEF RekeyNext, BackStep
<1>2. /\ Frame /\ made' = made /\ undoing' = undoing /\ forgone' = forgone
      /\ newer' = newer /\ which' = which /\ step = "undo" /\ step' = "undo"
      /\ keep' = keep /\ todo' = todo \ {f} /\ f \in todo
  BY DEF Remove, Frame, pastVars, journalVars
<1>3. /\ \A g \in Files : g # f => book'[g] = book[g]
      /\ book'[f] = {}
  BY DEF Remove, RekeyType, Books
<1>4. f \in Touched(which)
  BY <1>2 DEF Place2, Touched
<1>5. OnlyMade'
  BY <1>2, <1>3 DEF OnlyMade
<1>6. \A g \in Files : book'[g] \subseteq book[g]
  BY <1>3
<1>7. Past' /\ Found' /\ Seen' /\ Stack' /\ WorkKept' /\ undoing' \subseteq Active'
  BY <1>2, <1>3, <1>4, <1>5, <1>6, BackWrites
<1>8. Place1'
  BY <1>2, <1>7, FrameLatest DEF Place1
<1>9. Place2'
  <2>1. which \in Stamps /\ journal[which].created \subseteq Files
        /\ journal[which].kept \subseteq Files
    BY <1>2 DEF RekeyType, Journals
  <2>2. todo # {} /\ keep = journal[which].kept
    BY <1>2 DEF Place2
  <2>3. \A g \in journal[which].created \ todo' : book'[g] = {}
    BY <1>2, <1>3, <2>1 DEF Place2
  <2>4. QED
    BY <1>2, <2>2, <2>3 DEF Place2, Frame
<1>10. QED
  BY <1>1, <1>5, <1>7, <1>8, <1>9

LEMMA RestoreStep ==
  ASSUME RekeyInv, NEW f \in Files, Restore(f) PROVE RekeyInv'
<1> USE DEF RekeyInv
<1>1. RekeyType'
  BY RekeyTypeStep DEF RekeyNext, BackStep
<1>2. /\ Frame /\ made' = made /\ undoing' = undoing /\ forgone' = forgone
      /\ which' = which /\ step = "undo" /\ step' = "undo"
      /\ keep' = keep \ {f} /\ todo = {} /\ todo' = {} /\ f \in keep
  BY DEF Restore, Frame, pastVars
<1>3. /\ \A g \in Files : g # f => book'[g] = book[g]
      /\ book'[f] = journal[which].archive[f]
  BY DEF Restore, RekeyType, Books
<1>4. /\ which \in Active /\ f \in journal[which].kept /\ f \notin journal[which].created
      /\ f \in Touched(which) /\ journal[which].kept \subseteq Files
      /\ journal[which].created \subseteq Files
  BY <1>2, ActiveStamps DEF Place1, Place2, Touched, Past, Latest, Journals
<1>5. OnlyMade'
  BY <1>2, <1>3, <1>4 DEF OnlyMade, Past
<1>6. \A j \in Active : newer[j] \subseteq newer'[j] /\ f \in newer'[j]
  BY ActiveStamps DEF Restore, Wrote
<1>7. \A g \in Files : \/ book'[g] \subseteq book[g]
                       \/ \A j \in Active : g \in newer'[j]
  BY <1>3, <1>6
<1>8. Past' /\ Found' /\ Seen' /\ Stack' /\ WorkKept' /\ undoing' \subseteq Active'
  BY <1>2, <1>3, <1>4, <1>5, <1>6, <1>7, BackWrites
<1>9. Place1'
  BY <1>2, <1>8, FrameLatest DEF Place1
<1>10. Place2'
  <2>1. \A g \in journal[which].created : book'[g] = {}
    BY <1>2, <1>3, <1>4 DEF Place2
  <2>2. \A g \in journal[which].kept \ keep' : book'[g] = journal[which].archive[g]
    BY <1>2, <1>3, <1>4 DEF Place2
  <2>3. QED
    BY <1>2, <2>1, <2>2 DEF Place2, Frame
<1>11. QED
  BY <1>1, <1>5, <1>8, <1>9, <1>10

LEMMA RestoreMarkerStep ==
  ASSUME RekeyInv, RestoreMarker PROVE RekeyInv'
<1> USE DEF RekeyInv
<1>1. RekeyType'
  BY RekeyTypeStep DEF RekeyNext, BackStep
<1>2. /\ Frame /\ made' = made /\ undoing' = undoing /\ forgone' = forgone
      /\ book' = book /\ newer' = newer /\ which' = which /\ step = "undo"
      /\ step' = "close" /\ todo = {} /\ keep = {} /\ marker' = journal[which].marker
  BY DEF RestoreMarker, Frame, pastVars, journalVars
<1>3. OnlyMade' /\ Past' /\ Found' /\ Seen' /\ Stack' /\ WorkKept'
  BY <1>2, QuietStep
<1>4. Place1'
  BY <1>2, FrameActive, FrameLatest DEF Place1
<1>5. Place2'
  BY <1>2 DEF Place2, Frame
<1>6. QED
  BY <1>1, <1>3, <1>4, <1>5

\* The apply taken back stood on top; nothing else changes in the journals.
LEMMA EndBackJournal ==
  ASSUME RekeyInv, EndBack
  PROVE /\ which \in Active /\ Active' = Active \ {which}
        /\ \A j \in Active \ {which} : journal'[j] = journal[j]
        /\ \A j \in Active : j \in Nat /\ j <= which
<1> USE DEF RekeyInv
<1>1. which \in Active /\ which \in Stamps /\ \A j \in Active : j \in Nat /\ j <= which
  BY ActiveStamps DEF EndBack, Place1, Latest
<1>2. journal[which] \in Journals
  BY <1>1 DEF RekeyType
<1>3. journal'[which].state = "back"
  BY <1>1, <1>2 DEF EndBack, RekeyType, Journals
<1>4. \A j \in Stamps : j # which => journal'[j] = journal[j]
  BY <1>1 DEF EndBack, RekeyType
<1>5. stamps' = stamps /\ 1..stamps \subseteq Stamps
  BY RekeySizes DEF EndBack, RekeyType
<1>6. QED
  BY <1>1, <1>3, <1>4, <1>5, ActiveStamps DEF Active

LEMMA EndBackStep ==
  ASSUME RekeyInv, EndBack PROVE RekeyInv'
<1> USE DEF RekeyInv
<1>1. RekeyType'
  BY RekeyTypeStep DEF RekeyNext, BackStep
<1>2. /\ made' = made /\ forgone' = forgone /\ book' = book /\ newer' = newer
      /\ step = "close" /\ step' = "none" /\ undoing' = undoing \ {which}
  BY DEF EndBack
<1>3. /\ which \in Active /\ Active' = Active \ {which}
      /\ \A j \in Active' : j \in Active /\ j # which /\ journal'[j] = journal[j]
      /\ \A j \in Active : j \in Nat /\ j <= which
  BY EndBackJournal
<1>4. /\ made \ forgone \subseteq journal[which].made
      /\ \A f \in journal[which].created : book[f] = {}
      /\ \A f \in journal[which].kept : book[f] = journal[which].archive[f]
      /\ undoing \subseteq Active
  BY <1>2 DEF Place1, Place2
<1>5. OnlyMade'
  BY <1>2 DEF OnlyMade
<1>6. Past'
  BY <1>2, <1>3 DEF Past
<1>7. \A i \in undoing' : i \in Active' /\ \A n : Archived(n, i)' <=> Archived(n, i)
  BY <1>2, <1>3, <1>4 DEF Archived
<1>8. Found'
  <2>1. ASSUME NEW j \in Active', NEW n \in journal[j].made \ forgone
        PROVE \/ \E f \in Files : n \in journal[j].archive[f]
              \/ \E i \in undoing' : i < j /\ Archived(n, i)'
    <3>1. \/ \E f \in Files : n \in journal[j].archive[f]
          \/ \E i \in undoing : i < j /\ Archived(n, i)
      BY <1>3, <2>1 DEF Found
    <3>2. \A i \in undoing : i < j => i # which
      BY <1>3, <1>4
    <3>3. QED
      BY <1>2, <1>7, <3>1, <3>2
  <2>2. QED
    BY <1>2, <1>3, <2>1 DEF Found
<1>9. Seen'
  BY <1>2, <1>3 DEF Seen
<1>10. AsFound(which, book, made)
  BY <1>3 DEF Stack, Latest
<1>11. Stack'
  <2>1. \A j \in Active' : Touched(j)' = Touched(j)
    BY <1>3 DEF Touched
  <2>2. ASSUME NEW j \in Active', Latest(j)' PROVE AsFound(j, book, made)'
    <3>1. j < which /\ j \in Active
      BY <1>3
    <3>2. Above(which, j)
      <4>1. \A i \in Active : i <= j \/ which <= i
        BY <1>3, <2>2 DEF Latest
      <4>2. QED
        BY <1>3, <3>1, <4>1 DEF Above
    <3>3. AsFound(j, journal[which].archive, journal[which].made)
      BY <1>3, <3>1, <3>2 DEF Stack
    <3>4. journal[j].made \subseteq journal[which].made /\ journal[which].made \subseteq made
      BY <1>3, <3>1 DEF Past
    <3>5. ASSUME NEW f \in Files \ Touched(j)
          PROVE /\ journal[j].archive[f] \subseteq book[f]
                /\ book[f] \subseteq journal[j].archive[f] \cup (made \ journal[j].made)
      <4>1. /\ journal[j].archive[f] \subseteq journal[which].archive[f]
            /\ journal[which].archive[f] \subseteq
                 journal[j].archive[f] \cup (journal[which].made \ journal[j].made)
        BY <3>3, <3>5 DEF AsFound
      <4>2. CASE f \in journal[which].kept
        BY <1>4, <3>4, <4>1, <4>2
      <4>3. CASE f \in journal[which].created
        <5>1. book[f] = {} /\ journal[which].archive[f] = {}
          BY <1>3, <1>4, <4>3 DEF Past
        <5>2. QED
          BY <4>1, <5>1
      <4>4. CASE f \notin Touched(which)
        <5>1. /\ journal[which].archive[f] \subseteq book[f]
              /\ book[f] \subseteq journal[which].archive[f] \cup (made \ journal[which].made)
          BY <1>10, <4>4 DEF AsFound
        <5>2. QED
          BY <3>4, <4>1, <5>1
      <4>5. QED
        BY <4>2, <4>3, <4>4 DEF Touched
    <3>6. QED
      BY <1>2, <1>3, <2>1, <3>5 DEF AsFound
  <2>3. ASSUME NEW j \in Active', NEW k \in Active', Above(k, j)'
        PROVE AsFound(j, journal[k].archive, journal[k].made)'
    <3>1. Above(k, j)
      <4>1. j < which /\ k < which /\ j \in Active /\ k \in Active /\ j < k
        BY <1>3, <2>3 DEF Above
      <4>2. \A i \in Active : i <= j \/ k <= i
        BY <1>3, <2>3, <4>1 DEF Above
      <4>3. QED
        BY <4>1, <4>2 DEF Above
    <3>2. AsFound(j, journal[k].archive, journal[k].made)
      BY <1>3, <3>1 DEF Stack
    <3>3. QED
      BY <1>3, <2>1, <3>2 DEF AsFound
  <2>4. QED
    BY <2>2, <2>3 DEF Stack
<1>12. Place1' /\ Place2'
  BY <1>2, <1>7 DEF Place1, Place2
<1>13. WorkKept'
  <2>1. ASSUME NEW n \in made \ forgone
        PROVE \/ \E f \in Files : n \in book[f]
              \/ \E i \in undoing' : Archived(n, i)'
    <3>1. \/ \E f \in Files : n \in journal[which].archive[f]
          \/ \E i \in undoing : i < which /\ Archived(n, i)
      BY <1>3, <1>4, <2>1 DEF Found
    <3>2. CASE \E i \in undoing : i < which /\ Archived(n, i)
      BY <1>2, <1>3, <1>4, <1>7, <3>2
    <3>3. ASSUME NEW f \in Files, n \in journal[which].archive[f] PROVE n \in book[f]
      <4>1. CASE f \in journal[which].kept
        BY <1>4, <3>3, <4>1
      <4>2. CASE f \in journal[which].created
        BY <1>3, <3>3, <4>2 DEF Past
      <4>3. CASE f \notin Touched(which)
        BY <1>10, <3>3, <4>3 DEF AsFound
      <4>4. QED
        BY <4>1, <4>2, <4>3 DEF Touched
    <3>4. QED
      BY <3>1, <3>2, <3>3
  <2>2. QED
    BY <1>2, <2>1 DEF WorkKept, Archived
<1>14. QED
  BY <1>1, <1>5, <1>6, <1>8, <1>9, <1>11, <1>12, <1>13

LEMMA KillStep ==
  ASSUME RekeyInv, KillRekey PROVE RekeyInv'
<1> USE DEF RekeyInv
<1>1. RekeyType'
  BY RekeyTypeStep DEF RekeyNext
<1>2. /\ Frame /\ made' = made /\ undoing' = undoing /\ forgone' = forgone /\ step' = "none"
  BY DEF KillRekey, Frame, pastVars
<1>3. OnlyMade' /\ Past' /\ Found' /\ Seen' /\ Stack' /\ WorkKept' /\ undoing' \subseteq Active'
  <2>1. CASE book' = book /\ newer' = newer
    BY <1>2, <2>1, QuietStep, FrameActive DEF Place1
  <2>2. ASSUME step = "undo", NEW f \in keep, book' = [book EXCEPT ![f] = {Torn}], Wrote(f)
        PROVE OnlyMade' /\ Past' /\ Found' /\ Seen' /\ Stack' /\ WorkKept'
              /\ undoing' \subseteq Active'
    <3>1. f \in Files /\ f \in Touched(which)
      BY <2>2 DEF Place2, Touched, RekeyType
    <3>2. /\ \A g \in Files : g # f => book'[g] = book[g]
          /\ book'[f] = {Torn}
      BY <2>2, <3>1 DEF RekeyType, Books
    <3>3. OnlyMade'
      BY <1>2, <3>2 DEF OnlyMade
    <3>4. \A j \in Active : newer[j] \subseteq newer'[j] /\ f \in newer'[j]
      BY <2>2, ActiveStamps DEF Wrote
    <3>5. \A g \in Files : \/ book'[g] \subseteq book[g]
                           \/ \A j \in Active : g \in newer'[j]
      BY <3>2, <3>4
    <3>6. QED
      BY <1>2, <2>2, <3>1, <3>2, <3>3, <3>4, <3>5, BackWrites
  <2>3. QED
    BY <2>1, <2>2 DEF KillRekey
<1>4. Place1' /\ Place2'
  BY <1>2, <1>3 DEF Place1, Place2
<1>5. QED
  BY <1>1, <1>3, <1>4

LEMMA AnnotateStep ==
  ASSUME RekeyInv, NEW c \in Cases, NEW n \in Later, Annotate(c, n) PROVE RekeyInv'
<1> DEFINE f == <<c, proper[c]>>
<1> USE DEF RekeyInv
<1>1. RekeyType'
  BY RekeyTypeStep DEF RekeyNext
<1>2. /\ Frame /\ made' = made \cup {n} /\ n \notin made /\ undoing' = undoing
      /\ forgone' = forgone /\ step = "none" /\ step' = "none"
  BY DEF Annotate, Frame, commandVars
<1>3. f \in Files
  BY DEF RekeyType, Files
<1>4. /\ \A g \in Files : g # f => book'[g] = book[g]
      /\ book'[f] = book[f] \cup {n}
  BY <1>3 DEF Annotate, RekeyType, Books
<1>5. Active' = Active /\ \A j : \A m : Archived(m, j)' <=> Archived(m, j)
  BY <1>2, FrameActive, FrameLatest
<1>6. OnlyMade'
  BY <1>2, <1>4 DEF OnlyMade
<1>7. Past'
  BY <1>2, <1>5 DEF Past, Frame
<1>8. Found'
  BY <1>2, <1>5 DEF Found, Frame
<1>9. Seen'
  <2>1. \A j \in Active : newer[j] \subseteq newer'[j] /\ f \in newer'[j]
    BY ActiveStamps DEF Annotate, Wrote
  <2>2. \A g \in Files : \/ book'[g] \subseteq book[g]
                         \/ \A j \in Active : g \in newer'[j]
    BY <1>4, <2>1
  <2>3. QED
    BY <1>2, <2>1, <2>2, SeenFrame
<1>10. Stack'
  <2>1. ASSUME NEW j \in Active, Latest(j) PROVE AsFound(j, book, made)'
    <3>1. AsFound(j, book, made) /\ n \notin journal[j].made
      BY <1>2, <2>1 DEF Stack, Past
    <3>2. QED
      BY <1>2, <1>4, <3>1 DEF AsFound, Frame, Touched
  <2>2. ASSUME NEW j \in Active, NEW k \in Active, Above(k, j)
        PROVE AsFound(j, journal[k].archive, journal[k].made)'
    BY <1>2, <2>2 DEF Stack, AsFound, Frame, Touched
  <2>3. QED
    BY <1>2, <1>5, <2>1, <2>2, FrameLatest DEF Stack, Above
<1>11. Place1' /\ Place2'
  BY <1>2, <1>5 DEF Place1, Place2
<1>12. WorkKept'
  <2>1. n \in book'[f]
    BY <1>4
  <2>2. \A m \in made \ forgone : \/ \E g \in Files : m \in book'[g]
                                  \/ \E j \in undoing : Archived(m, j)
    BY <1>4 DEF WorkKept, Archived
  <2>3. QED
    BY <1>2, <1>3, <1>5, <2>1, <2>2 DEF WorkKept, Archived
<1>13. QED
  BY <1>1, <1>6, <1>7, <1>8, <1>9, <1>10, <1>11, <1>12

LEMMA CorrectStep ==
  ASSUME RekeyInv, NEW c \in Cases, Correct(c) PROVE RekeyInv'
<1> USE DEF RekeyInv
<1>1. RekeyType'
  BY RekeyTypeStep DEF RekeyNext
<1>2. /\ Frame /\ made' = made /\ undoing' = undoing /\ forgone' = forgone /\ book' = book
      /\ newer' = newer /\ step = "none" /\ step' = "none"
  BY DEF Correct, Frame, journalVars, commandVars, pastVars
<1>3. OnlyMade' /\ Past' /\ Found' /\ Seen' /\ Stack' /\ WorkKept'
  BY <1>2, QuietStep
<1>4. Place1' /\ Place2'
  BY <1>2, FrameActive DEF Place1, Place2
<1>5. QED
  BY <1>1, <1>3, <1>4

LEMMA IdleStep ==
  ASSUME RekeyInv, UNCHANGED rekeyVars PROVE RekeyInv'
<1> USE DEF RekeyInv, rekeyVars, journalVars, commandVars, pastVars
<1>1. RekeyType'
  BY RekeyTypeStep
<1>2. Frame /\ Active' = Active
  BY FrameActive DEF Frame
<1>3. OnlyMade' /\ Past' /\ Found' /\ Seen' /\ Stack' /\ WorkKept'
  BY <1>2, QuietStep
<1>4. Place1' /\ Place2'
  BY <1>2, FrameLatest DEF Place1, Place2, Place, Touched
<1>5. QED
  BY <1>1, <1>3, <1>4

LEMMA RekeyInvStep ==
  ASSUME RekeyInv, [RekeyNext]_rekeyVars PROVE RekeyInv'
BY StartStep, MoveInStep, MoveOutStep, SetMarkerStep, EndApplyStep, ApplyFailsStep,
   StartBackStep, RemoveStep, RestoreStep, RestoreMarkerStep, EndBackStep, KillStep,
   AnnotateStep, CorrectStep, IdleStep DEF RekeyNext, ApplyStep, BackStep

-----------------------------------------------------------------------------
(* The theorems.                                                           *)

\* No note is lost by moving files to new names or by taking that back, whatever is
\* killed on the way: it is in a file or in an archive about to be unpacked.
THEOREM NotesAreKept == RekeySpec => []WorkKept
<1>1. RekeyInit => RekeyInv
  BY RekeyInvInit
<1>2. RekeyInv /\ [RekeyNext]_rekeyVars => RekeyInv'
  BY RekeyInvStep
<1>3. RekeyInv => WorkKept
  BY DEF RekeyInv
<1>4. QED
  BY <1>1, <1>2, <1>3, PTL DEF RekeySpec

\* Only the end of a rollback turns the journal of an apply that stands.
LEMMA OnlyEndBack ==
  ASSUME RekeyInv, [RekeyNext]_rekeyVars,
         NEW j \in Active, journal'[j].state = "back"
  PROVE EndBack /\ j = which
<1> USE DEF RekeyInv
<1>1. j \in Stamps /\ journal[j].state # "back"
  BY ActiveStamps DEF Active
<1>2. ~(journal' = journal)
  BY <1>1
<1>3. ~Start
  BY <1>1, StartJournal
<1>4. ~EndApply
  <2> SUFFICES ASSUME EndApply PROVE FALSE
    OBVIOUS
  <2>1. Active' = Active /\ stamps' = stamps
    BY EndApplyJournal DEF EndApply
  <2>2. QED
    BY <2>1 DEF Active
<1>5. EndBack
  BY <1>2, <1>3, <1>4 DEF RekeyNext, ApplyStep, BackStep, MoveOut, SetMarker, ApplyFails,
     MoveIn, StartBack, Remove, Restore, RestoreMarker, KillRekey, Annotate, Correct,
     journalVars, rekeyVars
<1>6. j = which
  BY <1>1, <1>5 DEF EndBack, RekeyType
<1>7. QED
  BY <1>5, <1>6

\* A rollback that has come to its end has brought back, exactly, the workspace its
\* apply found, if nobody wrote anything since.
THEOREM RollbackRestores == RekeySpec => Restores
<1> DEFINE Back ==
      \A j \in Stamps : /\ j \in Active /\ journal'[j].state = "back"
                        /\ made = journal[j].made
                        => book' = journal[j].archive /\ marker' = journal[j].marker
<1>1. RekeyInit => RekeyInv
  BY RekeyInvInit
<1>2. RekeyInv /\ [RekeyNext]_rekeyVars => RekeyInv'
  BY RekeyInvStep
<1>3. ASSUME RekeyInv, [RekeyNext]_rekeyVars PROVE [Back]_rekeyVars
  <2> SUFFICES ASSUME NEW j \in Active, journal'[j].state = "back", made = journal[j].made
               PROVE book' = journal[j].archive /\ marker' = journal[j].marker
    OBVIOUS
  <2> USE <1>3 DEF RekeyInv
  <2>1. EndBack /\ j = which
    BY OnlyEndBack
  <2>2. /\ \A f \in journal[j].created : book[f] = {}
        /\ \A f \in journal[j].kept : book[f] = journal[j].archive[f]
        /\ marker = journal[j].marker /\ book' = book /\ marker' = marker
    BY <2>1 DEF Place2, EndBack
  <2>3. AsFound(j, book, made)
    BY <2>1 DEF Stack, Place1, EndBack
  <2>4. \A f \in Files : book[f] = journal[j].archive[f]
    <3>1. \A f \in Files \ Touched(j) : book[f] = journal[j].archive[f]
      BY <2>3 DEF AsFound
    <3>2. \A f \in journal[j].created : book[f] = journal[j].archive[f]
      BY <2>2 DEF Past
    <3>3. QED
      BY <2>2, <3>1, <3>2 DEF Touched
  <2>5. book \in Books /\ journal[j].archive \in Books
    BY ActiveStamps DEF RekeyType, Journals
  <2>6. book = journal[j].archive
    BY <2>4, <2>5 DEF Books
  <2>7. QED
    BY <2>2, <2>6
<1>4. QED
  BY <1>1, <1>2, <1>3, PTL DEF RekeySpec, Restores

=============================================================================
