-------------------------------- MODULE Rekey --------------------------------
(***************************************************************************)
(* The change of case keys (src/nyshporka/cases/rekey.py).  A case's notes *)
(* are in a file named by its key.  When the key changes (a new form of    *)
(* keys, or an inventory number written down later), `cases rekey --apply` *)
(* moves each file to its new name, merging it with one already there; an  *)
(* archive and a journal written before the first move let `--rollback`    *)
(* bring everything back.  One person runs these commands; the notes are   *)
(* written by others while neither runs.                                   *)
(***************************************************************************)
EXTENDS Naturals, FiniteSets

CONSTANTS
  Cases,      \* cases; each begins with one note of the same name
  Later,      \* notes people make later
  LastName,   \* bound: a case's key changes from 0 to at most this
  MaxMoves,   \* bound: applies
  MaxKills,   \* bound: processes killed
  Torn        \* what is in a file whose writing was cut off

ASSUME RekeyNames == Cases \cap Later = {} /\ Torn \notin Cases \cup Later
ASSUME RekeySizes == /\ LastName \in Nat \ {0}
                     /\ MaxMoves \in Nat /\ MaxKills \in Nat

NoFile == <<>>
Notes  == Cases \cup Later
Names  == 0..LastName
Files  == Cases \X Names
Stamps == 1..MaxMoves

VARIABLES
  book,     \* file: the notes in it; {} when there is no such file
  proper,   \* case: the name its key gives now
  marker,   \* keys in the marker of the workspace: FALSE before version 2
  journal,  \* apply: its journal
  newer,    \* apply: files written since it came to its end
  stamps,   \* applies begun
  step,     \* what the running command does, "none" when none runs
  which,    \* the apply it carries out or takes back
  todo,     \* files still to be moved, or to be removed
  keep,     \* files still to be restored
  moved,    \* the file being moved
  kills,
  broken,   \* what was cut off: without the marker no command runs any more, with an
            \* unreadable journal no rollback does
  made,     \* auxiliary: the notes made so far
  undoing,  \* auxiliary: applies whose rollback began and has not ended
  forgone   \* auxiliary: notes made after an apply that was taken back by
            \* --force, or that had not come to its end

commandVars == <<step, which, todo, keep, moved>>
journalVars == <<journal, stamps, newer>>
pastVars    == <<made, undoing, forgone>>
rekeyVars   == <<book, proper, marker, journalVars, commandVars, kills, broken,
                 pastVars>>

\* The names of the files of a case.
Place(f) == <<f[1], proper[f[1]]>>

-----------------------------------------------------------------------------
(* The plan and the journal.                                               *)

\* plan: the files that are not under their case's name.
Plan == {f \in Files : book[f] # {} /\ f # Place(f)}

Targets == {Place(f) : f \in Plan}

\* Mutation of Created: what was created is noted when it is there.
Created_later == {}

\* What the moves will create, known before the first of them.
Created == {f \in Targets : book[f] = {}}

\* The journal of an apply: "open" until it has come to its end, then "done"; "back"
\* once taken back.  The archive holds the files of kept (the others are here for
\* the properties, as are the notes made so far).
NewJournal ==
  [state |-> "open", kept |-> {f \in Plan \cup Targets : book[f] # {}}, created |-> Created,
   archive |-> book, marker |-> marker, targets |-> Targets, written |-> book,
   made |-> made]

Active == {j \in 1..stamps : journal[j].state # "back"}

Latest(j) == j \in Active /\ \A k \in Active : k <= j

\* The file now has a later time than every journal.
Wrote(f) == newer' = [j \in Stamps |-> newer[j] \cup {f}]

-----------------------------------------------------------------------------
(* apply                                                                   *)

\* The plan, the archive, the journal.  A file that cannot be read stops it.
Start ==
  /\ step = "none" /\ "marker" \notin broken /\ stamps < MaxMoves
  /\ \A f \in Files : Torn \notin book[f]
  /\ Plan # {} \/ ~marker
  /\ stamps' = stamps + 1
  /\ journal' = [journal EXCEPT ![stamps + 1] = NewJournal]
  /\ which' = stamps + 1 /\ todo' = Plan
  /\ step' = "move"
  /\ UNCHANGED <<book, proper, marker, newer, keep, moved, kills, broken, pastVars>>

\* _apply_pages: the file under its new name, merged with what is there, ...
MoveIn(f) ==
  /\ step = "move" /\ f \in todo
  /\ book' = [book EXCEPT ![Place(f)] = @ \cup book[f]]
  /\ todo' = todo \ {f} /\ moved' = f
  /\ step' = "unlink"
  /\ Wrote(Place(f))
  /\ UNCHANGED <<proper, marker, journal, stamps, which, keep, kills, broken, pastVars>>

\* ... then the old one removed.
MoveOut ==
  /\ step = "unlink"
  /\ book' = [book EXCEPT ![moved] = {}]
  /\ step' = "move" /\ moved' = NoFile
  /\ UNCHANGED <<proper, marker, journalVars, which, todo, keep, kills, broken, pastVars>>

\* set_keys_version, the last write that an exception would take back.
SetMarker ==
  /\ step = "move" /\ todo = {}
  /\ marker' = TRUE
  /\ step' = "finish"
  /\ UNCHANGED <<book, proper, journalVars, which, todo, keep, moved, kills, broken,
                 pastVars>>

\* The registry is built, the journal closed with the sums of what was written.
EndApply ==
  /\ step = "finish"
  /\ journal' = [journal EXCEPT ![which].state = "done", ![which].written = book]
  /\ newer' = [newer EXCEPT ![which] = {}]
  /\ step' = "none"
  /\ UNCHANGED <<book, proper, marker, stamps, which, todo, keep, moved, kills, broken,
                 pastVars>>

\* An exception: before the marker is set everything is taken back at once, if the
\* journals can be read; after it the command ends with its journal open.
ApplyFails ==
  \/ /\ step \in {"move", "unlink"} /\ broken = {}
     /\ step' = "undo"
     /\ todo' = journal[which].created /\ keep' = journal[which].kept
     /\ undoing' = undoing \cup {which}
     /\ moved' = NoFile
     /\ UNCHANGED <<book, proper, marker, journalVars, which, kills, broken, made,
                    forgone>>
  \/ /\ step = "finish" \/ (step \in {"move", "unlink"} /\ broken # {})
     /\ step' = "none" /\ todo' = {} /\ moved' = NoFile
     /\ UNCHANGED <<book, proper, marker, journalVars, which, keep, kills, broken,
                    pastVars>>

-----------------------------------------------------------------------------
(* rollback                                                                *)

\* Mutation of ChangedSince: what the apply wrote itself is not looked at.
ChangedSince_others(j) ==
  /\ journal[j].state = "done"
  /\ \E f \in newer[j] \ journal[j].targets : book[f] # {}

\* _changed_since: a page was written after the apply (its sum differs, or a file the
\* apply did not write is newer).  Of an apply that has not ended nothing is known.
ChangedSince(j) ==
  /\ journal[j].state = "done"
  /\ \/ \E f \in journal[j].targets : book[f] # journal[j].written[f]
     \/ \E f \in newer[j] \ journal[j].targets : book[f] # {}

\* Only the latest apply that stands, and not over somebody's work unless forced to.
StartBack(j, force) ==
  /\ step = "none" /\ broken = {}
  /\ Latest(j)
  /\ force \/ ~ChangedSince(j)
  /\ which' = j /\ todo' = journal[j].created /\ keep' = journal[j].kept
  /\ step' = "undo"
  /\ forgone' = IF force \/ journal[j].state = "open"
                THEN forgone \cup (made \ journal[j].made) ELSE forgone
  /\ undoing' = undoing \cup {j}
  /\ UNCHANGED <<book, proper, marker, journalVars, moved, kills, broken, made>>

\* First what the apply created goes, ...
Remove(f) ==
  /\ step = "undo" /\ f \in todo
  /\ book' = [book EXCEPT ![f] = {}]
  /\ todo' = todo \ {f}
  /\ UNCHANGED <<proper, marker, journalVars, step, which, keep, moved, kills, broken,
                 pastVars>>

\* ... then the archive is unpacked, ...
Restore(f) ==
  /\ step = "undo" /\ todo = {} /\ f \in keep
  /\ book' = [book EXCEPT ![f] = journal[which].archive[f]]
  /\ keep' = keep \ {f}
  /\ Wrote(f)
  /\ UNCHANGED <<proper, marker, journal, stamps, step, which, todo, moved, kills,
                 broken, pastVars>>

\* ... the marker after the pages, ...
RestoreMarker ==
  /\ step = "undo" /\ todo = {} /\ keep = {}
  /\ marker' = journal[which].marker
  /\ step' = "close"
  /\ UNCHANGED <<book, proper, journalVars, which, todo, keep, moved, kills, broken,
                 pastVars>>

\* ... and the journal says that it is done.
EndBack ==
  /\ step = "close"
  /\ journal' = [journal EXCEPT ![which].state = "back"]
  /\ step' = "none"
  /\ undoing' = undoing \ {which}
  /\ UNCHANGED <<book, proper, marker, stamps, newer, which, todo, keep, moved, kills,
                 broken, made, forgone>>

-----------------------------------------------------------------------------
(* Kills, people, the specification.                                       *)

\* The marker while it is unpacked, the journal while a rollback closes it.
InPlace ==
  {w \in {"marker", "journal"} :
     \/ w = "marker"  /\ step = "undo" /\ todo = {} /\ keep = {}
     \/ w = "journal" /\ step = "close"}

\* The command is killed.  The restored files, the marker among them, and the closed
\* journal are written in place: what was being written may be cut off.
KillRekey ==
  /\ step # "none" /\ kills < MaxKills
  /\ kills' = kills + 1
  /\ step' = "none" /\ todo' = {} /\ keep' = {} /\ moved' = NoFile
  /\ \/ UNCHANGED <<book, newer, broken>>
     \/ /\ step = "undo" /\ todo = {}
        /\ \E f \in keep : book' = [book EXCEPT ![f] = {Torn}] /\ Wrote(f)
        /\ UNCHANGED broken
     \/ /\ \E w \in InPlace : broken' = {w}
        /\ UNCHANGED <<book, newer>>
  /\ UNCHANGED <<proper, marker, journal, stamps, which, pastVars>>

\* Somebody notes something about a case: refused before the keys are new
\* (require_current), impossible while the file cannot be read.
Annotate(c, n) ==
  LET f == <<c, proper[c]>> IN
  /\ step = "none" /\ marker /\ "marker" \notin broken
  /\ n \in Later \ made
  /\ Torn \notin book[f]
  /\ book' = [book EXCEPT ![f] = @ \cup {n}]
  /\ made' = made \cup {n}
  /\ Wrote(f)
  /\ UNCHANGED <<proper, marker, journal, stamps, commandVars, kills, broken, undoing,
                 forgone>>

\* The number of its inventory is written into a case's passport: its key changes.
Correct(c) ==
  /\ step = "none" /\ proper[c] < LastName
  /\ proper' = [proper EXCEPT ![c] = @ + 1]
  /\ UNCHANGED <<book, marker, journalVars, commandVars, kills, broken, pastVars>>

NoJournal ==
  [state |-> "back", kept |-> {}, created |-> {}, archive |-> [f \in Files |-> {}],
   marker |-> FALSE, targets |-> {}, written |-> [f \in Files |-> {}], made |-> {}]

\* A workspace of before the new keys.
RekeyInit ==
  /\ book = [f \in Files |-> IF f[2] = 0 THEN {f[1]} ELSE {}]
  /\ proper = [c \in Cases |-> 1]
  /\ marker = FALSE
  /\ journal = [j \in Stamps |-> NoJournal]
  /\ stamps = 0 /\ newer = [j \in Stamps |-> {}]
  /\ step = "none" /\ which = 0 /\ todo = {} /\ keep = {} /\ moved = NoFile
  /\ kills = 0 /\ broken = {}
  /\ made = Cases /\ undoing = {} /\ forgone = {}

ApplyStep == \/ Start \/ MoveOut \/ SetMarker \/ EndApply \/ ApplyFails
             \/ \E f \in Files : MoveIn(f)

BackStep == \/ \E j \in Stamps, force \in BOOLEAN : StartBack(j, force)
            \/ \E f \in Files : Remove(f) \/ Restore(f)
            \/ RestoreMarker \/ EndBack

RekeyNext == \/ ApplyStep \/ BackStep \/ KillRekey
             \/ \E c \in Cases : Correct(c) \/ \E n \in Later : Annotate(c, n)

RekeySpec == RekeyInit /\ [][RekeyNext]_rekeyVars

-----------------------------------------------------------------------------
(* Properties.                                                             *)

Books == [Files -> SUBSET (Notes \cup {Torn})]

Journals ==
  [state : {"open", "done", "back"}, kept : SUBSET Files, created : SUBSET Files,
   archive : Books, marker : BOOLEAN, targets : SUBSET Files, written : Books,
   made : SUBSET Notes]

RekeyType ==
  /\ book \in Books
  /\ proper \in [Cases -> Names]
  /\ marker \in BOOLEAN
  /\ journal \in [Stamps -> Journals]
  /\ stamps \in 0..MaxMoves
  /\ newer \in [Stamps -> SUBSET Files]
  /\ step \in {"none", "move", "unlink", "finish", "undo", "close"}
  /\ which \in 0..MaxMoves /\ (step # "none" => which \in Stamps)
  /\ todo \subseteq Files /\ keep \subseteq Files
  /\ moved \in Files \cup {NoFile} /\ (step = "unlink" => moved \in Files)
  /\ kills \in 0..MaxKills /\ broken \subseteq {"marker", "journal"}
  /\ made \subseteq Notes /\ forgone \subseteq Notes
  /\ undoing \subseteq Stamps

\* A rollback that has come to its end has brought back, exactly, the workspace its
\* apply found, if nobody wrote anything since: through killed applies and rollbacks,
\* repeated ones, and applies on top of each other.
Restores ==
  [][\A j \in Stamps :
        /\ j \in Active /\ journal'[j].state = "back"
        /\ made = journal[j].made
        => book' = journal[j].archive /\ marker' = journal[j].marker]_rekeyVars

\* No note is lost: it is in a file or, while an apply is being taken back, in its
\* archive.  Excepted are notes made after an apply that somebody takes back by
\* --force, or that was broken off before its journal was closed: such an apply has
\* no sums to compare with.
WorkKept ==
  \A n \in made \ forgone :
     \/ \E f \in Files : n \in book[f]
     \/ \E j \in undoing : \E f \in journal[j].kept : n \in journal[j].archive[f]

=============================================================================
