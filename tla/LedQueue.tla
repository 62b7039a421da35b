------------------------------ MODULE LedQueue ------------------------------
(***************************************************************************)
(* What the queue of cases (src/nyshporka/queue) promises to the people    *)
(* who order the cases, with no word about records, slots, stages, locks   *)
(* or who read the file when: a case has one state, one case at a time is  *)
(* in hand, only the case in hand is worked on, and everything else that   *)
(* happens to a case is a person's doing.  CaseQueue implements this.      *)
(***************************************************************************)
CONSTANTS Cases, NoCase

VARIABLES
  status,   \* case: its state in the queue, or "absent"
  charge,   \* is somebody in charge of the queue, or coming to be?
  hand,     \* the case in hand, or NoCase
  passed    \* the cases every stage of which has been confirmed

view == <<status, charge, hand>>
vars == <<status, charge, hand, passed>>

States == {"absent", "queued", "running", "retry", "blocked", "failed", "done"}

TypeOK ==
  /\ status \in [Cases -> States]
  /\ charge \in {"nobody", "comes", "leads"}
  /\ hand \in Cases \cup {NoCase}
  /\ passed \subseteq Cases

Init ==
  /\ status = [c \in Cases |-> "absent"]
  /\ charge = "nobody"
  /\ hand = NoCase
  /\ passed = {}

-----------------------------------------------------------------------------
(* People.                                                                 *)

Order(c) ==
  /\ status[c] = "absent"
  /\ status' = [status EXCEPT ![c] = "queued"]
  /\ UNCHANGED <<charge, hand>>

\* Whatever a person put back, and what stood in the way and does no more.
PutBack(C) ==
  /\ \A c \in C : status[c] \notin {"absent", "running"}
  /\ status' = [c \in Cases |-> IF c \in C THEN "queued" ELSE status[c]]
  /\ UNCHANGED <<charge, hand>>

\* A case being worked on is not taken from under the one who leads.  What the one
\* before left in the middle may still be withdrawn while the next one is coming.
Withdraw(c) ==
  /\ status[c] # "absent"
  /\ status[c] = "running" => charge # "leads"
  /\ status' = [status EXCEPT ![c] = "absent"]
  /\ UNCHANGED <<charge, hand>>

-----------------------------------------------------------------------------
(* The one in charge.                                                      *)

TakeCharge ==
  /\ charge = "nobody"
  /\ charge' = "comes"
  /\ UNCHANGED <<status, hand>>

\* What the one before left in the middle goes back to the queue; only then is
\* anything taken in hand.
Restore ==
  /\ charge = "comes"
  /\ charge' = "leads"
  /\ status' = [c \in Cases |-> IF status[c] = "running" THEN "queued" ELSE status[c]]
  /\ UNCHANGED hand

Take(c) ==
  /\ charge = "leads"
  /\ hand = NoCase
  /\ \A d \in Cases : status[d] # "running"
  /\ status[c] \in {"queued", "retry"}
  /\ hand' = c
  /\ UNCHANGED <<status, charge>>

Work ==
  /\ hand \in Cases
  /\ status[hand] \in {"queued", "retry", "running"}
  /\ status' = [status EXCEPT ![hand] = "running"]
  /\ UNCHANGED <<charge, hand>>

\* The case in hand is over for now, or for good: then every stage has passed.
Conclude(s) ==
  /\ hand \in Cases
  /\ status[hand] \in {"queued", "retry", "running"}
  /\ s = "done" => hand \in passed
  /\ status' = [status EXCEPT ![hand] = s]
  /\ hand' = NoCase
  /\ UNCHANGED charge

\* A case dropped meanwhile, or an interruption: the hand is empty again.
LetGo ==
  /\ hand' = NoCase
  /\ UNCHANGED <<status, charge>>

\* The end, also a violent one.
Leave ==
  /\ charge # "nobody"
  /\ charge' = "nobody"
  /\ hand' = NoCase
  /\ UNCHANGED status

-----------------------------------------------------------------------------
Next ==
  /\ passed \subseteq passed' /\ passed' \in SUBSET Cases
  /\ \/ UNCHANGED view
     \/ \E c \in Cases : Order(c) \/ Withdraw(c) \/ Take(c)
     \/ \E C \in SUBSET Cases : PutBack(C)
     \/ \E s \in {"queued", "retry", "blocked", "failed", "done"} : Conclude(s)
     \/ TakeCharge \/ Restore \/ Work \/ LetGo \/ Leave

Spec == Init /\ [][Next]_vars

=============================================================================
