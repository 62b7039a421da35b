---------------------------- MODULE FreshAnswers ----------------------------
(***************************************************************************)
(* What rebuild() of src/nyshporka/cases/db.py promises to whoever calls   *)
(* it, with no word about how: the answer describes the disk as it was at  *)
(* some moment after the request.  Rebuild implements this.                *)
(***************************************************************************)
EXTENDS Naturals

CONSTANT Callers

VARIABLES
  disk,     \* the version of what lies on the disk
  status,   \* caller: idle, waiting, served, or stopped by a fault
  since,    \* caller: the disk's version when it asked
  answer    \* caller: the disk's version its answer describes

vars == <<disk, status, since, answer>>

Init ==
  /\ disk = 0
  /\ status = [c \in Callers |-> "idle"]
  /\ since = [c \in Callers |-> 0]
  /\ answer = [c \in Callers |-> 0]

Change ==
  /\ disk' = disk + 1
  /\ UNCHANGED <<status, since, answer>>

Ask(c) ==
  /\ status[c] # "waiting"
  /\ status' = [status EXCEPT ![c] = "waiting"]
  /\ since' = [since EXCEPT ![c] = disk]
  /\ UNCHANGED <<disk, answer>>

Serve(c) ==
  /\ status[c] = "waiting"
  /\ status' = [status EXCEPT ![c] = "served"]
  /\ \E v \in since[c]..disk : answer' = [answer EXCEPT ![c] = v]
  /\ UNCHANGED <<disk, since>>

GiveUp(c) ==
  /\ status[c] = "waiting"
  /\ status' = [status EXCEPT ![c] = "stopped"]
  /\ UNCHANGED <<disk, since, answer>>

Next == Change \/ \E c \in Callers : Ask(c) \/ Serve(c) \/ GiveUp(c)

Spec == Init /\ [][Next]_vars

=============================================================================
