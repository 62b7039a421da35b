-------------------------------- MODULE XRate --------------------------------
(***************************************************************************)
(* The limit of requests to a server, shared by all processes of the       *)
(* machine (src/nyshporka/core/xrate.py).  A file holds the times granted  *)
(* so far.  reserve() reads it, adds a time and writes it back under its   *)
(* own lock, which makes it one step; the caller then sleeps until its     *)
(* time and sends.  Time is the machine's clock, in units.                 *)
(***************************************************************************)
EXTENDS Naturals, Sequences, FiniteSets

CONSTANTS
  Requests,    \* calls of acquire(), by any processes
  MaxEvents,   \* max_events: requests allowed in a window
  RawWindow,   \* the window the server measures, times safety
  Slack,       \* how late a sleeper wakes and sends
  MaxClock,    \* bound: the clock
  MaxMishaps   \* bound: times the clock is set or the file damaged

ASSUME RateSizes == /\ IsFiniteSet(Requests)
                    /\ MaxEvents \in Nat \ {0}
                    /\ RawWindow \in Nat \ {0}
                    /\ Slack \in Nat /\ MaxClock \in Nat /\ MaxMishaps \in Nat

VARIABLES
  clock,     \* time.time()
  grants,    \* the file: the last times granted
  readable,  \* the file can be parsed
  caller,    \* request: "new", "wait", "sent", or "lost" with its process
  ticket,    \* request: the time it was given
  sentAt,    \* request: when it went out
  turn,      \* auxiliary: the request's number in the order of reservation
  count,     \* auxiliary: reservations so far
  upset,     \* auxiliary: tickets somebody waits for are no longer in the
             \* file, or the clock was set
  mishaps    \* mishaps that may still happen

rateVars == <<clock, grants, readable, caller, ticket, sentAt, turn, count, upset,
              mishaps>>

Window == RawWindow + Slack

-----------------------------------------------------------------------------
(* The file.                                                               *)

\* A grant from too far in the future is taken for the trace of a clock that jumped.
TooFar(g) == g > clock + 4 * Window

Crowded == \E i \in DOMAIN grants : TooFar(grants[i])

\* The grants that are not too far.  Of the places they stand at, the i-th from the
\* beginning is the one with i of them up to it.
Near ==
  LET K == {k \in DOMAIN grants : ~TooFar(grants[k])}
  IN  [i \in 1..Cardinality(K) |->
         grants[CHOOSE k \in K : Cardinality({j \in K : j <= k}) = i]]

\* Mutation of LoadGrants: nothing is dropped.
LoadGrants_all == IF readable THEN grants ELSE [i \in 1..MaxEvents |-> clock]

\* Mutation of LoadGrants: a damaged file is an empty one.
LoadGrants_reset == IF readable THEN Near ELSE <<>>

\* _load: a file that cannot be parsed counts as a window filled this moment.
LoadGrants ==
  IF ~readable THEN [i \in 1..MaxEvents |-> clock]
  ELSE IF Crowded THEN Near
  ELSE grants

InOrder(s) == \A i, j \in 1..Len(s) : i <= j => s[i] <= s[j]

\* Has x, by its value, the i-th place of the list?
HasRank(s, x, i) ==
  /\ Cardinality({j \in DOMAIN s : s[j] < x}) < i
  /\ i <= Cardinality({j \in DOMAIN s : s[j] <= x})

\* sorted(); a list in order stays as it is.
Sorted(s) ==
  IF InOrder(s) THEN s
  ELSE [i \in DOMAIN s |-> CHOOSE x \in {s[j] : j \in DOMAIN s} : HasRank(s, x, i)]

\* The time for the next request: a window after the max_events-th last one.
Slot(s) ==
  IF Len(s) >= MaxEvents /\ s[Len(s) + 1 - MaxEvents] + Window > clock
  THEN s[Len(s) + 1 - MaxEvents] + Window
  ELSE clock

\* _save: only the end of the list is kept.
Kept(s) == IF Len(s) <= 4 * MaxEvents THEN s
           ELSE SubSeq(s, Len(s) + 1 - 4 * MaxEvents, Len(s))

-----------------------------------------------------------------------------
(* Steps.                                                                  *)

\* Does somebody wait for a time that has not come?
Queue == \E r \in Requests : caller[r] = "wait" /\ ticket[r] > clock

\* reserve(): the file is whole again, whatever it was.
Reserve(r) ==
  /\ caller[r] = "new"
  /\ LET list == Sorted(LoadGrants)
         t    == Slot(list)
     IN  /\ grants' = Kept(Append(list, t))
         /\ ticket' = [ticket EXCEPT ![r] = t]
  /\ readable' = TRUE
  /\ caller' = [caller EXCEPT ![r] = "wait"]
  /\ turn' = [turn EXCEPT ![r] = count + 1]
  /\ count' = count + 1
  /\ upset' = (upset \/ (readable /\ Crowded))
  /\ UNCHANGED <<clock, sentAt, mishaps>>

\* acquire(): the sleep is over and the request goes out.
Send(r) ==
  /\ caller[r] = "wait"
  /\ clock >= ticket[r]
  /\ sentAt' = [sentAt EXCEPT ![r] = clock]
  /\ caller' = [caller EXCEPT ![r] = "sent"]
  /\ UNCHANGED <<clock, grants, readable, ticket, turn, count, upset,
                 mishaps>>

\* The process is gone while it waits; its time stays taken.
Die(r) ==
  /\ caller[r] = "wait"
  /\ caller' = [caller EXCEPT ![r] = "lost"]
  /\ UNCHANGED <<clock, grants, readable, ticket, sentAt, turn, count, upset,
                 mishaps>>

\* Time passes; nobody who is to send is later than Slack.
Tick ==
  /\ clock < MaxClock
  /\ upset \/ \A r \in Requests : caller[r] = "wait" => clock < ticket[r] + Slack
  /\ clock' = clock + 1
  /\ UNCHANGED <<grants, readable, caller, ticket, sentAt, turn, count, upset,
                 mishaps>>

Mishap == mishaps > 0 /\ mishaps' = mishaps - 1

\* The clock is set: NTP, or a computer that slept.
Jump ==
  /\ Mishap
  /\ clock' \in 0..MaxClock
  /\ upset' = TRUE
  /\ UNCHANGED <<grants, readable, caller, ticket, sentAt, turn, count>>

\* The file is damaged.
Damage ==
  /\ Mishap
  /\ readable
  /\ readable' = FALSE
  /\ upset' = (upset \/ Queue)
  /\ UNCHANGED <<clock, grants, caller, ticket, sentAt, turn, count>>

RateInit ==
  /\ clock = 0
  /\ grants = <<>>
  /\ readable = TRUE
  /\ caller = [r \in Requests |-> "new"]
  /\ ticket = [r \in Requests |-> 0]
  /\ sentAt = [r \in Requests |-> 0]
  /\ turn = [r \in Requests |-> 0]
  /\ count = 0
  /\ upset = FALSE
  /\ mishaps = MaxMishaps

RateNext ==
  \/ \E r \in Requests : Reserve(r) \/ Send(r) \/ Die(r)
  \/ Tick \/ Jump \/ Damage

RateSpec == RateInit /\ [][RateNext]_rateVars

-----------------------------------------------------------------------------
(* Properties.                                                             *)

\* Requests that went out in the window of the server that ends with r's.
InWindow(r) == {q \in Requests : /\ caller[q] = "sent"
                                 /\ sentAt[q] <= sentAt[r]
                                 /\ sentAt[r] < sentAt[q] + RawWindow}

\* In any window the server sees at most max_events requests (verify()), however
\* many processes there are and whoever dies waiting, also when the file is damaged
\* while nobody waits; until tickets still waited for fall out of the file or the
\* clock is set.
Limit ==
  ~upset => \A r \in Requests :
              caller[r] = "sent" => Cardinality(InWindow(r)) <= MaxEvents

\* The queue never freezes: whatever the clock has done, nobody is told to wait
\* longer than five windows.
NoFreeze ==
  [][\A r \in Requests :
       caller[r] = "new" /\ caller'[r] = "wait" => ticket'[r] <= clock + 5 * Window]_rateVars

\* What the module promises of any number of processes and the code does not keep (see
\* the README): each request stands a window after the max_events-th one before it,
\* while the clock goes on and the file is whole.
Spaced ==
  \A q, r \in Requests :
    "new" \notin {caller[q], caller[r]} /\ turn[r] = turn[q] + MaxEvents
    => ticket[r] >= ticket[q] + Window

=============================================================================
