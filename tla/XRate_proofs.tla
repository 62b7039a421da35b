----------------------------- MODULE XRate_proofs -----------------------------
(***************************************************************************)
(* Proof of the limit of requests, for any number of them and any window:  *)
(* as long as the clock is not set and no awaited ticket drops out of the  *)
(* file, the server sees at most MaxEvents of them in its window.          *)
(***************************************************************************)
EXTENDS XRate, Integers, FiniteSetTheorems, SequenceTheorems, WellFoundedInduction, TLAPS

-----------------------------------------------------------------------------
(* Two requests in the same place of their rounds of n are a round apart.  *)

LEMMA WholeRound ==
  ASSUME NEW n \in Nat \ {0}, NEW a \in Nat, NEW b \in Nat, a < b, a % n = b % n
  PROVE  b >= a + n
<1>1. ASSUME NEW d \in Int, n * d > 0 PROVE n * d >= n
  BY <1>1
<1>2. a = (n * (a \div n)) + (a % n) /\ a \div n \in Int
  OBVIOUS
<1>3. b = (n * (b \div n)) + (b % n) /\ b \div n \in Int
  OBVIOUS
<1>4. PICK d \in Int : n * d = b - a
  <2>1. n * ((b \div n) - (a \div n)) = b - a
    BY <1>2, <1>3
  <2> DEFINE d == (b \div n) - (a \div n)
  <2>2. d \in Int /\ n * d = b - a
    BY <1>2, <1>3, <2>1
  <2> HIDE DEF d
  <2> QED BY <2>2
<1>5. n * d >= n
  BY <1>1, <1>4
<1> QED BY <1>4, <1>5

LEMMA PlaceInRound ==
  ASSUME NEW n \in Nat \ {0}, NEW a \in Nat PROVE a % n \in 0..(n - 1)
OBVIOUS

-----------------------------------------------------------------------------
(* Finitely many numbers in order.                                          *)

\* A set of natural numbers has a least one.
LEMMA LeastOf == 
  ASSUME NEW T \in SUBSET Nat, T # {} 
  PROVE \E m \in T : \A n \in T : m <= n
<1> DEFINE R == OpToRel(<, Nat)
<1>1. IsWellFoundedOn(R, Nat)
  BY NatLessThanWellFounded
<1>2. \A x, y \in Nat : x < y => <<x, y>> \in R
  BY DEF OpToRel
<1> HIDE DEF R
<1>3. PICK m \in T : \A n \in T : ~(<<n, m>> \in R)
  BY <1>1, WFMin
<1>4. \A n \in T : ~(n < m)
  BY <1>2, <1>3
<1> QED BY <1>3, <1>4

\* Of finitely many places one has the greatest number.
LEMMA GreatestPlace ==
  ASSUME NEW K, IsFiniteSet(K), K # {}, NEW v, \A k \in K : v[k] \in Nat
  PROVE  \E k \in K : \A j \in K : v[j] <= v[k]
<1> DEFINE Above(k) == {j \in K : v[j] > v[k]}
           T == {Cardinality(Above(k)) : k \in K}
<1>1. \A k \in K : IsFiniteSet(Above(k)) /\ Cardinality(Above(k)) \in Nat
  BY FS_Subset, FS_CardinalityType
<1>2. PICK m \in T : \A n \in T : m <= n
  <2>1. T \in SUBSET Nat /\ T # {}
    BY <1>1
  <2> HIDE DEF T
  <2> QED BY <2>1, LeastOf
<1>3. PICK k \in K : m = Cardinality(Above(k))
  BY <1>2
<1>4. ASSUME NEW j \in K, v[j] > v[k] PROVE FALSE
  <2>1. Above(j) \in SUBSET Above(k) /\ j \in Above(k) /\ j \notin Above(j)
    BY <1>4
  <2>2. /\ Cardinality(Above(j)) <= Cardinality(Above(k))
        /\ Cardinality(Above(j)) # Cardinality(Above(k))
    <3> HIDE DEF Above
    <3> QED BY <1>1, <2>1, FS_Subset
  <2>3. Cardinality(Above(k)) <= Cardinality(Above(j))
    BY <1>2, <1>3
  <2> HIDE DEF Above
  <2> QED BY <1>1, <2>2, <2>3
<1> QED BY <1>4

\* The places of smaller numbers, and of numbers not greater.
LowerThan(K, v, k) == {j \in K : v[j] < v[k]}
UpTo(K, v, k)      == {j \in K : v[j] <= v[k]}

\* Of finitely many numbers one is the i-th.
LEMMA Ranked ==
  ASSUME NEW K, IsFiniteSet(K), NEW v, \A k \in K : v[k] \in Nat, NEW i \in 1..Cardinality(K)
  PROVE  \E k \in K : /\ Cardinality(LowerThan(K, v, k)) < i
                      /\ i <= Cardinality(UpTo(K, v, k))
<1> DEFINE Upto(k) == {j \in K : v[j] <= v[k]}
           Below(k) == {j \in K : v[j] < v[k]}
           H == {k \in K : i <= Cardinality(Upto(k))}
           T == {Cardinality(Upto(k)) : k \in H}
<1>0. Cardinality(K) \in Nat /\ i \in Nat /\ i > 0
  BY FS_CardinalityType
<1>1. \A k \in K : /\ IsFiniteSet(Upto(k)) /\ Cardinality(Upto(k)) \in Nat
                   /\ IsFiniteSet(Below(k)) /\ Cardinality(Below(k)) \in Nat
  <2>1. \A k \in K : Upto(k) \in SUBSET K /\ Below(k) \in SUBSET K
    OBVIOUS
  <2> HIDE DEF Upto, Below
  <2> QED BY <2>1, FS_Subset, FS_CardinalityType
<1>2. H # {}
  <2>1. K # {}
    BY <1>0, FS_EmptySet
  <2>2. PICK k \in K : \A j \in K : v[j] <= v[k]
    BY <2>1, GreatestPlace
  <2>3. Upto(k) = K
    BY <2>2
  <2> QED BY <1>0, <2>3
<1>3. PICK m \in T : \A n \in T : m <= n
  <2>1. T \in SUBSET Nat /\ T # {}
    BY <1>1, <1>2
  <2> HIDE DEF T
  <2> QED BY <2>1, LeastOf
<1>4. PICK k \in H : m = Cardinality(Upto(k))
  BY <1>3
<1>5. ASSUME i <= Cardinality(Below(k)) PROVE FALSE
  <2>1. Below(k) # {} /\ IsFiniteSet(Below(k)) /\ Below(k) \subseteq K
    BY <1>0, <1>1, <1>4, <1>5, FS_EmptySet
  <2>2. PICK b \in Below(k) : \A j \in Below(k) : v[j] <= v[b]
    <3>1. \A j \in Below(k) : v[j] \in Nat
      BY <2>1
    <3> HIDE DEF Below
    <3> QED BY <2>1, <3>1, GreatestPlace
  <2>3. Upto(b) = Below(k)
    BY <1>4, <2>1, <2>2
  <2>4. b \in H /\ m <= Cardinality(Upto(b))
    BY <1>3, <1>5, <2>1, <2>2, <2>3
  <2>5. Below(k) \in SUBSET Upto(k) /\ k \in Upto(k) /\ k \notin Below(k)
    BY <1>4
  <2>6. /\ Cardinality(Below(k)) <= Cardinality(Upto(k))
        /\ Cardinality(Below(k)) # Cardinality(Upto(k))
    <3>1. k \in K
      BY <1>4
    <3> HIDE DEF Below, Upto, H
    <3> QED BY <1>1, <2>5, <3>1, FS_Subset
  <2>7. k \in K
    BY <1>4
  <2> HIDE DEF Below, Upto, H, T
  <2> QED BY <1>1, <1>4, <2>3, <2>4, <2>6, <2>7
<1>6. k \in K /\ i <= Cardinality(Upto(k))
  BY <1>4
<1>7. ~(i <= Cardinality(Below(k)))
  BY <1>5
<1> HIDE DEF H, T
<1>8. Cardinality(Below(k)) < i
  <2> HIDE DEF Below
  <2> QED BY <1>0, <1>1, <1>6, <1>7
<1> QED BY <1>6, <1>8 DEF LowerThan, UpTo

-----------------------------------------------------------------------------
(* The invariant of the days on which nothing upsets the file.             *)

Live(r) == caller[r] \in {"wait", "sent"}

CalmType ==
  /\ clock \in Nat
  /\ grants \in Seq(Nat)
  /\ readable \in BOOLEAN
  /\ caller \in [Requests -> {"new", "wait", "sent", "lost"}]
  /\ ticket \in [Requests -> Nat] /\ sentAt \in [Requests -> Nat]
  /\ turn \in [Requests -> Nat] /\ count \in Nat
  /\ upset = FALSE

\* The requests that were made have numbers of their own.
Numbered ==
  \A q, r \in Requests :
    /\ Live(q) => turn[q] \in 1..count
    /\ q # r /\ Live(q) /\ Live(r) => turn[q] # turn[r]

\* The times in a list are in order, and the last has come, or is a window after the
\* one a round before the next.
WellSpread(s) ==
  /\ InOrder(s)
  /\ Len(s) > 0 /\ s[Len(s)] > clock
       => Len(s) >= MaxEvents /\ s[Len(s)] <= s[Len(s) + 1 - MaxEvents] + Window

\* The i-th time from the end of a list is not before the ticket of a request that
\* has i requests or more behind it.
Covers(s) ==
  \A r \in Requests : Live(r) =>
    \A i \in 0..(MaxEvents - 1) :
      i + turn[r] <= count => i < Len(s) /\ ticket[r] <= s[Len(s) - i]

\* While the file is damaged nobody waits for a time to come.
FileTells == IF readable THEN WellSpread(grants) /\ Covers(grants)
                         ELSE \A r \in Requests : Live(r) => ticket[r] <= clock

\* A request goes out at its time, not later than Slack.
OnTime ==
  \A r \in Requests :
    /\ caller[r] = "wait" => clock <= ticket[r] + Slack
    /\ caller[r] = "sent" => /\ ticket[r] <= sentAt[r] /\ sentAt[r] <= clock
                             /\ sentAt[r] <= ticket[r] + Slack

\* Tickets a round apart are a window apart.
Apart ==
  \A q, r \in Requests :
    Live(q) /\ Live(r) /\ turn[q] + MaxEvents <= turn[r]
      => ticket[q] + Window <= ticket[r]

Calm == CalmType /\ Numbered /\ FileTells /\ OnTime /\ Apart

RateInv == upset \in BOOLEAN /\ (~upset => Calm)

LEMMA WindowType == Window \in Nat \ {0} /\ Window = RawWindow + Slack
BY RateSizes DEF Window

-----------------------------------------------------------------------------
(* The list with one more time.                                            *)

\* Only the end of a list is kept; what is asked of its end is not touched.
LEMMA KeptEnd ==
  ASSUME NEW s \in Seq(Nat)
  PROVE  /\ Kept(s) \in Seq(Nat)
         /\ Len(Kept(s)) <= Len(s)
         /\ Len(Kept(s)) = Len(s) \/ Len(Kept(s)) = 4 * MaxEvents
         /\ Len(Kept(s)) <= 4 * MaxEvents
         /\ \A i \in 0..(Len(Kept(s)) - 1) :
              Kept(s)[Len(Kept(s)) - i] = s[Len(s) - i]
<1>1. CASE Len(s) <= 4 * MaxEvents
  BY <1>1 DEF Kept
<1>2. CASE Len(s) > 4 * MaxEvents
  <2> DEFINE m == Len(s) + 1 - 4 * MaxEvents
  <2>1. m \in 1..Len(s) /\ m \in Int /\ 4 * MaxEvents \in Nat /\ Len(s) \in Nat
    BY <1>2, RateSizes
  <2>2. \A i \in m..Len(s) : s[i] \in Nat
    BY <2>1
  <2>0. ~(Len(s) <= 4 * MaxEvents)
    BY <1>2, RateSizes
  <2>3. Kept(s) = SubSeq(s, m, Len(s))
    BY <2>0, Zenon DEF Kept
  <2> HIDE DEF m
  <2>4. /\ SubSeq(s, m, Len(s)) \in Seq(Nat)
        /\ Len(SubSeq(s, m, Len(s))) = Len(s) - m + 1
        /\ \A i \in 1..(Len(s) - m + 1) : SubSeq(s, m, Len(s))[i] = s[m + i - 1]
    BY <2>1, <2>2, SubSeqProperties
  <2>5. Len(Kept(s)) = 4 * MaxEvents
    BY <2>1, <2>3, <2>4 DEF m
  <2>6. ASSUME NEW i \in 0..(Len(Kept(s)) - 1)
        PROVE  Kept(s)[Len(Kept(s)) - i] = s[Len(s) - i]
    <3>1. Len(s) - m + 1 - i \in 1..(Len(s) - m + 1)
      BY <2>1, <2>3, <2>4
    <3>2. m + (Len(s) - m + 1 - i) - 1 = Len(s) - i
      BY <2>1
    <3> QED BY <2>3, <2>4, <3>1, <3>2
  <2> QED BY <1>2, <2>1, <2>3, <2>4, <2>5, <2>6
<1> QED BY <1>1, <1>2, RateSizes

\* The list a request adds its time to: in order, well spread, covering who is live.
LEMMA NextTime ==
  ASSUME CalmType, NEW s \in Seq(Nat), WellSpread(s)
  PROVE  /\ Slot(s) \in Nat
         /\ clock <= Slot(s)
         /\ Len(s) > 0 => s[Len(s)] <= Slot(s)
         /\ Len(s) >= MaxEvents => s[Len(s) + 1 - MaxEvents] + Window <= Slot(s)
         /\ \/ Slot(s) = clock
            \/ /\ Len(s) >= MaxEvents
               /\ Slot(s) = s[Len(s) + 1 - MaxEvents] + Window
<1>1. Len(s) >= MaxEvents => s[Len(s) + 1 - MaxEvents] \in Nat
  BY RateSizes
<1>2. Len(s) > 0 => s[Len(s)] \in Nat
  OBVIOUS
<1>3. CASE Len(s) >= MaxEvents /\ s[Len(s) + 1 - MaxEvents] + Window > clock
  <2>1. Slot(s) = s[Len(s) + 1 - MaxEvents] + Window
    BY <1>3 DEF Slot
  <2>2. Len(s) > 0 => s[Len(s)] <= clock \/ s[Len(s)] <= Slot(s)
    BY <1>2, <2>1 DEF WellSpread, CalmType
  <2> QED BY <1>1, <1>2, <1>3, <2>1, <2>2, WindowType DEF CalmType
<1>4. CASE ~(Len(s) >= MaxEvents /\ s[Len(s) + 1 - MaxEvents] + Window > clock)
  <2>1. Slot(s) = clock
    BY <1>4 DEF Slot
  <2>2. Len(s) >= MaxEvents => s[Len(s) + 1 - MaxEvents] + Window <= clock
    BY <1>1, <1>4, WindowType DEF CalmType
  <2>3. Len(s) > 0 => s[Len(s)] <= clock
    BY <1>1, <1>2, <2>2, WindowType DEF WellSpread, CalmType
  <2>4. clock \in Nat
    BY DEF CalmType
  <2> QED BY <2>1, <2>2, <2>3, <2>4
<1> QED BY <1>3, <1>4

LEMMA Added ==
  ASSUME CalmType, NEW s \in Seq(Nat), WellSpread(s), NEW t, t = Slot(s)
  PROVE  /\ Kept(Append(s, t)) \in Seq(Nat)
         /\ WellSpread(Kept(Append(s, t)))
         /\ LET k == Kept(Append(s, t))
            IN  /\ Len(k) > 0 /\ k[Len(k)] = t
                /\ \A i \in 1..(MaxEvents - 1) :
                     i <= Len(s) => i < Len(k) /\ k[Len(k) - i] = s[Len(s) - (i - 1)]
<1> DEFINE a == Append(s, t)
           k == Kept(a)
<1>1. /\ a \in Seq(Nat) /\ Len(a) = Len(s) + 1 /\ a[Len(a)] = t
      /\ \A i \in 1..Len(s) : a[i] = s[i]
  BY NextTime, AppendProperties
<1>2. /\ k \in Seq(Nat) /\ Len(k) <= Len(a)
      /\ Len(k) = Len(a) \/ Len(k) = 4 * MaxEvents
      /\ \A i \in 0..(Len(k) - 1) : k[Len(k) - i] = a[Len(a) - i]
  BY <1>1, KeptEnd
<1> HIDE DEF a, k
<1>3. Len(k) \in Nat /\ Len(a) \in Nat /\ Len(s) \in Nat /\ Len(k) > 0
  BY <1>1, <1>2, RateSizes
<1>4. k[Len(k)] = t
  BY <1>1, <1>2, <1>3
<1>5. ASSUME NEW i \in 1..(MaxEvents - 1), i <= Len(s)
      PROVE  i < Len(k) /\ k[Len(k) - i] = s[Len(s) - (i - 1)]
  <2>1. i < Len(k)
    BY <1>1, <1>2, <1>3, <1>5, RateSizes
  <2>2. Len(s) - (i - 1) \in 1..Len(s) /\ Len(a) - i = Len(s) - (i - 1)
    BY <1>1, <1>3, <1>5
  <2>3. i \in 0..(Len(k) - 1)
    BY <1>3, <2>1
  <2>4. k[Len(k) - i] = a[Len(a) - i]
    BY <1>2, <2>3
  <2>5. a[Len(s) - (i - 1)] = s[Len(s) - (i - 1)]
    BY <1>1, <2>2
  <2> QED BY <2>1, <2>2, <2>4, <2>5
<1>6. InOrder(a)
  <2> SUFFICES ASSUME NEW i \in 1..Len(a), NEW j \in 1..Len(a), i <= j
               PROVE  a[i] <= a[j]
    BY DEF InOrder
  <2>1. CASE j <= Len(s)
    <3>1. i \in 1..Len(s) /\ j \in 1..Len(s)
      BY <1>1, <1>3, <2>1
    <3>2. s[i] <= s[j]
      BY <3>1 DEF WellSpread, InOrder
    <3> QED BY <1>1, <3>1, <3>2
  <2>2. CASE j = Len(a) /\ i <= Len(s)
    <3>1. s[i] <= s[Len(s)] /\ s[Len(s)] <= t /\ t \in Nat /\ s[i] \in Nat
            /\ s[Len(s)] \in Nat
      BY <1>3, <2>2, NextTime DEF WellSpread, InOrder
    <3> QED BY <1>1, <2>2, <3>1
  <2>3. CASE i = Len(a) /\ j = Len(a)
    BY <1>1, <2>3, NextTime
  <2> QED BY <1>1, <1>3, <2>1, <2>2, <2>3
<1>7. InOrder(k)
  <2> SUFFICES ASSUME NEW i \in 1..Len(k), NEW j \in 1..Len(k), i <= j
               PROVE  k[i] <= k[j]
    BY DEF InOrder
  <2>0. Len(k) - i \in 0..(Len(k) - 1) /\ Len(k) - j \in 0..(Len(k) - 1)
    BY <1>3
  <2>1. k[Len(k) - (Len(k) - i)] = a[Len(a) - (Len(k) - i)]
    BY <1>2, <2>0
  <2>2. k[Len(k) - (Len(k) - j)] = a[Len(a) - (Len(k) - j)]
    BY <1>2, <2>0
  <2>3. Len(k) - (Len(k) - i) = i /\ Len(k) - (Len(k) - j) = j
    BY <1>3
  <2>4. /\ Len(a) - (Len(k) - i) \in 1..Len(a) /\ Len(a) - (Len(k) - j) \in 1..Len(a)
        /\ Len(a) - (Len(k) - i) <= Len(a) - (Len(k) - j)
    BY <1>2, <1>3
  <2>5. a[Len(a) - (Len(k) - i)] <= a[Len(a) - (Len(k) - j)]
    BY <1>6, <2>4 DEF InOrder
  <2> QED BY <2>1, <2>2, <2>3, <2>5
<1>8. Len(k) > 0 /\ k[Len(k)] > clock
        => Len(k) >= MaxEvents /\ k[Len(k)] <= k[Len(k) + 1 - MaxEvents] + Window
  <2> SUFFICES ASSUME t > clock
               PROVE  Len(k) >= MaxEvents /\ t <= k[Len(k) + 1 - MaxEvents] + Window
    BY <1>4
  <2>1. Len(s) >= MaxEvents /\ t = s[Len(s) + 1 - MaxEvents] + Window
    <3>0. t \in Nat /\ clock \in Nat
      BY NextTime DEF CalmType
    <3>1. t # clock
      BY <3>0
    <3> QED BY <3>1, NextTime
  <2>2. Len(k) >= MaxEvents
    BY <1>1, <1>2, <1>3, <2>1, RateSizes
  <2>3. CASE MaxEvents = 1
    BY <1>3, <1>4, <2>1, <2>2, <2>3, NextTime, WindowType
  <2>4. CASE MaxEvents # 1
    <3>1. MaxEvents - 1 \in 1..(MaxEvents - 1) /\ MaxEvents - 1 <= Len(s)
      BY <1>3, <2>1, <2>4, RateSizes
    <3>2. k[Len(k) - (MaxEvents - 1)] = s[Len(s) - ((MaxEvents - 1) - 1)]
      BY <1>5, <3>1
    <3>3. /\ Len(k) - (MaxEvents - 1) = Len(k) + 1 - MaxEvents
          /\ Len(s) - ((MaxEvents - 1) - 1) = Len(s) + 2 - MaxEvents
      BY <1>3, RateSizes
    <3>4. /\ Len(s) + 1 - MaxEvents \in 1..Len(s)
          /\ Len(s) + 2 - MaxEvents \in 1..Len(s)
          /\ Len(s) + 1 - MaxEvents <= Len(s) + 2 - MaxEvents
      BY <1>3, <2>1, <2>4, RateSizes
    <3>5. s[Len(s) + 1 - MaxEvents] <= s[Len(s) + 2 - MaxEvents]
      BY <3>4 DEF WellSpread, InOrder
    <3>6. /\ s[Len(s) + 1 - MaxEvents] \in Nat
          /\ s[Len(s) + 2 - MaxEvents] \in Nat
      BY <3>4
    <3> QED BY <2>1, <2>2, <3>2, <3>3, <3>5, <3>6, WindowType
  <2> QED BY <2>3, <2>4
<1>9. WellSpread(k)
  BY <1>7, <1>8 DEF WellSpread
<1> QED BY <1>2, <1>3, <1>4, <1>5, <1>9 DEF a, k

-----------------------------------------------------------------------------
(* The steps.                                                              *)

\* The list reserve() works on, as long as nothing upsets the file: the file itself;
\* or, in the place of a damaged one, a window that is full this moment.
LEMMA Today ==
  ASSUME Calm, upset' = FALSE, NEW r \in Requests, Reserve(r)
  PROVE  LET s == Sorted(LoadGrants)
         IN  s \in Seq(Nat) /\ WellSpread(s) /\ Covers(s)
<1>0. clock \in Nat /\ grants \in Seq(Nat) /\ readable \in BOOLEAN
  BY DEF Calm, CalmType
<1>1. CASE readable
  <2>1. ~Crowded
    BY <1>1 DEF Reserve
  <2>2. LoadGrants = grants
    BY <1>1, <2>1 DEF LoadGrants
  <2>3. WellSpread(grants) /\ Covers(grants)
    BY <1>1 DEF Calm, FileTells
  <2>4. Sorted(grants) = grants
    BY <2>3 DEF Sorted, WellSpread
  <2> QED BY <1>0, <2>2, <2>3, <2>4
<1>2. CASE ~readable
  <2> DEFINE f == [i \in 1..MaxEvents |-> clock]
  <2>1. f \in Seq(Nat) /\ Len(f) = MaxEvents /\ \A i \in 1..MaxEvents : f[i] = clock
    BY <1>0, RateSizes
  <2>2. LoadGrants = f
    BY <1>2 DEF LoadGrants
  <2> HIDE DEF f
  <2>3. InOrder(f)
    BY <1>0, <2>1 DEF InOrder
  <2>4. WellSpread(f)
    BY <1>0, <2>1, <2>3, RateSizes DEF WellSpread
  <2>5. Covers(f)
    <3>1. \A q \in Requests : Live(q) => ticket[q] <= clock
      BY <1>2 DEF Calm, FileTells
    <3>2. \A i \in 0..(MaxEvents - 1) :
            i < Len(f) /\ Len(f) - i \in 1..MaxEvents
      BY <2>1, RateSizes
    <3> QED BY <2>1, <3>1, <3>2 DEF Covers
  <2>6. Sorted(f) = f
    BY <2>3 DEF Sorted
  <2> QED BY <2>1, <2>2, <2>4, <2>5, <2>6
<1> QED BY <1>0, <1>1, <1>2

\* A new ticket.
LEMMA ReserveStep ==
  ASSUME Calm, upset' = FALSE, NEW r \in Requests, Reserve(r)
  PROVE  Calm'
<1> DEFINE s == Sorted(LoadGrants)
           t == Slot(s)
           k == Kept(Append(s, t))
<1>1. s \in Seq(Nat) /\ WellSpread(s) /\ Covers(s)
  BY Today
<1>2. /\ caller[r] = "new"
      /\ grants' = k /\ ticket' = [ticket EXCEPT ![r] = t]
      /\ readable' = TRUE /\ caller' = [caller EXCEPT ![r] = "wait"]
      /\ turn' = [turn EXCEPT ![r] = count + 1] /\ count' = count + 1
      /\ UNCHANGED <<clock, sentAt, mishaps>>
  BY DEF Reserve
<1>3. CalmType
  BY DEF Calm
<1> HIDE DEF s
<1>4. /\ t \in Nat /\ clock <= t
      /\ Len(s) > 0 => s[Len(s)] <= t
      /\ Len(s) >= MaxEvents => s[Len(s) + 1 - MaxEvents] + Window <= t
  BY <1>1, <1>3, NextTime
<1>5. /\ k \in Seq(Nat) /\ WellSpread(k)
      /\ Len(k) > 0 /\ k[Len(k)] = t
      /\ \A i \in 1..(MaxEvents - 1) :
           i <= Len(s) => i < Len(k) /\ k[Len(k) - i] = s[Len(s) - (i - 1)]
  BY <1>1, <1>3, Added
<1> HIDE DEF t, k
<1>6. CalmType'
  BY <1>2, <1>3, <1>4, <1>5 DEF CalmType
<1>7. /\ \A q \in Requests : q # r => /\ Live(q)' = Live(q)
                                      /\ turn'[q] = turn[q] /\ ticket'[q] = ticket[q]
                                      /\ caller'[q] = caller[q]
      /\ ~Live(r) /\ caller'[r] = "wait" /\ Live(r)'
      /\ turn'[r] = count + 1 /\ ticket'[r] = t
  BY <1>2, <1>3 DEF CalmType, Live
<1>8. count \in Nat /\ clock \in Nat /\ turn \in [Requests -> Nat]
        /\ ticket \in [Requests -> Nat]
  BY <1>3 DEF CalmType
<1>9. \A q \in Requests : Live(q) => turn[q] \in 1..count
  BY DEF Calm, Numbered
<1>10. Numbered'
  <2>1. \A q \in Requests : Live(q)' => turn'[q] \in 1..count'
    BY <1>2, <1>7, <1>8, <1>9
  <2>2. \A p, q \in Requests : p # q /\ Live(p)' /\ Live(q)' => turn'[p] # turn'[q]
    BY <1>7, <1>8, <1>9 DEF Calm, Numbered
  <2> QED BY <2>1, <2>2 DEF Numbered
<1>11. OnTime'
  BY <1>2, <1>4, <1>7, <1>8, RateSizes DEF Calm, OnTime
<1>12. ASSUME NEW q \in Requests, Live(q), NEW i \in 0..(MaxEvents - 1), i + turn[q] <= count
       PROVE  i < Len(s) /\ ticket[q] <= s[Len(s) - i]
  BY <1>1, <1>12 DEF Covers
<1>13. \A q \in Requests : Live(q) => Len(s) > 0 /\ ticket[q] <= t
  <2> SUFFICES ASSUME NEW q \in Requests, Live(q) PROVE Len(s) > 0 /\ ticket[q] <= t
    OBVIOUS
  <2>1. 0 \in 0..(MaxEvents - 1) /\ 0 + turn[q] <= count
    BY <1>8, <1>9, RateSizes
  <2>2. Len(s) > 0 /\ ticket[q] <= s[Len(s) - 0] /\ Len(s) \in Nat
    BY <1>1, <1>12, <2>1
  <2>3. s[Len(s)] \in Nat /\ Len(s) - 0 = Len(s)
    BY <1>1, <2>2
  <2> QED BY <1>4, <1>8, <2>2, <2>3
<1>14. Covers(grants)'
  <2> SUFFICES ASSUME NEW q \in Requests, Live(q)', NEW i \in 0..(MaxEvents - 1),
                      i + turn'[q] <= count'
               PROVE  i < Len(k) /\ ticket'[q] <= k[Len(k) - i]
    BY <1>2 DEF Covers
  <2>0. Len(k) \in Nat /\ Len(s) \in Nat /\ i \in Nat
    BY <1>1, <1>5, RateSizes
  <2>1. CASE i = 0
    <3>1. ticket'[q] <= t
      BY <1>4, <1>7, <1>8, <1>13
    <3> QED BY <1>5, <2>0, <2>1, <3>1
  <2>2. CASE i # 0
    <3>1. q # r
      BY <1>2, <1>7, <1>8, <2>0, <2>2
    <3>2. i - 1 \in 0..(MaxEvents - 1) /\ (i - 1) + turn[q] <= count /\ Live(q)
      <4>1. count' = count + 1 /\ turn'[q] = turn[q] /\ Live(q) /\ turn[q] \in Nat
        BY <1>2, <1>7, <1>8, <3>1
      <4> QED BY <1>8, <2>0, <2>2, <4>1, RateSizes
    <3>3. i - 1 < Len(s) /\ ticket[q] <= s[Len(s) - (i - 1)]
      BY <1>12, <3>2
    <3>4. i \in 1..(MaxEvents - 1) /\ i <= Len(s)
      BY <2>0, <2>2, <3>3
    <3> QED BY <1>5, <1>7, <3>1, <3>3, <3>4
  <2> QED BY <2>1, <2>2
<1>15. FileTells'
  <2>1. WellSpread(grants)'
    BY <1>2, <1>5 DEF WellSpread, InOrder
  <2> QED BY <1>2, <1>14, <2>1 DEF FileTells
<1>16. Apart'
  <2> SUFFICES ASSUME NEW p \in Requests, NEW q \in Requests, Live(p)', Live(q)',
                      turn'[p] + MaxEvents <= turn'[q]
               PROVE  ticket'[p] + Window <= ticket'[q]
    BY DEF Apart
  <2>1. CASE q # r
    <3>1. p # r
      BY <1>7, <1>8, <1>9, <2>1, RateSizes
    <3> QED BY <1>7, <2>1, <3>1 DEF Calm, Apart
  <2>2. CASE q = r
    <3>1. p # r /\ Live(p)
      BY <1>7, <1>8, <2>2, RateSizes
    <3>2. MaxEvents - 1 \in 0..(MaxEvents - 1) /\ (MaxEvents - 1) + turn[p] <= count
      BY <1>7, <1>8, <2>2, <3>1, RateSizes
    <3>3. MaxEvents - 1 < Len(s) /\ ticket[p] <= s[Len(s) - (MaxEvents - 1)]
      BY <1>12, <3>1, <3>2
    <3>4. /\ Len(s) >= MaxEvents /\ Len(s) - (MaxEvents - 1) = Len(s) + 1 - MaxEvents
          /\ s[Len(s) + 1 - MaxEvents] \in Nat
      BY <1>1, <3>3, RateSizes
    <3> QED BY <1>4, <1>7, <1>8, <2>2, <3>1, <3>3, <3>4, WindowType
  <2> QED BY <2>1, <2>2
<1> QED BY <1>6, <1>10, <1>11, <1>15, <1>16 DEF Calm

\* A request that goes out, or is gone; nothing is granted.
LEMMA LeaveStep ==
  ASSUME Calm, NEW r \in Requests, Send(r) \/ Die(r)
  PROVE  Calm'
<1>1. /\ caller[r] = "wait"
      /\ UNCHANGED <<clock, grants, readable, ticket, turn, count, upset>>
      /\ \A q \in Requests : q # r => caller'[q] = caller[q] /\ sentAt'[q] = sentAt[q]
      /\ \/ caller'[r] = "sent" /\ clock >= ticket[r] /\ sentAt'[r] = clock
         \/ caller'[r] = "lost"
      /\ caller' \in [Requests -> {"new", "wait", "sent", "lost"}]
      /\ sentAt' \in [Requests -> Nat]
  BY DEF Calm, CalmType, Send, Die
<1>2. \A q \in Requests : Live(q)' => Live(q)
  BY <1>1 DEF Live
<1>3. CalmType'
  BY <1>1 DEF Calm, CalmType
<1>4. Numbered'
  BY <1>1, <1>2 DEF Calm, Numbered
<1>5. FileTells'
  BY <1>1, <1>2 DEF Calm, FileTells, WellSpread, InOrder, Covers
<1>6. OnTime'
  BY <1>1, RateSizes DEF Calm, CalmType, OnTime
<1>7. Apart'
  BY <1>1, <1>2 DEF Calm, Apart
<1> QED BY <1>3, <1>4, <1>5, <1>6, <1>7 DEF Calm

\* Time passes.
LEMMA TickStep == ASSUME Calm, Tick PROVE Calm'
<1>1. /\ clock \in Nat /\ clock' = clock + 1
      /\ UNCHANGED <<grants, readable, caller, ticket, sentAt, turn, count, upset>>
      /\ \A q \in Requests : caller[q] = "wait" => clock < ticket[q] + Slack
      /\ grants \in Seq(Nat)
      /\ ticket \in [Requests -> Nat] /\ sentAt \in [Requests -> Nat]
  BY DEF Calm, CalmType, Tick
<1>2. CalmType'
  BY <1>1 DEF Calm, CalmType
<1>3. OnTime'
  BY <1>1, RateSizes DEF Calm, OnTime
<1>4. FileTells'
  <2>1. Len(grants) > 0 => grants[Len(grants)] \in Nat
    BY <1>1
  <2>2. CASE readable
    <3>1. WellSpread(grants)'
      BY <1>1, <2>1, <2>2 DEF Calm, FileTells, WellSpread, InOrder
    <3>2. Covers(grants)'
      BY <1>1, <2>2 DEF Calm, FileTells, Covers, Live
    <3> QED BY <1>1, <2>2, <3>1, <3>2 DEF FileTells
  <2>3. CASE ~readable
    BY <1>1, <2>3 DEF Calm, FileTells, Live
  <2> QED BY <2>2, <2>3
<1>5. Numbered' /\ Apart'
  BY <1>1 DEF Calm, Numbered, Apart, Live
<1> QED BY <1>2, <1>3, <1>4, <1>5 DEF Calm

\* The file is damaged while nobody waits for a time to come.
LEMMA DamageStep == ASSUME Calm, upset' = FALSE, Damage PROVE Calm'
<1>1. /\ readable' = FALSE /\ ~Queue
      /\ UNCHANGED <<clock, grants, caller, ticket, sentAt, turn, count>>
  BY DEF Damage
<1>2. CalmType' /\ Numbered' /\ OnTime' /\ Apart'
  BY <1>1 DEF Calm, CalmType, Numbered, OnTime, Apart, Live
<1>3. ASSUME NEW r \in Requests, Live(r) PROVE ticket[r] <= clock
  <2>0. clock \in Nat /\ ticket[r] \in Nat /\ sentAt[r] \in Nat
    BY DEF Calm, CalmType
  <2>1. CASE caller[r] = "wait"
    BY <1>1, <2>0, <2>1 DEF Queue
  <2>2. CASE caller[r] = "sent"
    BY <2>0, <2>2 DEF Calm, OnTime
  <2> QED BY <1>3, <2>1, <2>2 DEF Live
<1>4. FileTells'
  BY <1>1, <1>3 DEF FileTells, Live
<1> QED BY <1>2, <1>4 DEF Calm

LEMMA RateStep == ASSUME RateInv, [RateNext]_rateVars PROVE RateInv'
<1>1. upset' \in BOOLEAN /\ (upset => upset')
  BY DEF RateInv, RateNext, Reserve, Send, Die, Tick, Jump, Damage, rateVars
<1>2. CASE upset'
  BY <1>1, <1>2 DEF RateInv
<1>3. CASE ~upset'
  <2>0. Calm /\ upset' = FALSE
    BY <1>1, <1>3 DEF RateInv
  <2>1. ASSUME NEW r \in Requests, Reserve(r) PROVE Calm'
    BY <2>0, <2>1, ReserveStep
  <2>2. ASSUME NEW r \in Requests, Send(r) \/ Die(r) PROVE Calm'
    BY <2>0, <2>2, LeaveStep
  <2>3. ASSUME Tick PROVE Calm'
    BY <2>0, <2>3, TickStep
  <2>4. ASSUME Jump PROVE Calm'
    BY <2>0, <2>4 DEF Jump
  <2>5. ASSUME Damage PROVE Calm'
    BY <2>0, <2>5, DamageStep
  <2>6. ASSUME UNCHANGED rateVars PROVE Calm'
    BY <2>0, <2>6 DEF rateVars, Calm, CalmType, Numbered, FileTells, WellSpread, InOrder,
       Covers, OnTime, Apart, Live
  <2>7. Calm'
    BY <2>1, <2>2, <2>3, <2>4, <2>5, <2>6 DEF RateNext
  <2> QED BY <1>1, <2>7 DEF RateInv
<1> QED BY <1>2, <1>3

-----------------------------------------------------------------------------
(* The window of the server.                                               *)

\* Two requests in one window are less than a round apart, so no two of them have the
\* same place in their rounds; and there are MaxEvents places.
LEMMA FewInWindow ==
  ASSUME Calm, NEW r \in Requests, caller[r] = "sent"
  PROVE  Cardinality(InWindow(r)) <= MaxEvents
<1> DEFINE W == InWindow(r)
           f == [q \in W |-> turn[q] % MaxEvents]
           P == 0..(MaxEvents - 1)
<1>1. IsFiniteSet(W)
  BY RateSizes, FS_Subset DEF InWindow
<1>2. IsFiniteSet(P) /\ Cardinality(P) = MaxEvents
  BY RateSizes, FS_Interval
<1>3. \A q \in W : /\ q \in Requests /\ Live(q) /\ turn[q] \in Nat
                   /\ ticket[q] \in Nat /\ sentAt[q] \in Nat
                   /\ ticket[q] <= sentAt[q] /\ sentAt[q] <= ticket[q] + Slack
                   /\ sentAt[q] <= sentAt[r] /\ sentAt[r] < sentAt[q] + RawWindow
  BY DEF InWindow, Calm, CalmType, OnTime, Live
<1>4. ASSUME NEW p \in W, NEW q \in W, turn[p] + MaxEvents <= turn[q] PROVE FALSE
  <2>1. ticket[p] + Window <= ticket[q]
    BY <1>3, <1>4 DEF Calm, Apart
  <2>2. sentAt[r] \in Nat
    BY DEF Calm, CalmType
  <2> QED BY <1>3, <2>1, <2>2, RateSizes, WindowType
<1>5. ASSUME NEW p \in W, NEW q \in W, p # q, f[p] = f[q] PROVE FALSE
  <2>1. turn[p] \in Nat /\ turn[q] \in Nat /\ turn[p] # turn[q]
    BY <1>3, <1>5 DEF Calm, Numbered
  <2>2. turn[p] % MaxEvents = turn[q] % MaxEvents
    BY <1>5
  <2>3. CASE turn[p] < turn[q]
    BY <1>4, <2>1, <2>2, <2>3, WholeRound, RateSizes
  <2>4. CASE turn[q] < turn[p]
    BY <1>4, <2>1, <2>2, <2>4, WholeRound, RateSizes
  <2> QED BY <2>1, <2>3, <2>4
<1>6. f \in [W -> P]
  BY <1>3, PlaceInRound, RateSizes
<1>7. Cardinality(W) \in Nat
  BY <1>1, FS_CardinalityType
<1> HIDE DEF W, f, P
<1>8. ~(Cardinality(P) < Cardinality(W))
  BY <1>1, <1>2, <1>5, <1>6, FS_PigeonHole
<1>9. Cardinality(W) <= MaxEvents
  BY <1>2, <1>7, <1>8, RateSizes
<1> QED BY <1>9 DEF W

LEMMA RateInvInit == RateInit => RateInv
<1> SUFFICES ASSUME RateInit PROVE RateInv
  OBVIOUS
<1>1. \A r \in Requests : ~Live(r) /\ caller[r] = "new"
  BY DEF RateInit, Live
<1>2. CalmType
  BY DEF RateInit, CalmType
<1>3. Numbered /\ OnTime /\ Apart
  BY <1>1 DEF Numbered, OnTime, Apart
<1>4. FileTells
  BY <1>1 DEF RateInit, FileTells, WellSpread, InOrder, Covers
<1> QED BY <1>2, <1>3, <1>4 DEF RateInit, RateInv, Calm

\* However many processes ask, and whoever dies while it waits: the server never sees
\* more than MaxEvents requests in its window, until the clock is set or an awaited
\* ticket is no longer in the file.
THEOREM LimitHolds == RateSpec => []Limit
<1>1. RateInit => RateInv
  BY RateInvInit
<1>2. RateInv /\ [RateNext]_rateVars => RateInv'
  BY RateStep
<1>3. RateInv => Limit
  BY FewInWindow DEF RateInv, Limit
<1> QED BY <1>1, <1>2, <1>3, PTL DEF RateSpec

-----------------------------------------------------------------------------
(* Any day: types, and the queue that never freezes.                       *)

RateType ==
  /\ clock \in Nat
  /\ grants \in Seq(Nat)
  /\ readable \in BOOLEAN
  /\ caller \in [Requests -> {"new", "wait", "sent", "lost"}]
  /\ ticket \in [Requests -> Nat] /\ sentAt \in [Requests -> Nat]
  /\ turn \in [Requests -> Nat] /\ count \in Nat
  /\ upset \in BOOLEAN
  /\ mishaps \in 0..MaxMishaps

\* Of the grants only those not too far are left.
LEMMA NearOnes ==
  ASSUME RateType
  PROVE  /\ Near \in Seq(Nat)
         /\ \A i \in DOMAIN Near : Near[i] <= clock + 4 * Window
<1> DEFINE K == {k \in DOMAIN grants : ~TooFar(grants[k])}
           Nth(i) == CHOOSE k \in K : Cardinality({j \in K : j <= k}) = i
<1>1. K \in SUBSET Nat /\ IsFiniteSet(K) /\ Cardinality(K) \in Nat
  <2>1. DOMAIN grants = 1..Len(grants) /\ Len(grants) \in Nat
    BY DEF RateType
  <2>2. K \in SUBSET (1..Len(grants)) /\ IsFiniteSet(1..Len(grants))
    BY <2>1, FS_Interval
  <2> HIDE DEF K
  <2>3. K \in SUBSET Nat
    BY <2>2
  <2> QED BY <2>2, <2>3, FS_Subset, FS_CardinalityType
<1>2. ASSUME NEW k \in K PROVE grants[k] \in Nat /\ grants[k] <= clock + 4 * Window
  <2>1. k \in 1..Len(grants)
    BY DEF RateType
  <2> QED BY <2>1, WindowType DEF RateType, TooFar
<1> HIDE DEF K
<1>3. ASSUME NEW i \in 1..Cardinality(K) PROVE Nth(i) \in K
  <2> DEFINE v == [k \in K |-> k]
  <2>0. \A k \in K : v[k] = k /\ v[k] \in Nat
    BY <1>1
  <2> HIDE DEF v
  <2>1. PICK k \in K : /\ Cardinality(LowerThan(K, v, k)) < i
                       /\ i <= Cardinality(UpTo(K, v, k))
    BY <1>1, <2>0, Ranked
  <2> DEFINE B == {j \in K : j < k}
             U == {j \in K : j <= k}
  <2>2. B = LowerThan(K, v, k) /\ U = UpTo(K, v, k)
    BY <2>0 DEF LowerThan, UpTo
  <2>3. U = B \cup {k} /\ k \notin B /\ B \in SUBSET K
    <3>1. \A j \in K : j \in Nat /\ k \in Nat
      BY <1>1
    <3>2. \A j \in K : j <= k <=> j < k \/ j = k
      BY <3>1
    <3>3. ~(k < k)
      BY <3>1
    <3> QED BY <3>2, <3>3
  <2>4. IsFiniteSet(B) /\ Cardinality(B) \in Nat
    <3> HIDE DEF B
    <3> QED BY <1>1, <2>3, FS_Subset, FS_CardinalityType
  <2>5. Cardinality(U) = Cardinality(B) + 1
    <3> HIDE DEF B, U
    <3> QED BY <2>3, <2>4, FS_AddElement
  <2>6. Cardinality(U) = i
    <3> HIDE DEF B, U
    <3> QED BY <1>1, <2>1, <2>2, <2>4, <2>5
  <2>7. \E x \in K : Cardinality({j \in K : j <= x}) = i
    BY <2>6
  <2> QED BY <2>7
<1>4. Near = [i \in 1..Cardinality(K) |-> grants[Nth(i)]]
  BY DEF Near, K
<1> HIDE DEF Nth
<1>5. \A i \in 1..Cardinality(K) : grants[Nth(i)] \in Nat /\ grants[Nth(i)] <= clock + 4 * Window
  BY <1>2, <1>3
<1> QED BY <1>1, <1>4, <1>5

\* Every time in a sorted list was in the list.
LEMMA SortedOnes ==
  ASSUME NEW s \in Seq(Nat)
  PROVE  /\ Sorted(s) \in Seq(Nat)
         /\ \A i \in DOMAIN Sorted(s) : \E j \in DOMAIN s : Sorted(s)[i] = s[j]
<1> DEFINE D == DOMAIN s
           At(i) == CHOOSE x \in {s[j] : j \in D} : HasRank(s, x, i)
<1>1. D = 1..Len(s) /\ Len(s) \in Nat /\ \A i \in D : s[i] \in Nat
  OBVIOUS
<1>2. CASE InOrder(s)
  BY <1>2 DEF Sorted
<1>3. CASE ~InOrder(s)
  <2>1. IsFiniteSet(D) /\ Cardinality(D) = Len(s)
    <3>1. /\ IsFiniteSet(1..Len(s))
          /\ Cardinality(1..Len(s)) = IF 1 > Len(s) THEN 0 ELSE Len(s) - 1 + 1
      BY <1>1, FS_Interval
    <3> QED BY <1>1, <3>1
  <2>2. ASSUME NEW i \in D PROVE At(i) \in {s[j] : j \in D}
    <3>1. PICK k \in D : /\ Cardinality(LowerThan(D, s, k)) < i
                         /\ i <= Cardinality(UpTo(D, s, k))
      <4>1. i \in 1..Cardinality(D)
        BY <1>1, <2>1
      <4> HIDE DEF D
      <4> QED BY <1>1, <2>1, <4>1, Ranked
    <3>2. HasRank(s, s[k], i)
      BY <3>1 DEF HasRank, LowerThan, UpTo
    <3>3. \E x \in {s[j] : j \in D} : HasRank(s, x, i)
      BY <3>2
    <3> QED BY <3>3
  <2>3. Sorted(s) = [i \in 1..Len(s) |-> At(i)]
    BY <1>1, <1>3 DEF Sorted
  <2> HIDE DEF At
  <2>4. \A i \in 1..Len(s) : At(i) \in Nat /\ \E j \in D : At(i) = s[j]
    BY <1>1, <2>2
  <2> QED BY <1>1, <2>3, <2>4
<1> QED BY <1>2, <1>3

\* Whatever the file holds, reserve() works on times at most four windows ahead, and
\* grants one at most five windows ahead.
LEMMA NotFar ==
  ASSUME RateType
  PROVE  LET s == Sorted(LoadGrants)
         IN  s \in Seq(Nat) /\ Slot(s) \in Nat /\ Slot(s) <= clock + 5 * Window
<1>0. clock \in Nat /\ grants \in Seq(Nat) /\ Window \in Nat \ {0} /\ MaxEvents \in Nat \ {0}
  BY WindowType, RateSizes DEF RateType
<1>1. /\ LoadGrants \in Seq(Nat)
      /\ \A i \in DOMAIN LoadGrants : LoadGrants[i] <= clock + 4 * Window
  <2>1. CASE ~readable
    <3>1. LoadGrants = [i \in 1..MaxEvents |-> clock]
      BY <2>1 DEF LoadGrants
    <3> QED BY <1>0, <3>1
  <2>2. CASE readable /\ Crowded
    BY <2>2, NearOnes DEF LoadGrants
  <2>3. CASE readable /\ ~Crowded
    <3>1. LoadGrants = grants
      BY <2>3 DEF LoadGrants
    <3>2. \A i \in DOMAIN grants : grants[i] \in Nat /\ ~TooFar(grants[i])
      BY <1>0, <2>3 DEF Crowded
    <3> QED BY <1>0, <3>1, <3>2 DEF TooFar
  <2> QED BY <2>1, <2>2, <2>3
<1> DEFINE s == Sorted(LoadGrants)
<1>2. /\ s \in Seq(Nat)
      /\ \A i \in DOMAIN s : s[i] \in Nat /\ s[i] <= clock + 4 * Window
  <2>1. s \in Seq(Nat) /\ \A i \in DOMAIN s : \E j \in DOMAIN LoadGrants : s[i] = LoadGrants[j]
    BY <1>1, SortedOnes
  <2> HIDE DEF s
  <2> QED BY <1>1, <2>1
<1> HIDE DEF s
<1>6. \A x \in Nat : x <= clock + 4 * Window => x + Window <= clock + 5 * Window
  BY <1>0
<1>3. ASSUME Len(s) >= MaxEvents, s[Len(s) + 1 - MaxEvents] + Window > clock
      PROVE  Slot(s) \in Nat /\ Slot(s) <= clock + 5 * Window
  <2>1. Len(s) + 1 - MaxEvents \in DOMAIN s
    BY <1>0, <1>2, <1>3
  <2>2. s[Len(s) + 1 - MaxEvents] \in Nat /\ s[Len(s) + 1 - MaxEvents] <= clock + 4 * Window
    BY <1>2, <2>1
  <2>3. Slot(s) = s[Len(s) + 1 - MaxEvents] + Window
    BY <1>3 DEF Slot
  <2>4. s[Len(s) + 1 - MaxEvents] + Window \in Nat
    BY <1>0, <2>2
  <2> QED BY <1>2, <1>6, <2>2, <2>3, <2>4
<1>4. ASSUME ~(Len(s) >= MaxEvents /\ s[Len(s) + 1 - MaxEvents] + Window > clock)
      PROVE  Slot(s) \in Nat /\ Slot(s) <= clock + 5 * Window
  <2>1. Slot(s) = clock
    BY <1>4 DEF Slot
  <2>2. clock <= clock + 5 * Window
    BY <1>0
  <2> QED BY <1>0, <1>2, <2>1, <2>2
<1>5. s \in Seq(Nat) /\ Slot(s) \in Nat /\ Slot(s) <= clock + 5 * Window
  BY <1>2, <1>3, <1>4
<1> QED BY <1>5 DEF s

LEMMA TypeInit == RateInit => RateType
<1> SUFFICES ASSUME RateInit PROVE RateType
  OBVIOUS
<1>1. clock \in Nat /\ grants \in Seq(Nat) /\ count \in Nat /\ mishaps \in 0..MaxMishaps
  BY RateSizes DEF RateInit
<1>2. readable \in BOOLEAN /\ upset \in BOOLEAN
  BY DEF RateInit
<1>3. /\ caller \in [Requests -> {"new", "wait", "sent", "lost"}]
      /\ ticket \in [Requests -> Nat] /\ sentAt \in [Requests -> Nat]
      /\ turn \in [Requests -> Nat]
  BY DEF RateInit
<1> QED BY <1>1, <1>2, <1>3 DEF RateType

LEMMA TypeStep == RateType /\ [RateNext]_rateVars => RateType'
<1> SUFFICES ASSUME RateType, [RateNext]_rateVars PROVE RateType'
  OBVIOUS
<1>1. ASSUME NEW r \in Requests, Reserve(r) PROVE RateType'
  <2> DEFINE t == Slot(Sorted(LoadGrants))
             k == Kept(Append(Sorted(LoadGrants), t))
  <2>1. t \in Nat /\ k \in Seq(Nat)
    <3>1. Sorted(LoadGrants) \in Seq(Nat) /\ t \in Nat
      BY NotFar
    <3> HIDE DEF t
    <3>2. Append(Sorted(LoadGrants), t) \in Seq(Nat)
      BY <3>1
    <3> QED BY <3>1, <3>2, KeptEnd
  <2>2. /\ grants' = k /\ ticket' = [ticket EXCEPT ![r] = t]
        /\ readable' = TRUE /\ caller' = [caller EXCEPT ![r] = "wait"]
        /\ turn' = [turn EXCEPT ![r] = count + 1] /\ count' = count + 1
        /\ upset' = (upset \/ (readable /\ Crowded))
        /\ UNCHANGED <<clock, sentAt, mishaps>>
    BY <1>1 DEF Reserve
  <2>3. upset' \in BOOLEAN
    BY <2>2 DEF RateType
  <2> HIDE DEF t, k
  <2> QED BY <2>1, <2>2, <2>3 DEF RateType
<1>2. ASSUME NEW r \in Requests, Send(r) PROVE RateType'
  BY <1>2 DEF Send, RateType
<1>3. ASSUME NEW r \in Requests, Die(r) PROVE RateType'
  BY <1>3 DEF Die, RateType
<1>4. CASE Tick
  BY <1>4 DEF Tick, RateType
<1>5. CASE Jump
  BY <1>5, RateSizes DEF Jump, Mishap, RateType
<1>6. CASE Damage
  <2>1. upset' \in BOOLEAN
    BY <1>6 DEF Damage, RateType
  <2>2. mishaps' \in 0..MaxMishaps
    BY <1>6, RateSizes DEF Damage, Mishap, RateType
  <2> QED BY <1>6, <2>1, <2>2 DEF Damage, RateType
<1>7. CASE UNCHANGED rateVars
  BY <1>7 DEF rateVars, RateType
<1> QED BY <1>1, <1>2, <1>3, <1>4, <1>5, <1>6, <1>7 DEF RateNext

\* The queue never freezes: whatever was done to the clock and the file, whoever asks
\* is told a time at most five windows ahead.
THEOREM NeverFreezes == RateSpec => NoFreeze
<1> DEFINE Soon == \A r \in Requests :
                     caller[r] = "new" /\ caller'[r] = "wait" => ticket'[r] <= clock + 5 * Window
<1>1. RateType /\ [RateNext]_rateVars => [Soon]_rateVars
  <2> SUFFICES ASSUME RateType, RateNext, NEW r \in Requests,
                      caller[r] = "new", caller'[r] = "wait"
               PROVE  ticket'[r] <= clock + 5 * Window
    OBVIOUS
  <2>1. Reserve(r)
    BY DEF RateNext, RateType, Reserve, Send, Die, Tick, Jump, Damage
  <2>2. ticket'[r] = Slot(Sorted(LoadGrants))
    BY <2>1 DEF Reserve, RateType
  <2> QED BY <2>2, NotFar
<1> QED BY <1>1, TypeInit, TypeStep, PTL DEF RateSpec, NoFreeze

-----------------------------------------------------------------------------
(* A queue that is short enough.  While at most four rounds of requests    *)
(* have a time that has not come, no time is taken for that of a clock     *)
(* that jumped, so nothing is ever dropped.                                *)

\* Requests, of living and of dead processes, whose time has not come.
Ahead == {r \in Requests : caller[r] \in {"wait", "lost"} /\ ticket[r] > clock}

\* No mishap so far, and at most four rounds of requests are ahead of the clock.
ShortQueue == mishaps = MaxMishaps /\ Cardinality(Ahead) <= 4 * MaxEvents

Taken(r) == caller[r] # "new"

\* Every number up to the last is one request's.
Turns ==
  /\ \A r \in Requests : Taken(r) => turn[r] \in 1..count
  /\ \A n \in 1..count : \E r \in Requests : Taken(r) /\ turn[r] = n
  /\ \A q, r \in Requests : Taken(q) /\ Taken(r) /\ turn[q] = turn[r] => q = r

\* The times go by turns, and a round later is a window later.
Queued ==
  \A q, r \in Requests : Taken(q) /\ Taken(r) =>
    /\ turn[q] <= turn[r] => ticket[q] <= ticket[r]
    /\ turn[r] = turn[q] + MaxEvents => ticket[r] >= ticket[q] + Window

\* A time that has not come is exactly a window after that of a round before.
Chained ==
  \A r \in Requests : Taken(r) /\ ticket[r] > clock =>
    \E q \in Requests : /\ Taken(q) /\ turn[r] = turn[q] + MaxEvents
                        /\ ticket[r] = ticket[q] + Window

\* The file holds the last times, four rounds of them or all.
Listed ==
  /\ Len(grants) <= count
  /\ Len(grants) = count \/ Len(grants) = 4 * MaxEvents
  /\ \A r \in Requests, i \in 0..(Len(grants) - 1) :
       Taken(r) /\ turn[r] + i = count => grants[Len(grants) - i] = ticket[r]

InLine == Calm /\ readable /\ Turns /\ Queued /\ Chained /\ Listed

LineInv == RateType /\ InLine

LEMMA LineInit == RateInit => LineInv
<1> SUFFICES ASSUME RateInit PROVE LineInv
  OBVIOUS
<1>1. \A r \in Requests : ~Taken(r) /\ ~Live(r) /\ caller[r] = "new"
  BY DEF RateInit, Taken, Live
<1>2. Turns /\ Queued /\ Chained /\ Listed
  BY <1>1 DEF RateInit, Turns, Queued, Chained, Listed
<1>3. Calm
  BY RateInvInit DEF RateInit, RateInv
<1> QED BY <1>2, <1>3, TypeInit DEF LineInv, InLine, RateInit

\* A time too far ahead has four whole rounds of requests before it that are ahead.
LEMMA CrowdIsAhead ==
  ASSUME RateType, InLine, Crowded
  PROVE  Cardinality(Ahead) > 4 * MaxEvents
<1>0. /\ clock \in Nat /\ count \in Nat /\ Window \in Nat \ {0} /\ MaxEvents \in Nat \ {0}
      /\ \A r \in Requests : turn[r] \in Nat /\ ticket[r] \in Nat
      /\ Len(grants) \in Nat /\ Len(grants) <= count
  BY RateSizes, WindowType DEF RateType, InLine, Listed
<1>1. PICK i \in 1..Len(grants) : grants[i] > clock + 4 * Window
  BY DEF Crowded, TooFar, RateType
<1>2. PICK r \in Requests : Taken(r) /\ turn[r] = count - (Len(grants) - i)
  <2>1. count - (Len(grants) - i) \in 1..count
    BY <1>0
  <2> QED BY <2>1 DEF InLine, Turns
<1>3. ticket[r] = grants[i]
  <2>1. /\ Len(grants) - i \in 0..(Len(grants) - 1)
        /\ turn[r] + (Len(grants) - i) = count
        /\ Len(grants) - (Len(grants) - i) = i
    BY <1>0, <1>2
  <2> QED BY <1>2, <2>1 DEF InLine, Listed
<1>4. ASSUME NEW a \in Requests, Taken(a), ticket[a] > clock
      PROVE  \E b \in Requests : /\ Taken(b) /\ turn[a] = turn[b] + MaxEvents
                                 /\ ticket[a] = ticket[b] + Window
  BY <1>4 DEF InLine, Chained
<1>5. PICK a \in Requests : /\ Taken(a) /\ turn[r] = turn[a] + 4 * MaxEvents
                            /\ ticket[a] > clock
  <2>0. ticket[r] > clock + 4 * Window
    BY <1>1, <1>3
  <2>1. PICK b \in Requests : /\ Taken(b) /\ turn[r] = turn[b] + MaxEvents
                              /\ ticket[r] = ticket[b] + Window
    BY <1>0, <1>2, <1>4, <2>0
  <2>2. ticket[b] > clock + 3 * Window /\ ticket[b] > clock
    BY <1>0, <2>0, <2>1
  <2>3. PICK c \in Requests : /\ Taken(c) /\ turn[b] = turn[c] + MaxEvents
                              /\ ticket[b] = ticket[c] + Window
    BY <1>4, <2>1, <2>2
  <2>4. ticket[c] > clock + 2 * Window /\ ticket[c] > clock
    BY <1>0, <2>2, <2>3
  <2>5. PICK d \in Requests : /\ Taken(d) /\ turn[c] = turn[d] + MaxEvents
                              /\ ticket[c] = ticket[d] + Window
    BY <1>4, <2>3, <2>4
  <2>6. ticket[d] > clock + Window /\ ticket[d] > clock
    BY <1>0, <2>4, <2>5
  <2>7. PICK e \in Requests : /\ Taken(e) /\ turn[d] = turn[e] + MaxEvents
                              /\ ticket[d] = ticket[e] + Window
    BY <1>4, <2>5, <2>6
  <2>8. ticket[e] > clock
    BY <1>0, <2>6, <2>7
  <2>9. turn[r] = turn[e] + 4 * MaxEvents
    BY <1>0, <2>1, <2>3, <2>5, <2>7
  <2> QED BY <2>7, <2>8, <2>9
<1> DEFINE N == turn[a]..turn[r]
           Who(n) == CHOOSE q \in Requests : Taken(q) /\ turn[q] = n
           f == [n \in N |-> Who(n)]
<1>6. turn[a] \in 1..count /\ turn[r] \in 1..count /\ N \subseteq 1..count
  <2>1. turn[a] \in 1..count /\ turn[r] \in 1..count
    BY <1>2, <1>5 DEF InLine, Turns
  <2> QED BY <1>0, <2>1
<1>7. ASSUME NEW n \in N PROVE Who(n) \in Requests /\ Taken(Who(n)) /\ turn[Who(n)] = n
  <2>1. \E q \in Requests : Taken(q) /\ turn[q] = n
    BY <1>6 DEF InLine, Turns
  <2> QED BY <2>1
<1> HIDE DEF Who
<1>8. ASSUME NEW n \in N PROVE Who(n) \in Ahead
  <2>1. turn[a] <= turn[Who(n)]
    BY <1>0, <1>7
  <2>2. ticket[a] <= ticket[Who(n)]
    BY <1>5, <1>7, <2>1 DEF InLine, Queued
  <2>3. ticket[Who(n)] > clock
    BY <1>0, <1>5, <1>7, <2>2
  <2>4. caller[Who(n)] # "sent"
    <3>1. caller[Who(n)] = "sent" => ticket[Who(n)] <= sentAt[Who(n)] /\ sentAt[Who(n)] <= clock
      BY <1>7 DEF InLine, Calm, OnTime
    <3>2. sentAt[Who(n)] \in Nat
      BY <1>7 DEF RateType
    <3> QED BY <1>0, <1>7, <2>3, <3>1, <3>2
  <2>5. caller[Who(n)] \in {"new", "wait", "sent", "lost"}
    BY <1>7 DEF RateType
  <2> QED BY <1>7, <2>3, <2>4, <2>5 DEF Ahead, Taken
<1>9. IsFiniteSet(N) /\ Cardinality(N) = 4 * MaxEvents + 1
  <2>1. turn[a] \in Int /\ turn[r] \in Int /\ ~(turn[a] > turn[r])
          /\ turn[r] - turn[a] + 1 = 4 * MaxEvents + 1
    BY <1>0, <1>5
  <2> QED BY <2>1, FS_Interval
<1>10. IsFiniteSet(Ahead) /\ Cardinality(Ahead) \in Nat
  <2>1. Ahead \in SUBSET Requests
    BY DEF Ahead
  <2> QED BY <2>1, RateSizes, FS_Subset, FS_CardinalityType
<1>11. f \in [N -> Ahead]
  BY <1>8
<1>12. ASSUME NEW m \in N, NEW n \in N, m # n, f[m] = f[n] PROVE FALSE
  BY <1>7, <1>12
<1> HIDE DEF N, f
<1>13. ~(Cardinality(Ahead) < Cardinality(N))
  BY <1>9, <1>10, <1>11, <1>12, FS_PigeonHole
<1> QED BY <1>0, <1>9, <1>10, <1>13

\* A request joins the line.
LEMMA JoinStep ==
  ASSUME RateType, InLine, ~Crowded, NEW r \in Requests, Reserve(r)
  PROVE  InLine'
<1> DEFINE s == grants
           t == Slot(grants)
           k == Kept(Append(grants, t))
<1>0. /\ clock \in Nat /\ count \in Nat /\ Window \in Nat \ {0} /\ MaxEvents \in Nat \ {0}
      /\ \A q \in Requests : turn[q] \in Nat /\ ticket[q] \in Nat
      /\ grants \in Seq(Nat) /\ Len(grants) \in Nat
  BY RateSizes, WindowType DEF RateType
<1>1. LoadGrants = grants /\ Sorted(grants) = grants /\ WellSpread(grants) /\ CalmType
  BY DEF InLine, Calm, FileTells, WellSpread, LoadGrants, Sorted
<1>2. /\ caller[r] = "new"
      /\ grants' = k /\ ticket' = [ticket EXCEPT ![r] = t]
      /\ readable' = TRUE /\ caller' = [caller EXCEPT ![r] = "wait"]
      /\ turn' = [turn EXCEPT ![r] = count + 1] /\ count' = count + 1
      /\ UNCHANGED <<clock, sentAt, mishaps>>
      /\ upset' = (upset \/ (readable /\ Crowded))
  BY <1>1 DEF Reserve
<1>3. /\ t \in Nat /\ clock <= t
      /\ Len(s) > 0 => s[Len(s)] <= t
      /\ Len(s) >= MaxEvents => s[Len(s) + 1 - MaxEvents] + Window <= t
      /\ \/ t = clock
         \/ Len(s) >= MaxEvents /\ t = s[Len(s) + 1 - MaxEvents] + Window
  BY <1>0, <1>1, NextTime
<1>4. /\ k \in Seq(Nat) /\ Len(k) \in Nat /\ Len(k) <= Len(s) + 1
      /\ Len(k) = Len(s) + 1 \/ Len(k) = 4 * MaxEvents
      /\ Len(k) <= 4 * MaxEvents
      /\ \A i \in 0..(Len(k) - 1) : k[Len(k) - i] = Append(s, t)[Len(s) + 1 - i]
  <2> HIDE DEF t
  <2> DEFINE a == Append(s, t)
  <2>1. a \in Seq(Nat) /\ Len(a) = Len(s) + 1
    BY <1>0, <1>3
  <2>2. k = Kept(a)
    OBVIOUS
  <2> HIDE DEF a, k
  <2>3. /\ k \in Seq(Nat) /\ Len(k) <= Len(a)
        /\ Len(k) = Len(a) \/ Len(k) = 4 * MaxEvents
        /\ Len(k) <= 4 * MaxEvents
        /\ \A i \in 0..(Len(k) - 1) : k[Len(k) - i] = a[Len(a) - i]
    BY <2>1, <2>2, KeptEnd
  <2>4. Len(k) \in Nat
    BY <2>3
  <2>5. \A i \in 0..(Len(k) - 1) : k[Len(k) - i] = a[Len(s) + 1 - i]
    BY <2>1, <2>3
  <2>6. Len(k) <= Len(s) + 1 /\ (Len(k) = Len(s) + 1 \/ Len(k) = 4 * MaxEvents)
    BY <2>1, <2>3
  <2>7. \A i \in 0..(Len(k) - 1) : k[Len(k) - i] = Append(s, t)[Len(s) + 1 - i]
    BY <2>5 DEF a
  <2> QED BY <2>3, <2>4, <2>6, <2>7
<1>5. /\ Append(s, t)[Len(s) + 1] = t
      /\ \A i \in 1..Len(s) : Append(s, t)[i] = s[i]
  BY <1>0, <1>3, AppendProperties
<1>6. Calm'
  <2>1. upset' = FALSE
    BY <1>2 DEF InLine, Calm, CalmType
  <2> QED BY <2>1, ReserveStep DEF InLine
<1> HIDE DEF t, k
<1>7. /\ \A q \in Requests : q # r => /\ Taken(q)' <=> Taken(q)
                                      /\ turn'[q] = turn[q] /\ ticket'[q] = ticket[q]
      /\ ~Taken(r) /\ Taken(r)' /\ turn'[r] = count + 1 /\ ticket'[r] = t
  BY <1>2 DEF RateType, Taken
<1>8. \A q \in Requests : Taken(q) => turn[q] \in 1..count
  BY DEF InLine, Turns
<1>9. Len(s) <= count /\ (Len(s) = count \/ Len(s) = 4 * MaxEvents)
  BY DEF InLine, Listed
<1>10. ASSUME NEW q \in Requests, Taken(q), NEW i \in 0..(Len(s) - 1), turn[q] + i = count
       PROVE  s[Len(s) - i] = ticket[q]
  BY <1>10 DEF InLine, Listed
<1>11. Turns'
  <2>1. \A q \in Requests : Taken(q)' => turn'[q] \in 1..count'
    BY <1>0, <1>2, <1>7, <1>8
  <2>2. ASSUME NEW n \in 1..count' PROVE \E q \in Requests : Taken(q)' /\ turn'[q] = n
    <3>1. CASE n = count + 1
      BY <1>7, <3>1
    <3>2. CASE n # count + 1
      <4>1. n \in 1..count
        BY <1>0, <1>2, <3>2
      <4>2. PICK q \in Requests : Taken(q) /\ turn[q] = n
        BY <4>1 DEF InLine, Turns
      <4> QED BY <1>7, <4>2
    <3> QED BY <3>1, <3>2
  <2>3. \A p, q \in Requests : Taken(p)' /\ Taken(q)' /\ turn'[p] = turn'[q] => p = q
    <3>1. \A q \in Requests : Taken(q) => turn[q] # count + 1
      BY <1>0, <1>8
    <3> QED BY <1>7, <3>1 DEF InLine, Turns
  <2> QED BY <2>1, <2>2, <2>3 DEF Turns
<1>12. ASSUME NEW q \in Requests, Taken(q) PROVE ticket[q] <= t
  <2>1. count \in 1..count
    BY <1>0, <1>8, <1>12
  <2>2. PICK z \in Requests : Taken(z) /\ turn[z] = count
    BY <2>1 DEF InLine, Turns
  <2>3. 0 \in 0..(Len(s) - 1) /\ turn[z] + 0 = count /\ Len(s) > 0 /\ Len(s) - 0 = Len(s)
    BY <1>0, <1>9, <2>1, <2>2
  <2>4. s[Len(s)] = ticket[z]
    BY <1>10, <2>2, <2>3
  <2>5. turn[q] <= turn[z]
    BY <1>0, <1>8, <1>12, <2>2
  <2>6. ticket[q] <= ticket[z]
    BY <1>12, <2>2, <2>5 DEF InLine, Queued
  <2> QED BY <1>0, <1>3, <2>3, <2>4, <2>6
<1>13. \A q \in Requests :
         Taken(q) /\ turn[q] + MaxEvents = count + 1
           => Len(s) >= MaxEvents /\ s[Len(s) + 1 - MaxEvents] = ticket[q]
  <2> SUFFICES ASSUME NEW q \in Requests, Taken(q), turn[q] + MaxEvents = count + 1
               PROVE  Len(s) >= MaxEvents /\ s[Len(s) + 1 - MaxEvents] = ticket[q]
    OBVIOUS
  <2>1. turn[q] \in 1..count
    BY <1>8
  <2>2. Len(s) >= MaxEvents
    BY <1>0, <1>9, <2>1
  <2>3. /\ MaxEvents - 1 \in 0..(Len(s) - 1) /\ turn[q] + (MaxEvents - 1) = count
        /\ Len(s) - (MaxEvents - 1) = Len(s) + 1 - MaxEvents
    <3>1. turn[q] \in Nat /\ MaxEvents \in Nat /\ MaxEvents > 0 /\ Len(s) \in Nat /\ count \in Nat
      BY <1>0
    <3> QED BY <2>2, <3>1
  <2> QED BY <1>10, <2>2, <2>3
<1>14. Queued'
  <2> SUFFICES ASSUME NEW p \in Requests, NEW q \in Requests, Taken(p)', Taken(q)'
               PROVE  /\ turn'[p] <= turn'[q] => ticket'[p] <= ticket'[q]
                      /\ turn'[q] = turn'[p] + MaxEvents => ticket'[q] >= ticket'[p] + Window
    BY DEF Queued
  <2>1. CASE p # r /\ q # r
    BY <1>7, <2>1 DEF InLine, Queued
  <2>2. CASE p = r
    <3>1. CASE q = r
      BY <1>0, <1>3, <1>7, <2>2, <3>1
    <3>2. CASE q # r
      <4>1. turn[q] \in 1..count
        BY <1>7, <1>8, <3>2
      <4>2. ~(turn'[p] <= turn'[q]) /\ turn'[q] # turn'[p] + MaxEvents
        BY <1>0, <1>7, <2>2, <3>2, <4>1
      <4> QED BY <4>2
    <3> QED BY <3>1, <3>2
  <2>3. CASE p # r /\ q = r
    <3>1. Taken(p) /\ ticket'[p] = ticket[p] /\ ticket'[q] = t
            /\ turn'[p] = turn[p] /\ turn'[q] = count + 1
      BY <1>7, <2>3
    <3>2. ticket[p] <= t
      BY <1>12, <3>1
    <3>3. turn[p] + MaxEvents = count + 1 => ticket[p] + Window <= t
      BY <1>3, <1>13, <3>1
    <3> QED BY <1>0, <1>3, <3>1, <3>2, <3>3
  <2> QED BY <2>1, <2>2, <2>3
<1>15. Chained'
  <2> SUFFICES ASSUME NEW q \in Requests, Taken(q)', ticket'[q] > clock'
               PROVE  \E p \in Requests : /\ Taken(p)' /\ turn'[q] = turn'[p] + MaxEvents
                                          /\ ticket'[q] = ticket'[p] + Window
    BY DEF Chained
  <2>1. CASE q # r
    <3>1. PICK p \in Requests : /\ Taken(p) /\ turn[q] = turn[p] + MaxEvents
                                /\ ticket[q] = ticket[p] + Window
      BY <1>2, <1>7, <2>1 DEF InLine, Chained
    <3> QED BY <1>7, <2>1, <3>1
  <2>2. CASE q = r
    <3>1. Len(s) >= MaxEvents /\ t = s[Len(s) + 1 - MaxEvents] + Window
      BY <1>0, <1>2, <1>3, <1>7, <2>2
    <3>2. count + 1 - MaxEvents \in 1..count
      BY <1>0, <1>9, <3>1
    <3>3. PICK p \in Requests : Taken(p) /\ turn[p] = count + 1 - MaxEvents
      BY <3>2 DEF InLine, Turns
    <3>4. turn[p] + MaxEvents = count + 1
      BY <1>0, <3>3
    <3>5. ticket[p] = s[Len(s) + 1 - MaxEvents]
      BY <1>13, <3>3, <3>4
    <3> QED BY <1>7, <2>2, <3>1, <3>3, <3>4, <3>5
  <2> QED BY <2>1, <2>2
<1>16. Listed'
  <2>1. Len(k) <= count + 1 /\ (Len(k) = count + 1 \/ Len(k) = 4 * MaxEvents)
    <3>1. Len(s) \in Nat /\ count \in Nat /\ MaxEvents \in Nat /\ Len(k) \in Nat
      BY <1>0, <1>4
    <3> QED BY <1>4, <1>9, <3>1
  <2>2. ASSUME NEW q \in Requests, Taken(q)', NEW i \in 0..(Len(k) - 1), turn'[q] + i = count + 1
        PROVE  k[Len(k) - i] = ticket'[q]
    <3>0. i \in Nat /\ i <= Len(s)
      BY <1>0, <1>4
    <3>1. k[Len(k) - i] = Append(s, t)[Len(s) + 1 - i]
      BY <1>4
    <3>2. CASE q = r
      <4>1. i = 0 /\ Len(s) + 1 - i = Len(s) + 1
        BY <1>0, <1>7, <2>2, <3>0, <3>2
      <4> QED BY <1>5, <1>7, <3>1, <3>2, <4>1
    <3>3. CASE q # r
      <4>1. Taken(q) /\ turn'[q] = turn[q] /\ ticket'[q] = ticket[q] /\ turn[q] \in 1..count
        BY <1>7, <1>8, <2>2, <3>3
      <4>0. turn[q] \in Nat /\ turn[q] <= count /\ count \in Nat /\ Len(s) \in Nat
              /\ turn[q] + i = count + 1
        BY <1>0, <2>2, <4>1
      <4>2. i >= 1 /\ i - 1 \in 0..(Len(s) - 1) /\ turn[q] + (i - 1) = count
        BY <3>0, <4>0
      <4>3. s[Len(s) - (i - 1)] = ticket[q]
        BY <1>10, <4>1, <4>2
      <4>4. Len(s) + 1 - i \in 1..Len(s) /\ Len(s) - (i - 1) = Len(s) + 1 - i
        BY <1>0, <3>0, <4>2
      <4> QED BY <1>5, <3>1, <4>1, <4>3, <4>4
    <3> QED BY <3>2, <3>3
  <2> QED BY <1>2, <2>1, <2>2 DEF Listed
<1> QED BY <1>2, <1>6, <1>11, <1>14, <1>15, <1>16 DEF InLine

\* No other step touches the line.
LEMMA LineKept ==
  ASSUME RateType, InLine, Calm',
         UNCHANGED <<grants, readable, ticket, turn, count>>, clock' >= clock, clock' \in Nat,
         \A r \in Requests : Taken(r)' <=> Taken(r)
  PROVE  InLine'
<1>1. Turns'
  BY DEF InLine, Turns
<1>2. Queued'
  BY DEF InLine, Queued
<1>3. Chained'
  <2> SUFFICES ASSUME NEW q \in Requests, Taken(q)', ticket'[q] > clock'
               PROVE  \E p \in Requests : /\ Taken(p)' /\ turn'[q] = turn'[p] + MaxEvents
                                          /\ ticket'[q] = ticket'[p] + Window
    BY DEF Chained
  <2>1. Taken(q) /\ ticket[q] > clock
    BY DEF RateType
  <2> QED BY <2>1 DEF InLine, Chained
<1>4. Listed'
  BY DEF InLine, Listed
<1> QED BY <1>1, <1>2, <1>3, <1>4 DEF InLine

LEMMA LineStep ==
  LineInv /\ ShortQueue /\ ShortQueue' /\ [RateNext]_rateVars => LineInv'
<1> SUFFICES ASSUME LineInv, ShortQueue, ShortQueue', [RateNext]_rateVars PROVE InLine'
  BY TypeStep DEF LineInv
<1>0. RateType /\ RateType' /\ InLine /\ Calm /\ ~Crowded
  <2>1. Cardinality(Ahead) <= 4 * MaxEvents
    BY DEF ShortQueue
  <2>2. Cardinality(Ahead) \in Nat /\ 4 * MaxEvents \in Nat
    <3>1. Ahead \in SUBSET Requests
      BY DEF Ahead
    <3> QED BY <3>1, RateSizes, FS_Subset, FS_CardinalityType
  <2> QED BY <2>1, <2>2, TypeStep, CrowdIsAhead DEF LineInv, InLine
<1>1. ASSUME NEW r \in Requests, Reserve(r) PROVE InLine'
  BY <1>0, <1>1, JoinStep
<1>2. ASSUME NEW r \in Requests, Send(r) \/ Die(r) PROVE InLine'
  <2>1. Calm'
    BY <1>0, <1>2, LeaveStep
  <2>2. \A q \in Requests : Taken(q)' <=> Taken(q)
    BY <1>0, <1>2 DEF Send, Die, Taken, RateType
  <2>3. UNCHANGED <<grants, readable, ticket, turn, count>> /\ clock' = clock
    BY <1>2 DEF Send, Die
  <2> QED BY <1>0, <2>1, <2>2, <2>3, LineKept DEF RateType
<1>3. ASSUME Tick PROVE InLine'
  <2>1. Calm'
    BY <1>0, <1>3, TickStep
  <2>2. /\ UNCHANGED <<grants, readable, ticket, turn, count>> /\ clock' >= clock /\ clock' \in Nat
        /\ \A q \in Requests : Taken(q)' <=> Taken(q)
    BY <1>0, <1>3 DEF Tick, RateType, Taken
  <2> QED BY <1>0, <2>1, <2>2, LineKept
<1>4. ~(Jump \/ Damage)
  <2>1. mishaps' = mishaps /\ mishaps \in Nat
    BY <1>0, RateSizes DEF ShortQueue, RateType
  <2> QED BY <2>1 DEF Jump, Damage, Mishap
<1>5. ASSUME UNCHANGED rateVars PROVE InLine'
  <2>1. Calm'
    BY <1>0, <1>5 DEF rateVars, Calm, CalmType, Numbered, FileTells, WellSpread, InOrder,
       Covers, OnTime, Apart, Live
  <2>2. /\ UNCHANGED <<grants, readable, ticket, turn, count>> /\ clock' >= clock /\ clock' \in Nat
        /\ \A q \in Requests : Taken(q)' <=> Taken(q)
    BY <1>0, <1>5 DEF rateVars, RateType, Taken
  <2> QED BY <1>0, <2>1, <2>2, LineKept
<1> QED BY <1>1, <1>2, <1>3, <1>4, <1>5 DEF RateNext

LEMMA ShortQueueInLine == RateSpec /\ []ShortQueue => []LineInv
BY LineInit, LineStep, PTL DEF RateSpec

\* The promise Spaced, which a queue of more than four rounds can break, is kept by every
\* shorter one, whoever of those in it dies.
THEOREM ShortQueueKeepsPace == RateSpec /\ []ShortQueue => []Spaced
<1>1. LineInv => Spaced
  <2> SUFFICES ASSUME InLine, NEW q \in Requests, NEW r \in Requests,
                      "new" \notin {caller[q], caller[r]}, turn[r] = turn[q] + MaxEvents
               PROVE  ticket[r] >= ticket[q] + Window
    BY DEF LineInv, Spaced
  <2> QED BY DEF InLine, Queued, Taken
<1> QED BY <1>1, ShortQueueInLine, PTL

\* The limit without its exception: in a short queue nothing upsets the file, and no
\* window of the server sees more than MaxEvents requests.
THEOREM ShortQueueKeepsLimit == RateSpec /\ []ShortQueue => [](~upset /\ Limit)
<1>1. LineInv => ~upset
  BY DEF LineInv, InLine, Calm, CalmType
<1> QED BY <1>1, ShortQueueInLine, LimitHolds, PTL

=============================================================================
