--------------------------- MODULE SpeedTicketsProofs ---------------------------
(***************************************************************************)
(* Proofs about SpeedTickets, for any plates, cameras and times: the lists *)
(* of observations stay in order, a car is ticketed once for a day, and    *)
(* days are taken for a reason and not forgotten.                          *)
(***************************************************************************)
EXTENDS SpeedTickets, FiniteSetTheorems, TLAPS

-----------------------------------------------------------------------------
(* Inserting an observation.                                               *)

LEMMA TimesAreNumbers ==
  /\ \A o \in Observations : o.timestamp \in Timestamps /\ o.timestamp \in Nat
  /\ \A s \in Seq(Observations) : /\ DOMAIN s = 1..Len(s) /\ Len(s) \in Nat
                                  /\ \A i \in 1..Len(s) : s[i] \in Observations
<1>1. Timestamps \subseteq Nat
  BY TicketsAssumption DEF TicketsAssumption
<1>2. \A o \in Observations : o.timestamp \in Timestamps
  BY DEF Observations
<1>3. ASSUME NEW s \in Seq(Observations)
      PROVE  /\ DOMAIN s = 1..Len(s) /\ Len(s) \in Nat
             /\ \A i \in 1..Len(s) : s[i] \in Observations
  OBVIOUS
<1> QED
  BY <1>1, <1>2, <1>3

(* In an ordered list those that are not later than o are the first ones.  *)
LEMMA BeforeIsPrefix ==
  ASSUME NEW s \in Seq(Observations), Sorted(s), NEW o \in Observations
  PROVE  LET before == {i \in DOMAIN s : s[i].timestamp <= o.timestamp}
         IN  /\ Cardinality(before) \in 0..Len(s)
             /\ \A i \in DOMAIN s : i \in before <=> i <= Cardinality(before)
<1> DEFINE before == {i \in DOMAIN s : s[i].timestamp <= o.timestamp}
           k == Cardinality(before)
<1>1. /\ DOMAIN s = 1..Len(s) /\ Len(s) \in Nat
      /\ o.timestamp \in Nat /\ \A i \in 1..Len(s) : s[i].timestamp \in Nat
  BY TimesAreNumbers
<1>2. /\ IsFiniteSet(1..Len(s)) /\ Cardinality(1..Len(s)) = Len(s)
      /\ \A i \in 1..Len(s) : /\ IsFiniteSet(1..i) /\ Cardinality(1..i) = i
                              /\ IsFiniteSet(1..(i - 1))
                              /\ Cardinality(1..(i - 1)) = i - 1
  <2>1. \A i \in Nat : IsFiniteSet(1..i) /\ Cardinality(1..i) = i
    BY FS_Interval
  <2>2. \A i \in 1..Len(s) : i \in Nat /\ i - 1 \in Nat
    BY <1>1
  <2> QED
    BY <1>1, <2>1, <2>2
<1>3. IsFiniteSet(before) /\ k \in Nat /\ k <= Len(s)
  BY <1>1, <1>2, FS_Subset, FS_CardinalityType
<1>4. ASSUME NEW i \in 1..Len(s), i \in before PROVE i <= k
  <2>1. 1..i \subseteq before
    <3> SUFFICES ASSUME NEW j \in 1..i PROVE j \in before
      OBVIOUS
    <3>1. j \in 1..Len(s) /\ (j = i \/ j < i)
      BY <1>1
    <3>2. s[j].timestamp <= s[i].timestamp
      BY <1>1, <3>1 DEF Sorted
    <3>3. s[i].timestamp <= o.timestamp
      BY <1>4
    <3> QED
      BY <1>1, <3>1, <3>2, <3>3
  <2>2. Cardinality(1..i) <= Cardinality(before)
    BY <1>3, <2>1, FS_Subset
  <2> QED
    BY <1>2, <2>2
<1>5. ASSUME NEW i \in 1..Len(s), i \notin before PROVE ~(i <= k)
  <2>1. before \subseteq 1..(i - 1)
    <3> SUFFICES ASSUME NEW j \in before PROVE j \in 1..(i - 1)
      OBVIOUS
    <3>1. j \in 1..Len(s) /\ s[j].timestamp <= o.timestamp
      BY <1>1
    <3>2. ~(s[i].timestamp <= o.timestamp)
      BY <1>1, <1>5
    <3>3. ~(i < j) /\ i # j
      BY <1>1, <3>1, <3>2 DEF Sorted
    <3> QED
      BY <1>1, <3>1, <3>3
  <2>2. k <= i - 1
    BY <1>2, <2>1, FS_Subset
  <2> QED
    BY <1>3, <2>2
<1> QED
  BY <1>1, <1>3, <1>4, <1>5

(* What a concatenation holds.                                            *)
LEMMA ConcatElements ==
  ASSUME NEW u \in Seq(Observations), NEW v \in Seq(Observations)
  PROVE  /\ u \o v \in Seq(Observations) /\ Len(u \o v) = Len(u) + Len(v)
         /\ \A i \in 1..Len(u) : (u \o v)[i] = u[i]
         /\ \A i \in 1..Len(v) : (u \o v)[Len(u) + i] = v[i]
OBVIOUS

(* What InsertAt makes of a sequence.                                      *)
LEMMA InsertAtElements ==
  ASSUME NEW s \in Seq(Observations), NEW e \in Observations, NEW k \in 0..Len(s)
  PROVE  LET t == InsertAt(s, k + 1, e) IN
         /\ t \in Seq(Observations) /\ Len(t) = Len(s) + 1
         /\ t[k + 1] = e
         /\ \A i \in 1..k : t[i] = s[i]
         /\ \A i \in (k + 1)..Len(s) : t[i + 1] = s[i]
<1> DEFINE a == SubSeq(s, 1, k)
           b == SubSeq(s, k + 1, Len(s))
           c == a \o <<e>>
<1>1. /\ a \in Seq(Observations) /\ Len(a) = k /\ \A i \in 1..k : a[i] = s[i]
  OBVIOUS
<1>2. /\ b \in Seq(Observations) /\ Len(b) = Len(s) - k
      /\ \A i \in 1..(Len(s) - k) : b[i] = s[k + i]
  OBVIOUS
<1>3. InsertAt(s, k + 1, e) = c \o b
  <2>1. (k + 1) - 1 = k
    OBVIOUS
  <2> QED
    BY <2>1 DEF InsertAt
<1>4. <<e>> \in Seq(Observations) /\ Len(<<e>>) = 1 /\ <<e>>[1] = e
  OBVIOUS
<1> HIDE DEF a, b
<1>5. c \in Seq(Observations) /\ Len(c) = k + 1
  BY <1>1, <1>4, ConcatElements
<1>6. \A i \in 1..k : c[i] = s[i]
  BY <1>1, <1>4, ConcatElements
<1>7. c[k + 1] = e
  BY <1>1, <1>4, ConcatElements
<1> HIDE DEF c
<1>8. c \o b \in Seq(Observations) /\ Len(c \o b) = Len(s) + 1
  <2>1. c \o b \in Seq(Observations) /\ Len(c \o b) = Len(c) + Len(b)
    BY <1>2, <1>5, ConcatElements
  <2> QED
    BY <1>2, <1>5, <2>1
<1>9. \A i \in 1..k : (c \o b)[i] = s[i]
  BY <1>1, <1>2, <1>5, <1>6, ConcatElements
<1>10. (c \o b)[k + 1] = e
  BY <1>1, <1>2, <1>5, <1>7, ConcatElements
<1>11. ASSUME NEW i \in (k + 1)..Len(s) PROVE (c \o b)[i + 1] = s[i]
  <2>1. /\ i - k \in 1..Len(b) /\ Len(c) + (i - k) = i + 1 /\ k + (i - k) = i
        /\ i - k \in 1..(Len(s) - k)
    BY <1>2, <1>5
  <2>2. (c \o b)[Len(c) + (i - k)] = b[i - k]
    BY <1>2, <1>5, <2>1, ConcatElements
  <2> QED
    BY <1>2, <2>1, <2>2
<1> QED
  BY <1>3, <1>8, <1>9, <1>10, <1>11

LEMMA InsertSorted ==
  ASSUME NEW s \in Seq(Observations), Sorted(s), NEW o \in Observations
  PROVE  /\ Insert(o, s) \in Seq(Observations) /\ Sorted(Insert(o, s))
         /\ Range(s) \subseteq Range(Insert(o, s))
<1> DEFINE before == {i \in DOMAIN s : s[i].timestamp <= o.timestamp}
<1>1. PICK k \in 0..Len(s) : k = Cardinality(before)
  BY BeforeIsPrefix
<1>2. \A i \in DOMAIN s : i \in before <=> i <= k
  BY <1>1, BeforeIsPrefix
<1>3. PICK t : t = Insert(o, s)
  OBVIOUS
<1>4. t = InsertAt(s, k + 1, o)
  BY <1>1, <1>3 DEF Insert
<1> HIDE DEF before
<1>5. /\ t \in Seq(Observations) /\ Len(t) = Len(s) + 1
      /\ t[k + 1] = o
      /\ \A i \in 1..k : t[i] = s[i]
      /\ \A i \in (k + 1)..Len(s) : t[i + 1] = s[i]
  BY <1>4, InsertAtElements, ZenonT(30)
<1>6. /\ DOMAIN s = 1..Len(s) /\ DOMAIN t = 1..(Len(s) + 1) /\ Len(s) \in Nat
      /\ k \in Nat /\ k <= Len(s)
      /\ o.timestamp \in Nat /\ \A i \in 1..Len(s) : s[i].timestamp \in Nat
  BY <1>2, <1>5, TimesAreNumbers
<1>7. \A i \in 1..Len(s) : IF i <= k THEN s[i].timestamp <= o.timestamp
                                     ELSE o.timestamp < s[i].timestamp
  BY <1>2, <1>6 DEF before
<1>8. Sorted(t)
  <2> SUFFICES ASSUME NEW i \in 1..(Len(s) + 1), NEW j \in 1..(Len(s) + 1), i < j
               PROVE  t[i].timestamp <= t[j].timestamp
    BY <1>6 DEF Sorted
  <2>1. CASE j <= k
    <3>1. i \in 1..k /\ j \in 1..k /\ i \in DOMAIN s /\ j \in DOMAIN s
      BY <1>6, <2>1
    <3> QED
      BY <1>5, <3>1 DEF Sorted
  <2>2. CASE j = k + 1
    <3>1. i \in 1..k /\ i \in 1..Len(s)
      BY <1>6, <2>2
    <3> QED
      BY <1>5, <1>7, <2>2, <3>1
  <2>3. CASE k + 1 < j
    <3>1. /\ j - 1 \in (k + 1)..Len(s) /\ j - 1 \in 1..Len(s)
          /\ ~(j - 1 <= k) /\ (j - 1) + 1 = j
      BY <1>6, <2>3
    <3>2. t[j] = s[j - 1]
      BY <1>5, <3>1
    <3>3. CASE i <= k
      <4>1. i \in 1..k /\ i \in 1..Len(s) /\ i < j - 1
        BY <1>6, <3>1, <3>3
      <4> QED
        BY <1>5, <1>6, <3>1, <3>2, <4>1 DEF Sorted
    <3>4. CASE i = k + 1
      BY <1>5, <1>6, <1>7, <3>1, <3>2, <3>4
    <3>5. CASE k + 1 < i
      <4>1. /\ i - 1 \in (k + 1)..Len(s) /\ i - 1 \in 1..Len(s)
            /\ i - 1 < j - 1 /\ (i - 1) + 1 = i
        BY <1>6, <3>1, <3>5
      <4> QED
        BY <1>5, <1>6, <3>1, <3>2, <4>1 DEF Sorted
    <3> QED
      BY <1>6, <3>3, <3>4, <3>5
  <2> QED
    BY <1>6, <2>1, <2>2, <2>3
<1>9. Range(s) \subseteq Range(t)
  <2> SUFFICES ASSUME NEW i \in 1..Len(s)
               PROVE  \E j \in 1..(Len(s) + 1) : t[j] = s[i]
    BY <1>6 DEF Range
  <2>1. CASE i <= k
    <3>1. i \in 1..k /\ i \in 1..(Len(s) + 1)
      BY <1>6, <2>1
    <3> QED
      BY <1>5, <3>1
  <2>2. CASE k < i
    <3>1. i \in (k + 1)..Len(s) /\ i + 1 \in 1..(Len(s) + 1)
      BY <1>6, <2>2
    <3>2. t[i + 1] = s[i]
      BY <1>5, <3>1
    <3> QED
      BY <3>1, <3>2
  <2> QED
    BY <1>6, <2>1, <2>2
<1> QED
  BY <1>3, <1>5, <1>8, <1>9

-----------------------------------------------------------------------------
(* The elements of a sequence when one comes or goes.                      *)

LEMMA AppendElements ==
  ASSUME NEW S, NEW s \in Seq(S), NEW e \in S
  PROVE  /\ Append(s, e) \in Seq(S) /\ Len(s) \in Nat
         /\ DOMAIN s = 1..Len(s) /\ DOMAIN Append(s, e) = 1..(Len(s) + 1)
         /\ Append(s, e)[Len(s) + 1] = e
         /\ \A i \in 1..Len(s) : Append(s, e)[i] = s[i]
OBVIOUS

LEMMA TailElements ==
  ASSUME NEW S, NEW s \in Seq(S), s # <<>>
  PROVE  /\ Head(s) \in S /\ Head(s) \in Range(s)
         /\ Tail(s) \in Seq(S)
         /\ Range(Tail(s)) \subseteq Range(s)
         /\ \A e \in Range(s) : e = Head(s) \/ e \in Range(Tail(s))
<1>1. /\ 1 \in DOMAIN s /\ Head(s) = s[1] /\ Head(s) \in S /\ Tail(s) \in Seq(S)
      /\ Len(s) \in Nat /\ DOMAIN s = 1..Len(s)
  OBVIOUS
<1>2. \A i \in DOMAIN Tail(s) : i + 1 \in DOMAIN s /\ Tail(s)[i] = s[i + 1]
  OBVIOUS
<1>3. \A i \in DOMAIN s : i = 1 \/ i - 1 \in DOMAIN Tail(s)
  OBVIOUS
<1>4. Head(s) \in Range(s) /\ Range(Tail(s)) \subseteq Range(s)
  BY <1>1, <1>2 DEF Range
<1>5. ASSUME NEW i \in DOMAIN s PROVE s[i] = Head(s) \/ s[i] \in Range(Tail(s))
  <2>1. CASE i = 1
    BY <1>1, <2>1
  <2>2. CASE i - 1 \in DOMAIN Tail(s)
    <3>1. (i - 1) + 1 = i
      BY <1>1
    <3>2. Tail(s)[i - 1] = s[i]
      BY <1>2, <2>2, <3>1
    <3> QED
      BY <2>2, <3>2 DEF Range
  <2> QED
    BY <1>3, <2>1, <2>2
<1> QED
  BY <1>1, <1>4, <1>5 DEF Range

(* The pairs of a road are made of its observations.                       *)
LEMMA PairsOfRoad ==
  ASSUME NEW p \in Plates, NEW r \in RoadNumbers, NEW obs \in Seq(Observations)
  PROVE  /\ Pairs(p, r, obs) \in Seq(ObservedPairs)
         /\ \A pair \in Range(Pairs(p, r, obs)) :
              /\ pair.plate = p /\ pair.road = r
              /\ pair.obs1 \in Range(obs) /\ pair.obs2 \in Range(obs)
<1>1. /\ Len(obs) \in Nat /\ DOMAIN obs = 1..Len(obs)
      /\ \A i \in 1..Len(obs) : obs[i] \in Observations
  OBVIOUS
<1>2. \E n \in Nat : 1..(Len(obs) - 1) = 1..n
  <2>1. CASE Len(obs) = 0
    <3>1. 1..(Len(obs) - 1) = 1..0
      BY <2>1
    <3> QED
      BY <3>1
  <2>2. CASE Len(obs) > 0
    <3>1. Len(obs) - 1 \in Nat
      BY <1>1, <2>2
    <3> QED
      BY <3>1
  <2>3. Len(obs) = 0 \/ Len(obs) > 0
    BY <1>1
  <2> QED
    BY <2>1, <2>2, <2>3
<1>3. PICK n \in Nat : 1..(Len(obs) - 1) = 1..n
  BY <1>2
<1>4. \A i \in 1..(Len(obs) - 1) : i \in 1..Len(obs) /\ i + 1 \in 1..Len(obs)
  BY <1>1
<1> DEFINE f == Pairs(p, r, obs)
<1>5. /\ f = [i \in 1..n |-> f[i]]
      /\ \A i \in 1..n :
           f[i] = [plate |-> p, road |-> r, obs1 |-> obs[i], obs2 |-> obs[i + 1]]
  BY <1>3 DEF Pairs
<1>6. \A i \in 1..n : f[i] \in ObservedPairs
  BY <1>1, <1>3, <1>4, <1>5 DEF ObservedPairs
<1>7. f \in Seq(ObservedPairs) /\ DOMAIN f = 1..n
  BY <1>5, <1>6
<1>8. \A i \in 1..n : obs[i] \in Range(obs) /\ obs[i + 1] \in Range(obs)
  BY <1>1, <1>3, <1>4 DEF Range
<1>9. \A pair \in Range(f) :
        /\ pair.plate = p /\ pair.road = r
        /\ pair.obs1 \in Range(obs) /\ pair.obs2 \in Range(obs)
  BY <1>5, <1>7, <1>8 DEF Range
<1> QED
  BY <1>7, <1>9

(* A pair that shows a car speeding makes a ticket with a speed.           *)
LEMMA SpeedOfPair ==
  ASSUME NEW o1 \in Observations, NEW o2 \in Observations, Speeding(o1, o2)
  PROVE  Speed(o1, o2) \in Nat /\ o1.timestamp < o2.timestamp
<1>1. /\ o1.timestamp \in Nat /\ o2.timestamp \in Nat
      /\ o1.mile \in Nat /\ o2.mile \in Nat
  BY TicketsAssumption DEF TicketsAssumption, Observations, Miles
<1>2. Distance(o1, o2) \in Nat
  BY <1>1 DEF Distance
<1>3. Elapsed(o1, o2) \in Int /\ 10 * Elapsed(o1, o2) > 36
  BY <1>1 DEF Speeding, Elapsed
<1>4. o1.timestamp < o2.timestamp
  BY <1>1, <1>3 DEF Elapsed
<1>5. PICK n \in Nat : n = 720000 * Distance(o1, o2) + Elapsed(o1, o2)
  BY <1>2, <1>3
<1>6. PICK m \in Nat : m > 0 /\ m = 2 * Elapsed(o1, o2)
  BY <1>3
<1>7. n \div m \in Nat
  BY <1>6
<1> QED
  BY <1>4, <1>5, <1>6, <1>7 DEF Speed

-----------------------------------------------------------------------------
(* The invariant.                                                          *)

LEMMA InitTicketsInv == Init => TicketsInv
<1> SUFFICES ASSUME Init PROVE TicketsInv
  OBVIOUS
<1> USE DEF Init
<1>1. /\ <<>> \in Seq(Observations) /\ <<>> \in Seq(ObservedPairs)
      /\ <<>> \in Seq(Tickets) /\ DOMAIN <<>> = {} /\ Len(<<>>) = 0
  OBVIOUS
<1>2. Range(todo) = {}
  BY <1>1 DEF Range
<1>3. \A q \in Plates, r \in RoadNumbers : observations[q][r] = <<>>
  OBVIOUS
<1>4. TypeOK
  BY <1>1, <1>3 DEF TypeOK, Sorted
<1>5. DaysInv /\ OneTicketPerDay /\ TodoInv
  BY <1>1, <1>2 DEF DaysInv, OneTicketPerDay, TodoInv
<1>6. SpeedingIsNoticed
  <2>1. \A q \in Plates, r \in RoadNumbers : DOMAIN Pairs(q, r, <<>>) = {}
    BY <1>1 DEF Pairs
  <2> QED
    BY <1>3, <2>1 DEF SpeedingIsNoticed
<1>7. TakenForReason
  BY DEF TakenForReason
<1> QED
  BY <1>4, <1>5, <1>6, <1>7 DEF TicketsInv, SpeedingTakesDays

(* A sighting comes to lie among those of its road, and every pair of that *)
(* road is to be looked at.                                                *)
LEMMA AddKeepsInv ==
  ASSUME TicketsInv, NEW p \in Plates, NEW cam \in Cameras,
         NEW timestamp \in Timestamps, addObservation(p, cam, timestamp)
  PROVE  TicketsInv'
<1> DEFINE o == [timestamp |-> timestamp, mile |-> cam.mile, limit |-> cam.limit]
           s == observations[p][cam.road]
<1>1. /\ TypeOK /\ DaysInv /\ OneTicketPerDay /\ SpeedingIsNoticed /\ TakenForReason
      /\ ~panicked /\ todo = <<>>
  BY DEF TicketsInv, SpeedingTakesDays, addObservation
<1>2. PICK obs : obs = Insert(o, s)
  OBVIOUS
<1>3. /\ observations' = [observations EXCEPT ![p][cam.road] = obs]
      /\ todo' = Pairs(p, cam.road, obs)
      /\ UNCHANGED <<tickets, queue, panicked>>
  BY <1>2 DEF addObservation
<1>4. cam.road \in RoadNumbers /\ o \in Observations
  BY DEF RoadNumbers, Observations, Miles
<1>5. s \in Seq(Observations) /\ Sorted(s)
  BY <1>1, <1>4 DEF TypeOK
<1>6. obs \in Seq(Observations) /\ Sorted(obs) /\ Range(s) \subseteq Range(obs)
  BY <1>2, <1>4, <1>5, InsertSorted
<1> HIDE DEF o
<1>7. /\ observations' \in [Plates -> [RoadNumbers -> Seq(Observations)]]
      /\ observations'[p][cam.road] = obs
      /\ \A q \in Plates, r \in RoadNumbers :
           q # p \/ r # cam.road => observations'[q][r] = observations[q][r]
  BY <1>1, <1>3, <1>4, <1>6 DEF TypeOK
<1> HIDE DEF s
<1>8. /\ todo' \in Seq(ObservedPairs)
      /\ \A pair \in Range(todo') :
           /\ pair.plate = p /\ pair.road = cam.road
           /\ pair.obs1 \in Range(obs) /\ pair.obs2 \in Range(obs)
  BY <1>3, <1>4, <1>6, PairsOfRoad
<1>9. TypeOK'
  <2>1. \A q \in Plates, r \in RoadNumbers : Sorted(observations'[q][r])
    BY <1>1, <1>6, <1>7 DEF TypeOK
  <2> QED
    BY <1>1, <1>3, <1>7, <1>8, <2>1 DEF TypeOK
<1>10. DaysInv' /\ OneTicketPerDay'
  BY <1>1, <1>3 DEF DaysInv, OneTicketPerDay
<1>11. TodoInv'
  BY <1>7, <1>8 DEF TodoInv
<1>12. SpeedingIsNoticed'
  <2> SUFFICES
        ASSUME NEW q \in Plates, NEW r \in RoadNumbers,
               NEW i \in DOMAIN Pairs(q, r, observations'[q][r]),
               Speeding(Pairs(q, r, observations'[q][r])[i].obs1,
                        Pairs(q, r, observations'[q][r])[i].obs2)
        PROVE  \/ Day(Pairs(q, r, observations'[q][r])[i].obs1.timestamp) \in tickets[q]
               \/ Pairs(q, r, observations'[q][r])[i] \in Range(todo')
    BY <1>3 DEF SpeedingIsNoticed
  <2>1. CASE q = p /\ r = cam.road
    BY <1>3, <1>7, <2>1 DEF Range
  <2>2. CASE q # p \/ r # cam.road
    <3>1. Range(todo) = {}
      BY <1>1 DEF Range
    <3>2. observations'[q][r] = observations[q][r]
      BY <1>7, <2>2
    <3> QED
      BY <1>1, <3>1, <3>2 DEF SpeedingIsNoticed
  <2> QED
    BY <2>1, <2>2
<1>13. TakenForReason'
  <2>1. \A q \in Plates, r \in RoadNumbers :
          Range(observations[q][r]) \subseteq Range(observations'[q][r])
    BY <1>6, <1>7 DEF s
  <2> QED
    BY <1>1, <1>3, <2>1 DEF TakenForReason
<1> QED
  BY <1>9, <1>10, <1>11, <1>12, <1>13 DEF TicketsInv, SpeedingTakesDays

(* What holds of the pair that the loop looks at.                          *)
LEMMA PairLookedAt ==
  ASSUME TicketsInv, ~panicked, todo # <<>>
  PROVE  /\ Head(todo) \in ObservedPairs
         /\ {Head(todo).obs1, Head(todo).obs2} \subseteq
              Range(observations[Head(todo).plate][Head(todo).road])
         /\ Tail(todo) \in Seq(ObservedPairs)
         /\ Range(Tail(todo)) \subseteq Range(todo)
         /\ \A pair \in Range(todo) : pair = Head(todo) \/ pair \in Range(Tail(todo))
<1>1. todo \in Seq(ObservedPairs) /\ TodoInv
  BY DEF TicketsInv, TypeOK
<1>2. /\ Head(todo) \in ObservedPairs /\ Head(todo) \in Range(todo)
      /\ Tail(todo) \in Seq(ObservedPairs)
      /\ Range(Tail(todo)) \subseteq Range(todo)
      /\ \A pair \in Range(todo) : pair = Head(todo) \/ pair \in Range(Tail(todo))
  BY <1>1, TailElements
<1> QED
  BY <1>1, <1>2 DEF TodoInv

(* One more day taken of a car, and why: what the rest of the invariant    *)
(* says stays true while more days are taken and more tickets issued.      *)
LEMMA CheckKeepsReasons ==
  ASSUME TicketsInv, ~panicked, todo # <<>>, todo' = Tail(todo),
         UNCHANGED observations, tickets' \in [Plates -> SUBSET {Day(ts) : ts \in Timestamps}],
         \A q \in Plates : tickets[q] \subseteq tickets'[q],
         Speeding(Head(todo).obs1, Head(todo).obs2) =>
            Day(Head(todo).obs1.timestamp) \in tickets'[Head(todo).plate],
         \A tk \in Range(queue) : tk \in Range(queue'),
         \A q \in Plates : \A d \in tickets'[q] \ tickets[q] :
            \/ \E k \in DOMAIN queue' :
                 queue'[k].plate = q /\ d \in TicketDays(queue'[k])
            \/ /\ q = Head(todo).plate
               /\ Speeding(Head(todo).obs1, Head(todo).obs2)
               /\ d = Day(Head(todo).obs1.timestamp)
               /\ Day(Head(todo).obs2.timestamp) \in tickets'[q] \ {d}
  PROVE  TodoInv' /\ SpeedingIsNoticed' /\ TakenForReason'
<1>1. /\ TypeOK /\ TodoInv /\ SpeedingIsNoticed /\ TakenForReason
  BY DEF TicketsInv, SpeedingTakesDays
<1> DEFINE pair == Head(todo)
<1>2. /\ pair \in ObservedPairs
      /\ {pair.obs1, pair.obs2} \subseteq Range(observations[pair.plate][pair.road])
      /\ Range(Tail(todo)) \subseteq Range(todo)
      /\ \A e \in Range(todo) : e = pair \/ e \in Range(Tail(todo))
  BY PairLookedAt
<1>3. /\ pair.plate \in Plates /\ pair.road \in RoadNumbers
  BY <1>2 DEF ObservedPairs
<1> HIDE DEF pair
<1>4. TodoInv'
  BY <1>1, <1>2 DEF TodoInv
<1>5. SpeedingIsNoticed'
  <2> SUFFICES
        ASSUME NEW q \in Plates, NEW r \in RoadNumbers,
               NEW i \in DOMAIN Pairs(q, r, observations[q][r]),
               NEW e, e = Pairs(q, r, observations[q][r])[i],
               Speeding(e.obs1, e.obs2)
        PROVE  Day(e.obs1.timestamp) \in tickets'[q] \/ e \in Range(todo')
    BY DEF SpeedingIsNoticed
  <2>1. Day(e.obs1.timestamp) \in tickets[q] \/ e \in Range(todo)
    BY <1>1 DEF SpeedingIsNoticed
  <2>2. e.plate = q
    BY DEF Pairs
  <2>3. CASE e = pair
    BY <2>2, <2>3 DEF pair
  <2>4. CASE e # pair
    BY <1>2, <2>1, <2>4
  <2> QED
    BY <2>3, <2>4
<1>6. TakenForReason'
  <2> SUFFICES
        ASSUME NEW q \in Plates, NEW d \in tickets'[q]
        PROVE  \/ \E k \in DOMAIN queue' :
                     queue'[k].plate = q /\ d \in TicketDays(queue'[k])
               \/ \E r \in RoadNumbers : \E o1, o2 \in Range(observations[q][r]) :
                     /\ Speeding(o1, o2)
                     /\ Day(o1.timestamp) = d
                     /\ Day(o2.timestamp) \in tickets'[q] \ {d}
    BY DEF TakenForReason
  <2>1. CASE d \in tickets[q]
    <3>1. CASE \E k \in DOMAIN queue :
                 queue[k].plate = q /\ d \in TicketDays(queue[k])
      <4>1. PICK k \in DOMAIN queue :
              queue[k].plate = q /\ d \in TicketDays(queue[k])
        BY <3>1
      <4>2. queue[k] \in Range(queue')
        BY DEF Range
      <4>3. PICK j \in DOMAIN queue' : queue'[j] = queue[k]
        BY <4>2 DEF Range
      <4> QED
        BY <4>1, <4>3
    <3>2. CASE \E r \in RoadNumbers : \E o1, o2 \in Range(observations[q][r]) :
                 /\ Speeding(o1, o2)
                 /\ Day(o1.timestamp) = d
                 /\ Day(o2.timestamp) \in tickets[q] \ {d}
      BY <3>2
    <3> QED
      BY <1>1, <2>1, <3>1, <3>2 DEF TakenForReason
  <2>2. CASE d \notin tickets[q]
    BY <1>2, <1>3, <2>2 DEF pair
  <2> QED
    BY <2>1, <2>2
<1> QED
  BY <1>4, <1>5, <1>6

LEMMA PassKeepsInv ==
  ASSUME TicketsInv, ~panicked, todo # <<>>, todo' = Tail(todo),
         UNCHANGED observations,
         Pass(Head(todo), Day(Head(todo).obs1.timestamp))
  PROVE  TicketsInv'
<1>1. TypeOK /\ DaysInv /\ OneTicketPerDay
  BY DEF TicketsInv
<1>2. Tail(todo) \in Seq(ObservedPairs)
  BY PairLookedAt
<1>3. TypeOK'
  BY <1>1, <1>2 DEF TypeOK, Pass
<1>4. DaysInv' /\ OneTicketPerDay'
  BY <1>1 DEF Pass, DaysInv, OneTicketPerDay
<1>5. TodoInv' /\ SpeedingIsNoticed' /\ TakenForReason'
  <2>1. tickets \in [Plates -> SUBSET {Day(ts) : ts \in Timestamps}]
    BY <1>1 DEF TypeOK
  <2> QED
    BY <2>1, CheckKeepsReasons DEF Pass
<1> QED
  BY <1>3, <1>4, <1>5 DEF TicketsInv, SpeedingTakesDays

LEMMA TicketPlates ==
  ASSUME TypeOK
  PROVE  \A i \in DOMAIN queue : queue[i].plate \in Plates
<1>1. queue \in Seq(Tickets)
  BY DEF TypeOK
<1>2. \A i \in DOMAIN queue : queue[i] \in Tickets
  BY <1>1
<1>3. \A tk \in Tickets : tk.plate \in Plates
  BY DEF Tickets
<1> QED
  BY <1>2, <1>3

(* A car is spared when it has a ticket for the second day; the first is   *)
(* taken all the same.                                                     *)
LEMMA SpareKeepsInv ==
  ASSUME TicketsInv, ~panicked, todo # <<>>, todo' = Tail(todo),
         UNCHANGED <<observations, panicked>>,
         Spare(Head(todo), Day(Head(todo).obs1.timestamp),
               Day(Head(todo).obs2.timestamp))
  PROVE  TicketsInv'
<1> DEFINE pair == Head(todo)
           d1 == Day(pair.obs1.timestamp)
           d2 == Day(pair.obs2.timestamp)
           Days == {Day(ts) : ts \in Timestamps}
<1>1. TypeOK /\ DaysInv /\ OneTicketPerDay
  BY DEF TicketsInv
<1>2. pair \in ObservedPairs /\ Tail(todo) \in Seq(ObservedPairs)
  BY PairLookedAt
<1>3. pair.plate \in Plates /\ d1 \in Days /\ d2 \in Days
  BY <1>2 DEF ObservedPairs, Observations
<1>4. /\ Speeding(pair.obs1, pair.obs2)
      /\ d1 \notin tickets[pair.plate] /\ d2 \in tickets[pair.plate]
      /\ tickets' = [tickets EXCEPT ![pair.plate] = @ \union {d1}]
      /\ queue' = queue
  BY DEF Spare
<1> HIDE DEF pair, d1, d2, Days
<1>5. /\ tickets' \in [Plates -> SUBSET Days]
      /\ \A q \in Plates : tickets[q] \subseteq tickets'[q]
      /\ \A q \in Plates : \A d \in tickets'[q] \ tickets[q] :
           q = pair.plate /\ d = d1
      /\ d1 \in tickets'[pair.plate] /\ d2 \in tickets'[pair.plate] \ {d1}
  <2>1. tickets \in [Plates -> SUBSET Days]
    BY <1>1 DEF TypeOK, Days
  <2> QED
    BY <1>3, <1>4, <2>1
<1>6. TypeOK'
  BY <1>1, <1>2, <1>4, <1>5 DEF TypeOK, Days
<1>7. DaysInv'
  <2>1. \A i \in DOMAIN queue : queue[i].plate \in Plates
    BY <1>1, TicketPlates
  <2> QED
    BY <1>1, <1>4, <1>5, <2>1 DEF DaysInv
<1>8. OneTicketPerDay'
  BY <1>1, <1>4 DEF OneTicketPerDay
<1>9. TodoInv' /\ SpeedingIsNoticed' /\ TakenForReason'
  BY <1>4, <1>5, CheckKeepsReasons DEF pair, d1, d2, Days
<1> QED
  BY <1>6, <1>7, <1>8, <1>9 DEF TicketsInv, SpeedingTakesDays

(* A ticket is issued for days that no older one has: the days of those    *)
(* are taken.  A speed too large for a ticket ends the process.            *)
LEMMA IssueKeepsInv ==
  ASSUME TicketsInv, ~panicked, todo # <<>>, todo' = Tail(todo),
         UNCHANGED observations,
         Issue(Head(todo), Day(Head(todo).obs1.timestamp),
               Day(Head(todo).obs2.timestamp))
  PROVE  TicketsInv'
<1> DEFINE pair == Head(todo)
           d1 == Day(pair.obs1.timestamp)
           d2 == Day(pair.obs2.timestamp)
           Days == {Day(ts) : ts \in Timestamps}
           tk == MakeTicket(pair)
<1>1. TypeOK /\ DaysInv /\ OneTicketPerDay /\ TodoInv
  BY DEF TicketsInv
<1>2. pair \in ObservedPairs /\ Tail(todo) \in Seq(ObservedPairs)
  BY PairLookedAt
<1>3. /\ pair.plate \in Plates /\ pair.road \in RoadNumbers
      /\ pair.obs1 \in Observations /\ pair.obs2 \in Observations
      /\ d1 \in Days /\ d2 \in Days
  BY <1>2 DEF ObservedPairs, Observations
<1>4. /\ Speeding(pair.obs1, pair.obs2)
      /\ d1 \notin tickets[pair.plate] /\ d2 \notin tickets[pair.plate]
      /\ tickets' = [tickets EXCEPT ![pair.plate] = @ \union {d1, d2}]
      /\ IF Speed(pair.obs1, pair.obs2) > MaxSpeed
           THEN panicked' = TRUE /\ queue' = queue
           ELSE queue' = Append(queue, tk) /\ panicked' = panicked
  BY DEF Issue
<1>5. tk.plate = pair.plate /\ TicketDays(tk) = {d1, d2}
  BY DEF MakeTicket, TicketDays
<1> HIDE DEF pair, d1, d2, Days, tk
<1>6. /\ tickets \in [Plates -> SUBSET Days] /\ tickets' \in [Plates -> SUBSET Days]
      /\ \A q \in Plates : tickets[q] \subseteq tickets'[q]
      /\ \A q \in Plates : \A d \in tickets'[q] \ tickets[q] :
           q = pair.plate /\ d \in {d1, d2}
      /\ d1 \in tickets'[pair.plate] /\ d2 \in tickets'[pair.plate]
  <2>1. tickets \in [Plates -> SUBSET Days]
    BY <1>1 DEF TypeOK, Days
  <2> QED
    BY <1>3, <1>4, <2>1
<1>7. CASE Speed(pair.obs1, pair.obs2) > MaxSpeed
  <2>1. panicked' = TRUE /\ queue' = queue
    BY <1>4, <1>7
  <2>2. TypeOK'
    BY <1>1, <1>2, <1>6, <2>1 DEF TypeOK, Days
  <2>3. DaysInv'
    <3>1. \A i \in DOMAIN queue : queue[i].plate \in Plates
      BY <1>1, TicketPlates
    <3> QED
      BY <1>1, <1>6, <2>1, <3>1 DEF DaysInv
  <2>4. OneTicketPerDay'
    BY <1>1, <2>1 DEF OneTicketPerDay
  <2>5. TodoInv'
    BY <1>1, PairLookedAt DEF TodoInv
  <2> QED
    BY <2>1, <2>2, <2>3, <2>4, <2>5 DEF TicketsInv, SpeedingTakesDays
<1>8. CASE ~(Speed(pair.obs1, pair.obs2) > MaxSpeed)
  <2>1. queue' = Append(queue, tk) /\ panicked' = panicked
    BY <1>4, <1>8
  <2>2. tk \in Tickets /\ tk.timestamp1 < tk.timestamp2
    <3>1. /\ Speed(pair.obs1, pair.obs2) \in 0..MaxSpeed
          /\ pair.obs1.timestamp < pair.obs2.timestamp
      <4>1. /\ Speed(pair.obs1, pair.obs2) \in Nat
            /\ pair.obs1.timestamp < pair.obs2.timestamp
        BY <1>3, <1>4, SpeedOfPair
      <4>2. MaxSpeed \in Nat
        BY DEF MaxSpeed
      <4> QED
        BY <1>8, <4>1, <4>2
    <3>2. /\ pair.obs1.mile \in Miles /\ pair.obs1.timestamp \in Timestamps
          /\ pair.obs2.mile \in Miles /\ pair.obs2.timestamp \in Timestamps
      BY <1>3 DEF Observations
    <3> QED
      BY <1>3, <3>1, <3>2 DEF tk, MakeTicket, Tickets
  <2>3. /\ queue \in Seq(Tickets) /\ queue' \in Seq(Tickets) /\ Len(queue) \in Nat
        /\ DOMAIN queue = 1..Len(queue) /\ DOMAIN queue' = 1..(Len(queue) + 1)
        /\ queue'[Len(queue) + 1] = tk
        /\ \A i \in 1..Len(queue) : queue'[i] = queue[i]
    <3>1. queue \in Seq(Tickets)
      BY <1>1 DEF TypeOK
    <3> QED
      BY <2>1, <2>2, <3>1, AppendElements
  <2>4. \A i \in 1..(Len(queue) + 1) : i \in 1..Len(queue) \/ i = Len(queue) + 1
    BY <2>3
  <2>5. TypeOK'
    <3>1. \A i \in DOMAIN queue' : queue'[i].timestamp1 < queue'[i].timestamp2
      BY <1>1, <2>2, <2>3, <2>4 DEF TypeOK
    <3> QED
      BY <1>1, <1>2, <1>6, <2>1, <2>3, <3>1 DEF TypeOK, Days
  <2>6. \A i \in 1..Len(queue) :
          /\ queue[i].plate \in Plates
          /\ TicketDays(queue[i]) \subseteq tickets[queue[i].plate]
    BY <1>1, <2>3, TicketPlates DEF DaysInv
  <2>7. DaysInv'
    <3>1. \A i \in 1..Len(queue) :
            TicketDays(queue'[i]) \subseteq tickets'[queue'[i].plate]
      BY <1>6, <2>3, <2>6
    <3>2. TicketDays(tk) \subseteq tickets'[tk.plate]
      BY <1>5, <1>6
    <3> QED
      BY <2>3, <2>4, <3>1, <3>2 DEF DaysInv
  <2>8. OneTicketPerDay'
    <3>1. \A i \in 1..Len(queue) :
            queue[i].plate = tk.plate =>
              TicketDays(queue[i]) \intersect TicketDays(tk) = {}
      BY <1>4, <1>5, <2>6
    <3> QED
      BY <1>1, <2>3, <2>4, <3>1 DEF OneTicketPerDay
  <2>9. TodoInv' /\ SpeedingIsNoticed' /\ TakenForReason'
    <3>1. \A e \in Range(queue) : e \in Range(queue')
      BY <2>3 DEF Range
    <3>2. \A q \in Plates : \A d \in tickets'[q] \ tickets[q] :
            \E k \in DOMAIN queue' :
              queue'[k].plate = q /\ d \in TicketDays(queue'[k])
      BY <1>5, <1>6, <2>3
    <3> QED
      BY <1>6, <3>1, <3>2, CheckKeepsReasons DEF pair, d1, d2, Days
  <2> QED
    BY <2>5, <2>7, <2>8, <2>9 DEF TicketsInv, SpeedingTakesDays
<1> QED
  BY <1>7, <1>8

LEMMA NextKeepsInv == TicketsInv /\ [Next]_vars => TicketsInv'
<1> SUFFICES ASSUME TicketsInv, [Next]_vars PROVE TicketsInv'
  OBVIOUS
<1>1. ASSUME NEW p \in Plates, NEW cam \in Cameras, NEW timestamp \in Timestamps,
             addObservation(p, cam, timestamp)
      PROVE  TicketsInv'
  BY <1>1, AddKeepsInv
<1>2. CASE CheckPair
  <2> USE <1>2 DEF CheckPair
  <2>1. /\ ~panicked /\ todo # <<>> /\ todo' = Tail(todo)
        /\ UNCHANGED observations
    OBVIOUS
  <2>2. CASE Pass(Head(todo), Day(Head(todo).obs1.timestamp))
    BY <2>1, <2>2, PassKeepsInv
  <2>3. CASE Spare(Head(todo), Day(Head(todo).obs1.timestamp),
                   Day(Head(todo).obs2.timestamp))
    BY <2>1, <2>3, SpareKeepsInv DEF Spare
  <2>4. CASE Issue(Head(todo), Day(Head(todo).obs1.timestamp),
                   Day(Head(todo).obs2.timestamp))
    BY <2>1, <2>4, IssueKeepsInv
  <2> QED
    BY <2>2, <2>3, <2>4
<1>3. CASE UNCHANGED vars
  BY <1>3 DEF vars, TicketsInv, TypeOK, DaysInv, OneTicketPerDay, TodoInv,
              SpeedingTakesDays, SpeedingIsNoticed, TakenForReason
<1> QED
  BY <1>1, <1>2, <1>3 DEF Next

(* In every state the lists are in order, the tickets fit their fields,    *)
(* and the days of the tickets are taken.                                  *)
THEOREM TicketsInvariant == Spec => []TicketsInv
  BY InitTicketsInv, NextKeepsInv, PTL DEF Spec

(* Two tickets of a car never touch the same day, even if they are for     *)
(* different roads: the days are kept per car (logic.zig:515-532),         *)
(* although the comment there (412-413) and the test at 764 speak of one   *)
(* ticket per day and road.                                                *)
THEOREM OncePerDay == Spec => []OneTicketPerDay
<1>1. TicketsInv => OneTicketPerDay
  BY DEF TicketsInv
<1> QED
  BY <1>1, TicketsInvariant, PTL

(* Neighbouring sightings that show a car speeding have their day taken    *)
(* once they have been looked at, and a day is taken for no other reason.  *)
THEOREM DaysTakenForSpeeding == Spec => []SpeedingTakesDays
<1>1. TicketsInv => SpeedingTakesDays
  BY DEF TicketsInv
<1> QED
  BY <1>1, TicketsInvariant, PTL
=============================================================================
