----------------------------- MODULE SpeedTickets -----------------------------
(***************************************************************************)
(* Which tickets the speed daemon issues: Cars and Car of                  *)
(* zig/src/6-speed-daemon/logic.zig, above all Car.addObservation.  It     *)
(* runs under cars.mutex, so one call ends before the next begins; each    *)
(* turn of its loop is a step, for the tickets it issues are seen at once. *)
(*                                                                         *)
(* Observations are kept per car and road, sorted by time.  Every new one  *)
(* has the whole road rescanned, pair by pair, against the set of days for *)
(* which the car has been ticketed.  Speeds are computed there in floating *)
(* point; here the comparisons are the exact rational ones.                *)
(***************************************************************************)
EXTENDS Integers, Sequences, FiniteSets, SequencesExt

CONSTANTS
  Plates,          (* the plates seen                                       *)
  Cameras,         (* records [road, mile, limit]: IAmCamera's fields       *)
  Timestamps,      (* the seconds at which plates may be seen               *)
  MaxObservations  (* bound: observations in one behaviour                  *)

ASSUME TicketsAssumption ==
  /\ \A cam \in Cameras : cam.mile \in Nat /\ cam.limit \in Nat
  /\ Timestamps \subseteq Nat
  /\ MaxObservations \in Nat

VARIABLES
  observations,  (* Car.observationsmap of each plate, by road              *)
  tickets,       (* Car.tickets of each plate: the days that are taken      *)
  todo,          (* the pairs that the loop has still to look at            *)
  queue,         (* TicketsQueue: the tickets issued, in order              *)
  panicked       (* the process was aborted by a safety check               *)

vars == <<observations, tickets, todo, queue, panicked>>

RoadNumbers == {cam.road : cam \in Cameras}

Init ==
  /\ observations = [p \in Plates |-> [r \in RoadNumbers |-> <<>>]]
  /\ tickets = [p \in Plates |-> {}]
  /\ todo = <<>>
  /\ queue = <<>>
  /\ panicked = FALSE

(* The date key: one "{MM/DD/YYYY}" string per UTC day.                    *)
Day(timestamp) == timestamp \div 86400

(* Mutant: the sort after the append is forgotten.                         *)
InsertUnsorted(o, s) == Append(s, o)

(* Stable sort of a sorted list with one observation appended to it: it    *)
(* comes to be behind those that are not later.                            *)
Insert(o, s) ==
  LET before == {i \in DOMAIN s : s[i].timestamp <= o.timestamp}
  IN  InsertAt(s, Cardinality(before) + 1, o)

Distance(o1, o2) ==
  IF o2.mile > o1.mile THEN o2.mile - o1.mile ELSE o1.mile - o2.mile

Elapsed(o1, o2) == o2.timestamp - o1.timestamp

(* More than 0.001 hours apart (3.6 s), and on average more than half a    *)
(* mile per hour above the limit at the first camera:                      *)
(* distance / (elapsed / 3600) > limit + 1/2.                              *)
Speeding(o1, o2) ==
  /\ 10 * Elapsed(o1, o2) > 36
  /\ 7200 * Distance(o1, o2) > (2 * o1.limit + 1) * Elapsed(o1, o2)

(* Hundredths of a mile per hour, rounded to the nearest.                  *)
Speed(o1, o2) ==
  (720000 * Distance(o1, o2) + Elapsed(o1, o2)) \div (2 * Elapsed(o1, o2))

(* What the 16 bits of a ticket's speed hold.                              *)
MaxSpeed == 2^16 - 1

MakeTicket(pair) ==
  [plate |-> pair.plate, road |-> pair.road,
   mile1 |-> pair.obs1.mile, timestamp1 |-> pair.obs1.timestamp,
   mile2 |-> pair.obs2.mile, timestamp2 |-> pair.obs2.timestamp,
   speed |-> Speed(pair.obs1, pair.obs2)]

(* The pairs of neighbours in a road's list.                               *)
Pairs(p, r, obs) ==
  [i \in 1..(Len(obs) - 1) |->
     [plate |-> p, road |-> r, obs1 |-> obs[i], obs2 |-> obs[i + 1]]]

(* A camera reports a plate.  A road's first observation makes no pair.    *)
addObservation(p, cam, timestamp) ==
  /\ ~panicked /\ todo = <<>>
  /\ LET o == [timestamp |-> timestamp, mile |-> cam.mile, limit |-> cam.limit]
         obs == Insert(o, observations[p][cam.road])
     IN  /\ observations' = [observations EXCEPT ![p][cam.road] = obs]
         /\ todo' = Pairs(p, cam.road, obs)
  /\ UNCHANGED <<tickets, queue, panicked>>

(* Mutant: a day that is taken is only looked for at the first end.        *)
IssueFirstDay(pair, d1, d2) ==
  /\ Speeding(pair.obs1, pair.obs2)
  /\ d1 \notin tickets[pair.plate]
  /\ tickets' = [tickets EXCEPT ![pair.plate] = @ \union {d1, d2}]
  /\ IF Speed(pair.obs1, pair.obs2) > MaxSpeed
       THEN panicked' = TRUE /\ UNCHANGED queue
       ELSE queue' = Append(queue, MakeTicket(pair)) /\ UNCHANGED panicked

(* Mutant: the first day is taken before the speed is looked at.           *)
PassTakesFirst(pair, d1) ==
  /\ ~Speeding(pair.obs1, pair.obs2) \/ d1 \in tickets[pair.plate]
  /\ tickets' = [tickets EXCEPT ![pair.plate] = @ \union {d1}]
  /\ UNCHANGED <<queue, panicked>>

(* The car was not speeding, or has its ticket for the first day.          *)
Pass(pair, d1) ==
  /\ ~Speeding(pair.obs1, pair.obs2) \/ d1 \in tickets[pair.plate]
  /\ UNCHANGED <<tickets, queue, panicked>>

(* The first day is taken before the second is looked at.                  *)
Spare(pair, d1, d2) ==
  /\ Speeding(pair.obs1, pair.obs2)
  /\ d1 \notin tickets[pair.plate] /\ d2 \in tickets[pair.plate]
  /\ tickets' = [tickets EXCEPT ![pair.plate] = @ \union {d1}]
  /\ UNCHANGED <<queue, panicked>>

(* A speed that does not fit in 16 bits aborts the process once both days  *)
(* are taken.                                                              *)
Issue(pair, d1, d2) ==
  /\ Speeding(pair.obs1, pair.obs2)
  /\ d1 \notin tickets[pair.plate] /\ d2 \notin tickets[pair.plate]
  /\ tickets' = [tickets EXCEPT ![pair.plate] = @ \union {d1, d2}]
  /\ IF Speed(pair.obs1, pair.obs2) > MaxSpeed
       THEN panicked' = TRUE /\ UNCHANGED queue
       ELSE queue' = Append(queue, MakeTicket(pair)) /\ UNCHANGED panicked

(* One turn of the loop over the pairs.                                    *)
CheckPair ==
  /\ ~panicked /\ todo # <<>>
  /\ todo' = Tail(todo)
  /\ LET pair == Head(todo)
         d1 == Day(pair.obs1.timestamp)
         d2 == Day(pair.obs2.timestamp)
     IN  Pass(pair, d1) \/ Spare(pair, d1, d2) \/ Issue(pair, d1, d2)
  /\ UNCHANGED observations

Count(p) ==
  FoldFunction(LAMBDA s, n : Len(s) + n, 0, observations[p])

Full ==
  panicked \/ (todo = <<>> /\ \A p \in Plates : Count(p) >= MaxObservations)

Next ==
  \/ \E p \in Plates, cam \in Cameras, timestamp \in Timestamps :
       Count(p) < MaxObservations /\ addObservation(p, cam, timestamp)
  \/ CheckPair
  \/ Full /\ UNCHANGED vars

Spec == Init /\ [][Next]_vars

-----------------------------------------------------------------------------
Miles == {cam.mile : cam \in Cameras}

Observations ==
  [timestamp : Timestamps, mile : Miles, limit : {cam.limit : cam \in Cameras}]

ObservedPairs ==
  [plate : Plates, road : RoadNumbers, obs1 : Observations, obs2 : Observations]

Tickets ==
  [plate : Plates, road : RoadNumbers, mile1 : Miles, timestamp1 : Timestamps,
   mile2 : Miles, timestamp2 : Timestamps, speed : 0..MaxSpeed]

Sorted(s) ==
  \A i, j \in DOMAIN s : i < j => s[i].timestamp <= s[j].timestamp

(* Every variable holds a value of its type; what is in the queue fits the *)
(* fields of messages.Ticket, and each road's list is in order of time.    *)
TypeOK ==
  /\ observations \in [Plates -> [RoadNumbers -> Seq(Observations)]]
  /\ \A p \in Plates, r \in RoadNumbers : Sorted(observations[p][r])
  /\ tickets \in [Plates -> SUBSET {Day(ts) : ts \in Timestamps}]
  /\ todo \in Seq(ObservedPairs)
  /\ queue \in Seq(Tickets)
  /\ \A i \in DOMAIN queue : queue[i].timestamp1 < queue[i].timestamp2
  /\ panicked \in BOOLEAN

TicketDays(tk) == {Day(tk.timestamp1), Day(tk.timestamp2)}

(* A car is ticketed once for a day: two of its tickets never touch the    *)
(* same one, in whatever order its sightings arrive and whichever roads    *)
(* they are on. It is more than the code's own texts ask for: the comment  *)
(* at Car.tickets (logic.zig:412-413), the log lines (518, 527) and the    *)
(* tests (764, 963) speak of one ticket per day "per road". The set of     *)
(* days is the car's, not a road's, and the key is the day alone           *)
(* (515-532), so that one ticket lets the car go free on every other road  *)
(* that day. The property states what the code does.                       *)
OneTicketPerDay ==
  \A i, j \in DOMAIN queue :
     i # j /\ queue[i].plate = queue[j].plate =>
        TicketDays(queue[i]) \intersect TicketDays(queue[j]) = {}

(* However late a sighting arrives, no two neighbouring sightings that     *)
(* show a car speeding are left unexamined: once the loop has come to them *)
(* the day the first was made on is taken (logic.zig:488-520).             *)
SpeedingIsNoticed ==
  \A p \in Plates, r \in RoadNumbers :
    LET pairs == Pairs(p, r, observations[p][r]) IN
    \A i \in DOMAIN pairs :
      Speeding(pairs[i].obs1, pairs[i].obs2) =>
        \/ Day(pairs[i].obs1.timestamp) \in tickets[p]
        \/ pairs[i] \in Range(todo)

(* A day is taken only for a reason: it has a ticket, on whichever road,   *)
(* or it is the day of the earlier of two sightings on one road that show  *)
(* the car speeding, and the day of the later is taken too: in this case   *)
(* the car is spared for a day without a ticket (logic.zig:515-532).       *)
TakenForReason ==
  \A p \in Plates : \A d \in tickets[p] :
    \/ \E k \in DOMAIN queue :
         queue[k].plate = p /\ d \in TicketDays(queue[k])
    \/ \E r \in RoadNumbers : \E o1, o2 \in Range(observations[p][r]) :
         /\ Speeding(o1, o2)
         /\ Day(o1.timestamp) = d
         /\ Day(o2.timestamp) \in tickets[p] \ {d}

SpeedingTakesDays == ~panicked => SpeedingIsNoticed /\ TakenForReason

(* The days of a ticket are taken, which is why no other has them.         *)
DaysInv ==
  \A i \in DOMAIN queue : TicketDays(queue[i]) \subseteq tickets[queue[i].plate]

(* The loop looks at observations that have been stored.                   *)
TodoInv ==
  \A pair \in Range(todo) :
    {pair.obs1, pair.obs2} \subseteq Range(observations[pair.plate][pair.road])

(* The inductive invariant of SpeedTicketsProofs.                          *)
TicketsInv ==
  TypeOK /\ DaysInv /\ OneTicketPerDay /\ TodoInv /\ SpeedingTakesDays
=============================================================================
