------------------------- MODULE SpeedDispatchProofs -------------------------
(***************************************************************************)
(* Proofs about SpeedDispatch for any set of threads, descriptors and      *)
(* roads and any bounds.  DispatchInv is shown inductive in three parts    *)
(* that build on one another: types and the place of the walk, then the    *)
(* queue and the copies sent, then the clients and their registrations.    *)
(* Last, SpeedDispatch implements TicketService: of the steps of the       *)
(* threads six change what the service knows of, and each is a step of it. *)
(***************************************************************************)
EXTENDS SpeedDispatch, SequenceTheorems, TLAPS

(* What unlinking a node leaves.                                           *)
LEMMA RemoveAtProperties ==
  ASSUME NEW S, NEW s \in Seq(S), NEW i \in 1..Len(s)
  PROVE  /\ RemoveAt(s, i) \in Seq(S)
         /\ Len(RemoveAt(s, i)) = Len(s) - 1
         /\ \A j \in 1..Len(s) - 1 :
              RemoveAt(s, i)[j] = IF j < i THEN s[j] ELSE s[j + 1]
<1> DEFINE a == SubSeq(s, 1, i - 1)
           b == SubSeq(s, i + 1, Len(s))
<1>1. a \in Seq(S) /\ Len(a) = i - 1 /\ \A j \in 1..i - 1 : a[j] = s[j]
  OBVIOUS
<1>2. b \in Seq(S) /\ Len(b) = Len(s) - i
                   /\ \A j \in 1..Len(s) - i : b[j] = s[i + j]
  OBVIOUS
<1>3. RemoveAt(s, i) = a \o b
  BY DEF RemoveAt
<1> HIDE DEF a, b
<1>4. /\ a \o b \in Seq(S)
      /\ Len(a \o b) = Len(a) + Len(b)
      /\ \A j \in 1..Len(a) + Len(b) :
           (a \o b)[j] = IF j <= Len(a) THEN a[j] ELSE b[j - Len(a)]
  BY <1>1, <1>2, ConcatProperties
<1>5. Len(a) + Len(b) = Len(s) - 1
  BY <1>1, <1>2
<1>6. ASSUME NEW j \in 1..i - 1
      PROVE  (a \o b)[j] = s[j]
  BY <1>1, <1>4, <1>5
<1>7. ASSUME NEW j \in i..Len(s) - 1
      PROVE  (a \o b)[j] = s[j + 1]
  <2>1. j - Len(a) \in 1..Len(s) - i /\ i + (j - Len(a)) = j + 1
    BY <1>1
  <2> QED
    BY <1>1, <1>2, <1>4, <1>5, <2>1
<1> QED
  BY <1>3, <1>4, <1>5, <1>6, <1>7

(* Types and the walk hold initially.                                      *)
LEMMA TypeWalkInit == Init => TypeOK /\ WalkInv
<1> SUFFICES ASSUME Init PROVE TypeOK /\ WalkInv
  OBVIOUS
<1>1. TypeOK
  <2>1. queue \in Seq(Ticket)
    BY DEF Init
  <2>2. issued \in 0..MaxTickets /\ copies \in [1..MaxTickets -> Nat] /\ accepts \in Nat
    BY DispatchAssumption DEF DispatchAssumption, Init
  <2>3. /\ failed \in BOOLEAN /\ panicked \in BOOLEAN
    BY DEF Init
  <2> QED
    BY <2>1, <2>2, <2>3 DEF Init, TypeOK, Labels
<1>2. WalkInv
  BY DispatchAssumption DEF DispatchAssumption, Init, WalkInv, Scanning
<1> QED
  BY <1>1, <1>2

(* Every step keeps the types, and the queue's mutex with its owner's walk.*)
LEMMA TypeWalkStep == TypeOK /\ WalkInv /\ [Next]_vars => TypeOK' /\ WalkInv'
<1> SUFFICES ASSUME TypeOK, WalkInv, [Next]_vars
             PROVE  TypeOK' /\ WalkInv'
  OBVIOUS
<1> USE DispatchAssumption DEF DispatchAssumption, TypeOK, WalkInv, Labels, Scanning,
    clientVars, mutexes, walk, history, At, Go
<1>1. ASSUME NEW t \in Threads, NEW c \in Fds, Accept(t, c)
      PROVE  TypeOK' /\ WalkInv'
  <2>1. accepts' \in Nat
    BY <1>1 DEF Accept
  <2>2. type' \in [Fds -> {"Closed", "Unidentified", "Camera", "Dispatcher"}]
    BY <1>1 DEF Accept
  <2> QED
    BY <1>1, <2>1, <2>2 DEF Accept
<1>2. ASSUME NEW t \in Threads, NEW c \in Fds, NEW r \in Roads, IAmCamera(t, c, r)
      PROVE  TypeOK' /\ WalkInv'
  BY <1>2 DEF IAmCamera
<1>3. ASSUME NEW t \in Threads, NEW c \in Fds, NEW rs \in SUBSET Roads, IAmDispatcher(t, c, rs)
      PROVE  TypeOK' /\ WalkInv'
  BY <1>3 DEF IAmDispatcher
<1>4. ASSUME NEW t \in Threads, NEW c \in Fds, Plate(t, c)
      PROVE  TypeOK' /\ WalkInv'
  BY <1>4 DEF Plate
<1>5. ASSUME NEW t \in Threads, NEW c \in Fds, Drop(t, c)
      PROVE  TypeOK' /\ WalkInv'
  BY <1>5 DEF Drop
<1>6. ASSUME NEW c \in Fds, HangUp(c)
      PROVE  TypeOK' /\ WalkInv'
  BY <1>6 DEF HangUp
<1>7. ASSUME NEW t \in Threads, LockCars(t)
      PROVE  TypeOK' /\ WalkInv'
  BY <1>7 DEF LockCars
<1>8. ASSUME NEW t \in Threads, AppendTicket(t)
      PROVE  TypeOK' /\ WalkInv'
  <2> PICK r \in roads[fd[t]] : queue' = Append(queue, [id |-> issued + 1, road |-> r])
    BY <1>8 DEF AppendTicket
  <2>1. [id |-> issued + 1, road |-> r] \in Ticket
    BY <1>8 DEF AppendTicket, Ticket
  <2>2. queue' \in Seq(Ticket) /\ Len(queue') = Len(queue) + 1
    BY <2>1
  <2>3. issued' \in 0..MaxTickets /\ ntickets' \in [Threads -> Nat]
    <3>1. /\ issued \in 0..MaxTickets /\ issued < MaxTickets
          /\ issued' = issued + 1
          /\ ntickets' = [ntickets EXCEPT ![t] = @ + 1]
      BY <1>8 DEF AppendTicket
    <3>2. issued' \in 0..MaxTickets
      <4> HIDE DEF TypeOK, WalkInv
      <4> QED
        BY <3>1
    <3>3. ntickets \in [Threads -> Nat]
      OBVIOUS
    <3>4. ntickets' \in [Threads -> Nat]
      <4> HIDE DEF TypeOK, WalkInv
      <4> QED
        BY <3>1, <3>3
    <3> QED
      BY <3>2, <3>4
  <2>4. \A u \in Threads : pc[u] \notin Scanning
    BY <1>8 DEF AppendTicket
  <2> QED
    BY <1>8, <2>2, <2>3, <2>4 DEF AppendTicket
<1>9. ASSUME NEW t \in Threads, UnlockCars(t)
      PROVE  TypeOK' /\ WalkInv'
  BY <1>9 DEF UnlockCars
<1>10. ASSUME NEW t \in Threads, LockRoadsToAdd(t)
      PROVE  TypeOK' /\ WalkInv'
  BY <1>10 DEF LockRoadsToAdd
<1>11. ASSUME NEW t \in Threads, NEW r \in Roads, AddToRoad(t, r)
      PROVE  TypeOK' /\ WalkInv'
  BY <1>11, ZenonT(30) DEF AddToRoad
<1>12. ASSUME NEW t \in Threads, UnlockRoadsAdded(t)
      PROVE  TypeOK' /\ WalkInv'
  BY <1>12 DEF UnlockRoadsAdded
<1>13. ASSUME NEW t \in Threads, CheckLen(t)
      PROVE  TypeOK' /\ WalkInv'
  BY <1>13 DEF CheckLen
<1>14. ASSUME NEW t \in Threads, LockQueue(t)
      PROVE  TypeOK' /\ WalkInv'
  <2>1. Len(queue) \in Nat /\ (queue # <<>> => Len(queue) >= 1)
    OBVIOUS
  <2>2. rounds' \in [Threads -> Nat] /\ pos' \in [Threads -> Nat]
    BY <1>14, <2>1 DEF LockQueue
  <2>3. TypeOK'
    BY <1>14, <2>2 DEF LockQueue
  <2>4. WalkInv'
    BY <1>14, <2>1 DEF LockQueue
  <2> QED
    BY <2>3, <2>4
<1>15. ASSUME NEW t \in Threads, GetRoad(t)
      PROVE  TypeOK' /\ WalkInv'
  BY <1>15, SMTT(30) DEF GetRoad
<1>16. ASSUME NEW t \in Threads, Available(t)
      PROVE  TypeOK' /\ WalkInv'
  BY <1>16 DEF Available
<1>17. ASSUME NEW t \in Threads, Pick(t)
      PROVE  TypeOK' /\ WalkInv'
  <2>0. pos[t] \in 1..Len(queue)
    BY <1>17 DEF Pick
  <2>1. queue[pos[t]] \in Ticket
    BY <2>0
  <2>2. dispatchers[queue[pos[t]].road] \subseteq Fds
    BY <2>1 DEF Ticket
  <2>3. disp' \in [Threads -> Fds \union {None}]
    BY <1>17, <2>2 DEF Pick
  <2> QED
    BY <1>17, <2>3 DEF Pick
<1>18. ASSUME NEW t \in Threads, PickNothing(t)
      PROVE  TypeOK' /\ WalkInv'
  BY <1>18 DEF PickNothing
<1>19. ASSUME NEW t \in Threads, SendTicket(t)
      PROVE  TypeOK' /\ WalkInv'
  <2>0. pos[t] \in 1..Len(queue)
    BY <1>19 DEF SendTicket
  <2>1. queue[pos[t]].id \in 1..MaxTickets
    <3>1. queue[pos[t]] \in Ticket
      BY <2>0
    <3> QED
      BY <3>1 DEF Ticket
  <2>2. copies' \in [1..MaxTickets -> Nat]
    <3> DEFINE n == queue[pos[t]].id
    <3>1. n \in 1..MaxTickets /\ copies' = [copies EXCEPT ![n] = @ + 1]
      BY <1>19, <2>1 DEF SendTicket
    <3>2. copies \in [1..MaxTickets -> Nat]
      OBVIOUS
    <3> HIDE DEF n
    <3> QED
      BY <3>1, <3>2, SMTT(30)
  <2> QED
    BY <1>19, <2>2 DEF SendTicket
<1>20. ASSUME NEW t \in Threads, SendFails(t)
      PROVE  TypeOK' /\ WalkInv'
  BY <1>20 DEF SendFails
<1>21. ASSUME NEW t \in Threads, RemoveTicket(t)
      PROVE  TypeOK' /\ WalkInv'
  <2>1. pos[t] \in 1..Len(queue) /\ rounds[t] = Len(queue)
    BY <1>21 DEF RemoveTicket
  <2>2. queue' \in Seq(Ticket) /\ Len(queue') = Len(queue) - 1
    BY <1>21, <2>1, RemoveAtProperties DEF RemoveTicket
  <2>3. rounds' \in [Threads -> Nat] /\ pos' \in [Threads -> Nat]
    BY <1>21, <2>1 DEF RemoveTicket
  <2>4. TypeOK'
    BY <1>21, <2>2, <2>3 DEF RemoveTicket
  <2>5. \A u \in Threads : u # t => pc[u] \notin Scanning
    BY <1>21 DEF RemoveTicket
  <2>6. WalkInv'
    BY <1>21, <2>1, <2>2, <2>5 DEF RemoveTicket
  <2> QED
    BY <2>4, <2>6
<1>22. ASSUME NEW t \in Threads, UnlockQueue(t)
      PROVE  TypeOK' /\ WalkInv'
  BY <1>22 DEF UnlockQueue
<1>23. ASSUME NEW t \in Threads, RemoveFd(t)
      PROVE  TypeOK' /\ WalkInv'
  BY <1>23 DEF RemoveFd
<1>24. ASSUME NEW t \in Threads, LockRoadsToRemove(t)
      PROVE  TypeOK' /\ WalkInv'
  BY <1>24 DEF LockRoadsToRemove
<1>25. ASSUME NEW t \in Threads, NEW r \in Roads, RemoveFromRoad(t, r)
      PROVE  TypeOK' /\ WalkInv'
  BY <1>25 DEF RemoveFromRoad
<1>26. ASSUME NEW t \in Threads, UnlockRoadsRemoved(t)
      PROVE  TypeOK' /\ WalkInv'
  BY <1>26 DEF UnlockRoadsRemoved
<1>27. ASSUME NEW t \in Threads, DelClient(t)
      PROVE  TypeOK' /\ WalkInv'
  BY <1>27 DEF DelClient
<1>28. CASE UNCHANGED vars
  BY <1>28 DEF vars
<1> QED
  BY <1>1, <1>2, <1>3, <1>4, <1>5, <1>6, <1>7, <1>8, <1>9, <1>10, <1>11, <1>12, <1>13, <1>14, <1>15, <1>16, <1>17, <1>18, <1>19, <1>20, <1>21, <1>22, <1>23, <1>24, <1>25, <1>26, <1>27, <1>28
     DEF Next, Event, Step, Rest

(* What the types say of the queue, in the terms the steps below use.      *)
LEMMA QueueTypes ==
  ASSUME TypeOK
  PROVE  /\ queue \in Seq(Ticket)
         /\ DOMAIN queue = 1..Len(queue) /\ Len(queue) \in Nat
         /\ issued \in 0..MaxTickets /\ issued \in Nat /\ MaxTickets \in Nat
         /\ copies \in [1..MaxTickets -> Nat]
         /\ \A i \in DOMAIN queue : queue[i].id \in 1..MaxTickets
<1>1. queue \in Seq(Ticket)
  BY DEF TypeOK
<1>2. \A i \in DOMAIN queue : queue[i] \in Ticket
  BY <1>1
<1> QED
  BY <1>1, <1>2, DispatchAssumption DEF Ticket, TypeOK, DispatchAssumption

(* What RemoveTicket leaves of the queue.                                  *)
LEMMA RemoveTicketQueue ==
  ASSUME TypeOK, WalkInv, NEW t \in Threads, RemoveTicket(t)
  PROVE  /\ pos[t] \in 1..Len(queue)
         /\ DOMAIN queue' = 1..Len(queue) - 1
         /\ \A j \in 1..Len(queue) - 1 :
              queue'[j] = IF j < pos[t] THEN queue[j] ELSE queue[j + 1]
<1>1. pos[t] \in 1..Len(queue) /\ queue \in Seq(Ticket)
  BY DEF RemoveTicket, Go, At, TypeOK, WalkInv, Scanning
<1>2. queue' = RemoveAt(queue, pos[t])
  BY DEF RemoveTicket
<1>3. /\ queue' \in Seq(Ticket) /\ Len(queue') = Len(queue) - 1
      /\ \A j \in 1..Len(queue) - 1 :
           queue'[j] = IF j < pos[t] THEN queue[j] ELSE queue[j + 1]
  BY <1>1, <1>2, RemoveAtProperties
<1>4. DOMAIN queue' = 1..Len(queue) - 1
  BY <1>3
<1> QED
  BY <1>1, <1>3, <1>4

(* What AppendTicket adds to it.                                           *)
LEMMA AppendTicketQueue ==
  ASSUME TypeOK, NEW t \in Threads, AppendTicket(t)
  PROVE  /\ DOMAIN queue' = 1..Len(queue) + 1
         /\ \A i \in 1..Len(queue) : queue'[i] = queue[i]
         /\ queue'[Len(queue) + 1].id = issued + 1
<1> PICK r \in roads[fd[t]] : queue' = Append(queue, [id |-> issued + 1, road |-> r])
  BY DEF AppendTicket
<1> QED
  BY QueueTypes

(* Every step keeps the queue in the order of issue.                       *)
LEMMA QueueInvStep ==
  TypeOK /\ WalkInv /\ QueueInv /\ [Next]_vars => QueueInv'
<1> SUFFICES ASSUME TypeOK, WalkInv, QueueInv, [Next]_vars
             PROVE  QueueInv'
  OBVIOUS
<1>0. /\ DOMAIN queue = 1..Len(queue) /\ Len(queue) \in Nat /\ issued \in Nat
      /\ \A i \in DOMAIN queue : queue[i].id \in Nat
  BY QueueTypes
<1>1. ASSUME UNCHANGED <<queue, issued>>
      PROVE  QueueInv'
  BY <1>1 DEF QueueInv
<1>2. ASSUME NEW t \in Threads, AppendTicket(t)
      PROVE  QueueInv'
  <2>1. issued' = issued + 1
    BY <1>2 DEF AppendTicket
  <2> QED
    <3>1. /\ DOMAIN queue' = 1..Len(queue) + 1
          /\ \A i \in 1..Len(queue) : queue'[i] = queue[i]
          /\ queue'[Len(queue) + 1].id = issued + 1
      BY <1>2, AppendTicketQueue
    <3>2. \A i \in DOMAIN queue' : queue'[i].id <= issued'
      BY <1>0, <2>1, <3>1 DEF QueueInv
    <3>3. ASSUME NEW i \in DOMAIN queue', NEW j \in DOMAIN queue', i < j
          PROVE  queue'[i].id < queue'[j].id
      <4>1. CASE j = Len(queue) + 1
        BY <1>0, <3>1, <3>3, <4>1 DEF QueueInv
      <4>2. CASE j \in 1..Len(queue)
        BY <1>0, <3>1, <3>3, <4>2 DEF QueueInv
      <4> QED
        BY <1>0, <3>1, <4>1, <4>2
    <3> QED
      BY <3>2, <3>3 DEF QueueInv
<1>3. ASSUME NEW t \in Threads, RemoveTicket(t)
      PROVE  QueueInv'
  <2>1. issued' = issued
    BY <1>3 DEF RemoveTicket, history
  <2>2. \A i \in DOMAIN queue' : \E k \in DOMAIN queue :
           queue'[i] = queue[k] /\ k = IF i < pos[t] THEN i ELSE i + 1
    BY <1>0, <1>3, RemoveTicketQueue
  <2>3. \A i \in DOMAIN queue' : queue'[i].id <= issued
    BY <2>2 DEF QueueInv
  <2>4. ASSUME NEW i \in DOMAIN queue', NEW j \in DOMAIN queue', i < j
        PROVE  queue'[i].id < queue'[j].id
    <3>1. PICK k \in DOMAIN queue :
             queue'[i] = queue[k] /\ k = IF i < pos[t] THEN i ELSE i + 1
      BY <2>2
    <3>2. PICK l \in DOMAIN queue :
             queue'[j] = queue[l] /\ l = IF j < pos[t] THEN j ELSE j + 1
      BY <2>2
    <3>3. k < l
      BY <1>0, <1>3, <2>4, <3>1, <3>2, RemoveTicketQueue
    <3> QED
      BY <3>1, <3>2, <3>3 DEF QueueInv
  <2> QED
    BY <2>1, <2>3, <2>4 DEF QueueInv
<1>4. ASSUME NEW t \in Threads, Event(t) \/ Step(t),
             ~AppendTicket(t), ~RemoveTicket(t)
      PROVE  UNCHANGED <<queue, issued>>
  BY <1>4 DEF Event, Step, history, Accept, IAmCamera, IAmDispatcher, Plate, Drop, LockCars, UnlockCars, LockRoadsToAdd, AddToRoad, UnlockRoadsAdded, CheckLen, LockQueue, GetRoad, Available, Pick, PickNothing, SendTicket, SendFails, UnlockQueue, RemoveFd, LockRoadsToRemove, RemoveFromRoad, UnlockRoadsRemoved, DelClient
<1>5. ASSUME NEW c \in Fds, HangUp(c)
      PROVE  UNCHANGED <<queue, issued>>
  BY <1>5 DEF HangUp, history
<1>6. CASE UNCHANGED vars
  BY <1>1, <1>6 DEF vars, history
<1> QED
  BY <1>1, <1>2, <1>3, <1>4, <1>5, <1>6 DEF Next, Rest

(* Every step keeps the account of copies: only SendTicket writes, only    *)
(* RemoveTicket unlinks, and no other thread walks in between.             *)
LEMMA CopiesInvStep ==
  TypeOK /\ WalkInv /\ QueueInv /\ CopiesInv /\ [Next]_vars => CopiesInv'
<1> SUFFICES ASSUME TypeOK, WalkInv, QueueInv, CopiesInv, [Next]_vars
             PROVE  CopiesInv'
  OBVIOUS
<1>0. /\ DOMAIN queue = 1..Len(queue) /\ Len(queue) \in Nat
      /\ issued \in 0..MaxTickets /\ issued \in Nat /\ MaxTickets \in Nat
      /\ copies \in [1..MaxTickets -> Nat]
      /\ \A i \in DOMAIN queue : queue[i].id \in 1..MaxTickets
  BY QueueTypes
<1>1. ASSUME UNCHANGED <<queue, issued, copies>>,
             \A t \in Threads : pc'[t] = "Remove" <=> pc[t] = "Remove",
             \A t \in Threads : pc[t] = "Remove" => pos'[t] = pos[t]
      PROVE  CopiesInv'
  BY <1>1 DEF CopiesInv, SentOnceOrQueued, Queued
<1>2. ASSUME NEW t \in Threads, AppendTicket(t)
      PROVE  CopiesInv'
  <2>1. /\ issued' = issued + 1 /\ issued < MaxTickets
        /\ UNCHANGED <<pc, pos, copies>>
    BY <1>2 DEF AppendTicket, walk
  <2>2. \A u \in Threads : pc[u] # "Remove"
    BY <1>2, DispatchAssumption DEF AppendTicket, WalkInv, Scanning, DispatchAssumption
  <2>3. /\ DOMAIN queue' = 1..Len(queue) + 1
        /\ \A i \in 1..Len(queue) : queue'[i] = queue[i]
        /\ queue'[Len(queue) + 1].id = issued + 1
    BY <1>2, AppendTicketQueue
  <2>4. \A n \in 1..MaxTickets : n > issued' => copies'[n] = 0
    BY <1>0, <2>1 DEF CopiesInv
  <2>5. copies[issued + 1] = 0
    BY <1>0, <2>1 DEF CopiesInv
  <2>6. ASSUME NEW i \in DOMAIN queue'
        PROVE  copies'[queue'[i].id] = 0
    <3>1. CASE i = Len(queue) + 1
      BY <2>1, <2>3, <2>5, <3>1
    <3>2. CASE i \in 1..Len(queue)
      BY <1>0, <2>1, <2>2, <2>3, <3>2 DEF CopiesInv
    <3> QED
      BY <1>0, <2>3, <3>1, <3>2
  <2>7. ASSUME NEW n \in 1..issued'
        PROVE  copies'[n] <= 1 /\ (copies'[n] = 0 => Queued(n)')
    <3>1. CASE n = issued + 1
      <4>1. Len(queue) + 1 \in DOMAIN queue'
        BY <1>0, <2>3
      <4> QED
        BY <2>1, <2>3, <2>5, <3>1, <4>1 DEF Queued
    <3>2. CASE n \in 1..issued
      BY <1>0, <2>1, <2>3, <3>2 DEF CopiesInv, SentOnceOrQueued, Queued
    <3> QED
      BY <1>0, <2>1, <3>1, <3>2
  <2> QED
    BY <2>1, <2>2, <2>4, <2>6, <2>7 DEF CopiesInv, SentOnceOrQueued
<1>3. ASSUME NEW t \in Threads, SendTicket(t)
      PROVE  CopiesInv'
  <2> DEFINE k == queue[pos[t]].id
  <2>1. /\ UNCHANGED <<queue, issued, pos>>
        /\ copies' = [copies EXCEPT ![k] = @ + 1]
        /\ pc' = [pc EXCEPT ![t] = "Remove"] /\ pc[t] = "Send"
    BY <1>3 DEF SendTicket, Go, At, walk
  <2>2. pos[t] \in DOMAIN queue
    BY <1>0, <2>1 DEF WalkInv, Scanning
  <2>3. \A u \in Threads : pc[u] # "Remove"
    BY <2>1 DEF WalkInv, Scanning
  <2>4. \A u \in Threads : pc'[u] = "Remove" <=> u = t
    BY <2>1, <2>3 DEF TypeOK
  <2>5. \A i \in DOMAIN queue : copies[queue[i].id] = 0
    BY <2>3 DEF CopiesInv
  <2>6. k \in 1..MaxTickets /\ k <= issued /\ copies[k] = 0
    BY <1>0, <2>2, <2>5 DEF QueueInv
  <2>7. \A i \in DOMAIN queue : queue[i].id = k <=> i = pos[t]
    <3>1. ASSUME NEW i \in DOMAIN queue, i # pos[t]
          PROVE  queue[i].id # queue[pos[t]].id
      <4>1. i < pos[t] \/ pos[t] < i
        BY <1>0, <2>2, <3>1
      <4>2. queue[i].id \in Nat /\ queue[pos[t]].id \in Nat
        BY <1>0, <2>2
      <4> QED
        BY <2>2, <4>1, <4>2 DEF QueueInv
    <3> QED
      BY <2>2, <3>1
  <2> HIDE DEF k
  <2>8. \A n \in 1..MaxTickets : copies'[n] = IF n = k THEN 1 ELSE copies[n]
    BY <1>0, <2>1, <2>6
  <2>9. \A n \in 1..MaxTickets : n > issued' => copies'[n] = 0
    BY <1>0, <2>1, <2>6, <2>8 DEF CopiesInv
  <2>10. ASSUME NEW i \in DOMAIN queue
         PROVE  copies'[queue[i].id] = IF i = pos[t] THEN 1 ELSE 0
    BY <1>0, <2>5, <2>7, <2>8
  <2>11. SentOnceOrQueued'
    BY <1>0, <2>1, <2>8 DEF CopiesInv, SentOnceOrQueued, Queued
  <2> QED
    BY <2>1, <2>4, <2>9, <2>10, <2>11 DEF CopiesInv
<1>4. ASSUME NEW t \in Threads, RemoveTicket(t)
      PROVE  CopiesInv'
  <2>1. /\ UNCHANGED <<copies, issued>>
        /\ queue' = RemoveAt(queue, pos[t])
        /\ pc[t] = "Remove"
        /\ \E l \in {"Unlock", "GetRoad"} : pc' = [pc EXCEPT ![t] = l]
    BY <1>4 DEF RemoveTicket, Go, At, history
  <2>2. pos[t] \in 1..Len(queue)
    BY <1>0, <2>1 DEF WalkInv, Scanning, TypeOK
  <2>3. \A u \in Threads : pc[u] = "Remove" <=> u = t
    BY <2>1 DEF WalkInv, Scanning
  <2>4. \A u \in Threads : pc'[u] # "Remove"
    BY <2>1, <2>3 DEF TypeOK
  <2>5. \A i \in DOMAIN queue : copies[queue[i].id] = IF i = pos[t] THEN 1 ELSE 0
    BY <2>3 DEF CopiesInv
  <2>6. /\ DOMAIN queue' = 1..Len(queue) - 1
        /\ \A j \in 1..Len(queue) - 1 :
             queue'[j] = IF j < pos[t] THEN queue[j] ELSE queue[j + 1]
    BY <1>4, RemoveTicketQueue
  <2>7. ASSUME NEW j \in DOMAIN queue'
        PROVE  copies[queue'[j].id] = 0
    <3>1. PICK k \in DOMAIN queue : queue'[j] = queue[k] /\ k # pos[t]
      <4>1. j \in 1..Len(queue) - 1
        BY <2>6
      <4>2. CASE j < pos[t]
        BY <1>0, <2>6, <4>1, <4>2
      <4>3. CASE j >= pos[t]
        <5>1. j + 1 \in DOMAIN queue /\ j + 1 # pos[t] /\ queue'[j] = queue[j + 1]
          BY <1>0, <2>2, <2>6, <4>1, <4>3
        <5> QED
          BY <5>1
      <4> QED
        BY <2>2, <4>1, <4>2, <4>3
    <3> QED
      BY <2>5, <3>1
  <2>8. ASSUME NEW n \in 1..issued, copies[n] = 0
        PROVE  Queued(n)'
    <3>1. PICK i \in DOMAIN queue : queue[i].id = n
      BY <2>8 DEF CopiesInv, SentOnceOrQueued, Queued
    <3>2. i # pos[t]
      BY <2>5, <2>8, <3>1
    <3>3. CASE i < pos[t]
      <4>1. i \in DOMAIN queue' /\ queue'[i] = queue[i]
        BY <1>0, <2>2, <2>6, <3>3
      <4> QED
        BY <3>1, <4>1 DEF Queued
    <3>4. CASE i > pos[t]
      <4>1. i - 1 \in DOMAIN queue' /\ queue'[i - 1] = queue[i]
        BY <1>0, <2>2, <2>6, <3>4
      <4> QED
        BY <3>1, <4>1 DEF Queued
    <3> QED
      BY <1>0, <2>2, <3>2, <3>3, <3>4
  <2> QED
    BY <2>1, <2>4, <2>7, <2>8 DEF CopiesInv, SentOnceOrQueued
<1>5. ASSUME NEW t \in Threads, Event(t) \/ Step(t),
             ~AppendTicket(t), ~SendTicket(t), ~RemoveTicket(t)
      PROVE  /\ UNCHANGED <<queue, issued, copies>>
             /\ \A u \in Threads : pc'[u] = "Remove" <=> pc[u] = "Remove"
             /\ \A u \in Threads : pc[u] = "Remove" => pos'[u] = pos[u]
  BY <1>5 DEF Event, Step, TypeOK, Go, At, history, walk, Accept, IAmCamera, IAmDispatcher, Plate, Drop, LockCars, UnlockCars, LockRoadsToAdd, AddToRoad, UnlockRoadsAdded, CheckLen, LockQueue, GetRoad, Available, Pick, PickNothing, SendFails, UnlockQueue, RemoveFd, LockRoadsToRemove, RemoveFromRoad, UnlockRoadsRemoved, DelClient
<1>6. ASSUME NEW c \in Fds, HangUp(c)
      PROVE  UNCHANGED <<queue, issued, copies, pc, pos>>
  BY <1>6 DEF HangUp, history, walk
<1>7. CASE UNCHANGED vars
  BY <1>1, <1>7 DEF vars, history, walk
<1> QED
  BY <1>1, <1>2, <1>3, <1>4, <1>5, <1>6, <1>7 DEF Next, Rest

(* A step that leaves a thread and its client alone keeps Serving.         *)
LEMMA ServingKept ==
  ASSUME NEW u \in Threads, Serving(u), fd[u] \in Fds \/ pc[u] = "Wait",
         fd'[u] = fd[u], pc'[u] = pc[u], UNCHANGED <<todo, dispatchers>>,
         fd[u] \in Fds => /\ type'[fd[u]] = type[fd[u]]
                         /\ roads'[fd[u]] = roads[fd[u]]
  PROVE  Serving(u)'
<1>1. CASE fd[u] \in Fds
  BY <1>1 DEF Serving
<1>2. CASE pc[u] = "Wait" /\ fd[u] \notin Fds
  BY <1>2 DEF Serving
<1> QED
  BY <1>1, <1>2

(* Every step keeps clients with their threads and their roads.            *)
LEMMA ClientInvStep ==
  TypeOK /\ WalkInv /\ ClientInv /\ [Next]_vars => ClientInv'
<1> SUFFICES ASSUME TypeOK, WalkInv, ClientInv, [Next]_vars
             PROVE  ClientInv'
  OBVIOUS
<1> USE DispatchAssumption DEF DispatchAssumption, TypeOK, WalkInv, ClientInv,
    NoStaleDispatcher, Serving, clientVars, Go, At, Ready
<1>1. ASSUME NEW t \in Threads, NEW c \in Fds, Accept(t, c)
      PROVE  ClientInv'
  BY <1>1 DEF Accept
<1>2. ASSUME NEW t \in Threads, NEW c \in Fds, NEW r \in Roads, IAmCamera(t, c, r)
      PROVE  ClientInv'
  BY <1>2 DEF IAmCamera
<1>3. ASSUME NEW t \in Threads, NEW c \in Fds, NEW rs \in SUBSET Roads, IAmDispatcher(t, c, rs)
      PROVE  ClientInv'
  <2>1. \A u, v \in Threads : fd'[u] = fd'[v] /\ fd'[u] # None => u = v
    BY <1>3 DEF IAmDispatcher
  <2>2. \A r \in Roads : c \notin dispatchers[r]
    BY <1>3 DEF IAmDispatcher
  <2>3. NoStaleDispatcher'
    BY <1>3, <2>2 DEF IAmDispatcher
  <2>4. \A u \in Threads \ {t} : fd[u] # c /\ fd'[u] = fd[u] /\ pc'[u] = pc[u]
    BY <1>3 DEF IAmDispatcher
  <2>5. fd'[t] = c /\ pc'[t] = "AddLock" /\ type'[c] = "Dispatcher"
    BY <1>3 DEF IAmDispatcher
  <2>6. \A d \in Fds \ {c} : type'[d] = type[d] /\ roads'[d] = roads[d]
    BY <1>3 DEF IAmDispatcher
  <2>7. UNCHANGED <<todo, dispatchers>>
    BY <1>3 DEF IAmDispatcher
  <2>8. ASSUME NEW u \in Threads PROVE Serving(u)'
    <3>1. CASE u = t
      BY <2>5, <3>1
    <3>2. CASE u # t
      <4>1. Serving(u) /\ (fd[u] \in Fds \/ pc[u] = "Wait")
        OBVIOUS
      <4> HIDE DEF Serving
      <4>2. fd[u] \in Fds => type'[fd[u]] = type[fd[u]] /\ roads'[fd[u]] = roads[fd[u]]
        BY <2>4, <2>6, <3>2
      <4>3. fd'[u] = fd[u] /\ pc'[u] = pc[u]
        BY <2>4, <3>2
      <4> QED
        BY <2>7, <4>1, <4>2, <4>3, ServingKept
    <3> QED
      BY <3>1, <3>2
  <2> QED
    BY <2>1, <2>3, <2>8
<1>4. ASSUME NEW t \in Threads, NEW c \in Fds, Plate(t, c)
      PROVE  ClientInv'
  <2>1. \A u, v \in Threads : fd'[u] = fd'[v] /\ fd'[u] # None => u = v
    BY <1>4 DEF Plate
  <2>2. UNCHANGED <<type, roads, todo, dispatchers>>
    BY <1>4 DEF Plate
  <2>3. \A u \in Threads \ {t} : fd'[u] = fd[u] /\ pc'[u] = pc[u]
    BY <1>4 DEF Plate
  <2>4. fd'[t] = c /\ pc'[t] = "LockCars" /\ type[c] # "Closed"
    BY <1>4 DEF Plate
  <2>5. ASSUME NEW u \in Threads PROVE Serving(u)'
    <3>1. CASE u = t
      BY <2>2, <2>4, <3>1
    <3>2. CASE u # t
      <4>1. Serving(u) /\ (fd[u] \in Fds \/ pc[u] = "Wait")
        OBVIOUS
      <4> HIDE DEF Serving
      <4>2. fd'[u] = fd[u] /\ pc'[u] = pc[u]
        BY <2>3, <3>2
      <4> QED
        BY <2>2, <4>1, <4>2, ServingKept
    <3> QED
      BY <3>1, <3>2
  <2>6. NoStaleDispatcher'
    BY <2>2
  <2> QED
    BY <2>1, <2>5, <2>6
<1>5. ASSUME NEW t \in Threads, NEW c \in Fds, Drop(t, c)
      PROVE  ClientInv'
  BY <1>5, SMTT(30) DEF Drop
<1>6. ASSUME NEW c \in Fds, HangUp(c)
      PROVE  ClientInv'
  BY <1>6 DEF HangUp
<1>7. ASSUME NEW t \in Threads, LockCars(t)
      PROVE  ClientInv'
  BY <1>7 DEF LockCars
<1>8. ASSUME NEW t \in Threads, AppendTicket(t)
      PROVE  ClientInv'
  BY <1>8 DEF AppendTicket
<1>9. ASSUME NEW t \in Threads, UnlockCars(t)
      PROVE  ClientInv'
  <2>1. \A u, v \in Threads : fd'[u] = fd'[v] /\ fd'[u] # None => u = v
    BY <1>9 DEF UnlockCars
  <2>2. UNCHANGED <<type, roads, todo, dispatchers>>
    BY <1>9 DEF UnlockCars
  <2>3. \A u \in Threads \ {t} : fd'[u] = fd[u] /\ pc'[u] = pc[u]
    BY <1>9 DEF UnlockCars
  <2>4. \/ fd'[t] = None /\ pc'[t] = "Wait"
        \/ fd'[t] = fd[t] /\ pc'[t] = "CheckLen"
    BY <1>9 DEF UnlockCars
  <2>5. ASSUME NEW u \in Threads PROVE Serving(u)'
    <3>1. CASE u = t
      BY <2>2, <2>4, <3>1
    <3>2. CASE u # t
      <4>1. Serving(u) /\ (fd[u] \in Fds \/ pc[u] = "Wait")
        OBVIOUS
      <4> HIDE DEF Serving
      <4>2. fd'[u] = fd[u] /\ pc'[u] = pc[u]
        BY <2>3, <3>2
      <4> QED
        BY <2>2, <4>1, <4>2, ServingKept
    <3> QED
      BY <3>1, <3>2
  <2>6. NoStaleDispatcher'
    BY <2>2
  <2> QED
    BY <2>1, <2>5, <2>6
<1>10. ASSUME NEW t \in Threads, LockRoadsToAdd(t)
      PROVE  ClientInv'
  BY <1>10 DEF LockRoadsToAdd
<1>11. ASSUME NEW t \in Threads, NEW r \in Roads, AddToRoad(t, r)
      PROVE  ClientInv'
  BY <1>11 DEF AddToRoad
<1>12. ASSUME NEW t \in Threads, UnlockRoadsAdded(t)
      PROVE  ClientInv'
  BY <1>12 DEF UnlockRoadsAdded
<1>13. ASSUME NEW t \in Threads, CheckLen(t)
      PROVE  ClientInv'
  BY <1>13 DEF CheckLen
<1>14. ASSUME NEW t \in Threads, LockQueue(t)
      PROVE  ClientInv'
  BY <1>14 DEF LockQueue
<1>15. ASSUME NEW t \in Threads, GetRoad(t)
      PROVE  ClientInv'
  BY <1>15 DEF GetRoad
<1>16. ASSUME NEW t \in Threads, Available(t)
      PROVE  ClientInv'
  BY <1>16 DEF Available
<1>17. ASSUME NEW t \in Threads, Pick(t)
      PROVE  ClientInv'
  BY <1>17 DEF Pick
<1>18. ASSUME NEW t \in Threads, PickNothing(t)
      PROVE  ClientInv'
  BY <1>18 DEF PickNothing
<1>19. ASSUME NEW t \in Threads, SendTicket(t)
      PROVE  ClientInv'
  BY <1>19 DEF SendTicket
<1>20. ASSUME NEW t \in Threads, SendFails(t)
      PROVE  ClientInv'
  BY <1>20, SMTT(30) DEF SendFails
<1>21. ASSUME NEW t \in Threads, RemoveTicket(t)
      PROVE  ClientInv'
  BY <1>21, SMTT(30) DEF RemoveTicket
<1>22. ASSUME NEW t \in Threads, UnlockQueue(t)
      PROVE  ClientInv'
  BY <1>22 DEF UnlockQueue
<1>23. ASSUME NEW t \in Threads, RemoveFd(t)
      PROVE  ClientInv'
  BY <1>23 DEF RemoveFd
<1>24. ASSUME NEW t \in Threads, LockRoadsToRemove(t)
      PROVE  ClientInv'
  BY <1>24 DEF LockRoadsToRemove
<1>25. ASSUME NEW t \in Threads, NEW r \in Roads, RemoveFromRoad(t, r)
      PROVE  ClientInv'
  BY <1>25 DEF RemoveFromRoad
<1>26. ASSUME NEW t \in Threads, UnlockRoadsRemoved(t)
      PROVE  ClientInv'
  BY <1>26 DEF UnlockRoadsRemoved
<1>27. ASSUME NEW t \in Threads, DelClient(t)
      PROVE  ClientInv'
  BY <1>27 DEF DelClient
<1>28. CASE UNCHANGED vars
  BY <1>28 DEF vars
<1> QED
  BY <1>1, <1>2, <1>3, <1>4, <1>5, <1>6, <1>7, <1>8, <1>9, <1>10, <1>11, <1>12, <1>13, <1>14, <1>15, <1>16, <1>17, <1>18, <1>19, <1>20, <1>21, <1>22, <1>23, <1>24, <1>25, <1>26, <1>27, <1>28
     DEF Next, Event, Step, Rest

(* A step that leaves the queue as it is and gives no road a dispatcher.   *)
LEMMA LookKept ==
  ASSUME LookInv, UNCHANGED <<queue, failed, panicked>>,
         \A i \in DOMAIN queue :
           dispatchers'[queue[i].road] # {} => dispatchers[queue[i].road] # {},
         \A t \in Threads, i \in DOMAIN queue :
           dispatchers[queue[i].road] # {} /\ WillSee(t, i) => WillSee(t, i)'
  PROVE  LookInv'
BY DEF LookInv

(* Every step of a thread leaves a thread that will look at each ticket    *)
(* that can be sent.                                                       *)
LEMMA LookInvStep ==
  TypeOK /\ WalkInv /\ LookInv /\ [Next]_vars => LookInv'
<1> SUFFICES ASSUME TypeOK, WalkInv, LookInv, [Next]_vars
             PROVE  LookInv'
  OBVIOUS
<1>0. /\ DOMAIN queue = 1..Len(queue) /\ Len(queue) \in Nat
      /\ \A t \in Threads : /\ pos[t] \in Nat /\ rounds[t] \in Nat
                            /\ ntickets[t] \in Nat
      /\ queue = <<>> => DOMAIN queue = {}
  BY DEF TypeOK
(* A step of t that changes where t is and nothing that WillSee speaks of. *)
<1>a. ASSUME NEW t \in Threads, NEW l,
             pc' = [pc EXCEPT ![t] = l],
             UNCHANGED <<queue, failed, panicked, dispatchers, pos>>,
             \A u \in Threads : u # t => ntickets'[u] = ntickets[u],
             \A i \in DOMAIN queue :
               dispatchers[queue[i].road] # {} /\ WillSee(t, i) => WillSee(t, i)'
      PROVE  LookInv'
  <2>1. \A u \in Threads : u # t => pc'[u] = pc[u]
    BY <1>a DEF TypeOK
  <2>2. \A u \in Threads, i \in DOMAIN queue :
          u # t /\ WillSee(u, i) => WillSee(u, i)'
    BY <1>a, <2>1 DEF WillSee
  <2> QED
    BY <1>a, <2>2, LookKept
<1> USE DEF TypeOK, Go, At, clientVars, mutexes, walk, history
<1>1. ASSUME NEW t \in Threads, NEW c \in Fds,
             Accept(t, c) \/ \E r \in Roads : IAmCamera(t, c, r)
      PROVE  LookInv'
  BY <1>1, LookKept DEF Accept, IAmCamera, WillSee
<1>2. ASSUME NEW t \in Threads, NEW c \in Fds, NEW rs \in SUBSET Roads,
             IAmDispatcher(t, c, rs)
      PROVE  LookInv'
  BY <1>2, <1>a DEF IAmDispatcher, WillSee
<1>3. ASSUME NEW t \in Threads, NEW c \in Fds, Plate(t, c)
      PROVE  LookInv'
  BY <1>3, <1>a DEF Plate, WillSee
<1>4. ASSUME NEW t \in Threads, NEW c \in Fds, Drop(t, c)
      PROVE  LookInv'
  BY <1>4, <1>a DEF Drop, WillSee
<1>5. ASSUME NEW c \in Fds, HangUp(c)
      PROVE  LookInv'
  BY <1>5, LookKept DEF HangUp, WillSee
<1>6. ASSUME NEW t \in Threads, LockCars(t)
      PROVE  LookInv'
  BY <1>6, <1>a DEF LockCars, WillSee
<1>7. ASSUME NEW t \in Threads, AppendTicket(t)
      PROVE  LookInv'
  <2>1. pc'[t] = "Append" /\ ntickets'[t] > 0
    BY <1>0, <1>7 DEF AppendTicket
  <2> QED
    BY <2>1 DEF LookInv, WillSee
<1>8. ASSUME NEW t \in Threads, UnlockCars(t)
      PROVE  LookInv'
  <2>1. /\ pc[t] = "Append"
        /\ pc' = [pc EXCEPT ![t] = IF ntickets[t] > 0 THEN "CheckLen" ELSE "Wait"]
        /\ UNCHANGED <<queue, failed, panicked, dispatchers, pos, ntickets>>
    BY <1>8 DEF UnlockCars
  <2> QED
    BY <2>1, <1>a DEF WillSee
<1>9. ASSUME NEW t \in Threads, LockRoadsToAdd(t)
      PROVE  LookInv'
  BY <1>9, <1>a DEF LockRoadsToAdd, WillSee
<1>10. ASSUME NEW t \in Threads, NEW r \in Roads, AddToRoad(t, r)
      PROVE  LookInv'
  <2>1. pc'[t] = "Adding"
    BY <1>10 DEF AddToRoad
  <2> QED
    BY <2>1 DEF LookInv, WillSee
<1>11. ASSUME NEW t \in Threads, UnlockRoadsAdded(t)
      PROVE  LookInv'
  BY <1>11, <1>a DEF UnlockRoadsAdded, WillSee
<1>12. ASSUME NEW t \in Threads, CheckLen(t)
      PROVE  LookInv'
  <2>1. /\ pc' = [pc EXCEPT ![t] = IF queue = <<>> THEN "Wait" ELSE "LockQueue"]
        /\ UNCHANGED <<queue, failed, panicked, dispatchers, pos, ntickets>>
    BY <1>12 DEF CheckLen
  <2> QED
    BY <1>0, <2>1, <1>a DEF WillSee
<1>13. ASSUME NEW t \in Threads, LockQueue(t)
      PROVE  LookInv'
  <2>1. /\ pc[t] = "LockQueue" /\ pos'[t] = 1
        /\ pc'[t] = IF queue = <<>> THEN "Unlock" ELSE "GetRoad"
        /\ \A u \in Threads : u # t => pc'[u] = pc[u] /\ pos'[u] = pos[u]
        /\ UNCHANGED <<queue, failed, panicked, dispatchers, ntickets>>
    BY <1>13 DEF LockQueue
  <2>2. ASSUME NEW u \in Threads, NEW i \in DOMAIN queue, WillSee(u, i)
        PROVE  WillSee(u, i)'
    <3>1. queue # <<>> /\ 1 <= i
      BY <1>0
    <3> QED
      BY <2>1, <2>2, <3>1 DEF WillSee
  <2> QED
    BY <2>1, <2>2, LookKept
<1>14. ASSUME NEW t \in Threads, GetRoad(t)
      PROVE  LookInv'
  <2>1. /\ pc[t] = "GetRoad"
        /\ pc' = [pc EXCEPT ![t] = IF pos[t] > Len(queue) THEN "Unlock"
                                                          ELSE "Available"]
        /\ UNCHANGED <<queue, failed, panicked, dispatchers, pos, ntickets>>
    BY <1>14 DEF GetRoad
  <2>2. \A i \in DOMAIN queue : WillSee(t, i) => WillSee(t, i)'
    BY <1>0, <2>1 DEF WillSee
  <2> QED
    BY <2>1, <2>2, <1>a
<1>15. ASSUME NEW t \in Threads, Available(t)
      PROVE  LookInv'
  <2> DEFINE none == dispatchers[queue[pos[t]].road] = {}
  <2>1. /\ pc[t] = "Available"
        /\ pc'[t] = IF none THEN "GetRoad" ELSE "Pick"
        /\ pos'[t] = IF none THEN pos[t] + 1 ELSE pos[t]
        /\ \A u \in Threads : u # t => pc'[u] = pc[u] /\ pos'[u] = pos[u]
        /\ UNCHANGED <<queue, failed, panicked, dispatchers, ntickets>>
    BY <1>15 DEF Available
  <2>2. ASSUME NEW u \in Threads, NEW i \in DOMAIN queue,
               dispatchers[queue[i].road] # {}, WillSee(u, i)
        PROVE  WillSee(u, i)'
    <3>1. CASE u = t /\ none
      <4>1. pos[t] <= i /\ i # pos[t]
        BY <2>1, <2>2, <3>1 DEF WillSee
      <4> QED
        BY <1>0, <2>1, <3>1, <4>1, SMTT(30) DEF WillSee
    <3>2. CASE u = t /\ ~none
      BY <2>1, <3>2 DEF WillSee
    <3>3. CASE u # t
      BY <2>1, <2>2, <3>3 DEF WillSee
    <3> QED
      BY <3>1, <3>2, <3>3
  <2> QED
    BY <2>1, <2>2, LookKept
<1>16. ASSUME NEW t \in Threads, Pick(t) \/ SendTicket(t)
      PROVE  LookInv'
  BY <1>16, <1>a DEF Pick, SendTicket, WillSee
<1>17. ASSUME NEW t \in Threads, PickNothing(t) \/ SendFails(t)
      PROVE  LookInv'
  BY <1>17 DEF PickNothing, SendFails, LookInv
<1>18. ASSUME NEW t \in Threads, RemoveTicket(t)
      PROVE  LookInv'
  <2>1. /\ rounds[t] = Len(queue) /\ DOMAIN queue' = 1..Len(queue) - 1
        /\ pos'[t] = 1
        /\ pc'[t] = IF rounds[t] = 1 THEN "Unlock" ELSE "GetRoad"
    BY <1>18, RemoveTicketQueue DEF RemoveTicket, WalkInv, Scanning
  <2>2. ASSUME NEW i \in DOMAIN queue' PROVE WillSee(t, i)'
    <3>1. i \in 1..Len(queue) - 1
      BY <2>1
    <3>2. Len(queue) # 1 /\ 1 <= i
      <4>1. \A n \in Nat : \A k \in 1..n - 1 : n # 1 /\ 1 <= k
        OBVIOUS
      <4> QED
        BY <1>0, <3>1, <4>1
    <3>3. pc'[t] = "GetRoad" /\ pos'[t] = 1
      BY <2>1, <3>2
    <3> QED
      BY <3>2, <3>3 DEF WillSee
  <2> QED
    BY <2>2 DEF LookInv
<1>19. ASSUME NEW t \in Threads, UnlockQueue(t)
      PROVE  LookInv'
  <2>1. /\ pc[t] = "Unlock"
        /\ \A u \in Threads : u # t => pc'[u] = pc[u] /\ pos'[u] = pos[u]
        /\ UNCHANGED <<queue, failed, panicked, dispatchers, ntickets>>
    BY <1>19 DEF UnlockQueue
  <2>2. \A u \in Threads, i \in DOMAIN queue : WillSee(u, i) => WillSee(u, i)'
    BY <2>1 DEF WillSee
  <2> QED
    BY <2>1, <2>2, LookKept
<1>20. ASSUME NEW t \in Threads,
              RemoveFd(t) \/ LockRoadsToRemove(t) \/ UnlockRoadsRemoved(t)
                \/ DelClient(t)
      PROVE  LookInv'
  <2>1. PICK l : pc' = [pc EXCEPT ![t] = l]
    BY <1>20 DEF RemoveFd, LockRoadsToRemove, UnlockRoadsRemoved, DelClient
  <2> QED
    BY <1>20, <2>1, <1>a
       DEF RemoveFd, LockRoadsToRemove, UnlockRoadsRemoved, DelClient, WillSee
<1>21. ASSUME NEW t \in Threads, NEW r \in Roads, RemoveFromRoad(t, r)
      PROVE  LookInv'
  <2>1. /\ UNCHANGED <<queue, failed, panicked, pc, pos, ntickets>>
        /\ dispatchers' = [dispatchers EXCEPT ![r] = @ \ {fd[t]}]
    BY <1>21 DEF RemoveFromRoad
  <2>2. \A q \in Roads : dispatchers'[q] # {} => dispatchers[q] # {}
    BY <2>1
  <2>3. \A i \in DOMAIN queue : queue[i].road \in Roads
    <3>1. \A i \in DOMAIN queue : queue[i] \in Ticket
      BY <1>0
    <3> QED
      BY <3>1 DEF Ticket
  <2> QED
    BY <2>1, <2>2, <2>3, LookKept DEF WillSee
<1>22. CASE UNCHANGED vars
  BY <1>22, LookKept DEF vars, WillSee
<1> QED
  BY <1>1, <1>2, <1>3, <1>4, <1>5, <1>6, <1>7, <1>8, <1>9, <1>10, <1>11, <1>12,
     <1>13, <1>14, <1>15, <1>16, <1>17, <1>18, <1>19, <1>20, <1>21, <1>22
     DEF Next, Event, Step, Rest

(* The remaining parts of the invariant hold initially.                    *)
LEMMA OtherInit == Init => QueueInv /\ CopiesInv /\ ClientInv /\ LookInv
<1> SUFFICES ASSUME Init PROVE QueueInv /\ CopiesInv /\ ClientInv /\ LookInv
  OBVIOUS
<1>1. QueueInv
  BY DEF Init, QueueInv
<1>2. CopiesInv
  BY DispatchAssumption DEF DispatchAssumption, Init, CopiesInv, SentOnceOrQueued, Queued
<1>3. ClientInv
  BY DispatchAssumption DEF DispatchAssumption, Init, ClientInv, NoStaleDispatcher, Serving
<1>4. LookInv
  BY DEF Init, LookInv
<1> QED
  BY <1>1, <1>2, <1>3, <1>4

(* The invariant holds in every reachable state of the worker threads      *)
(* (main.zig:286-429 with the queue and road operations of logic.zig).     *)
THEOREM DispatchInvariant == Spec => []DispatchInv
<1>1. Init => DispatchInv
  BY TypeWalkInit, OtherInit DEF DispatchInv
<1>2. DispatchInv /\ [Next]_vars => DispatchInv'
  BY TypeWalkStep, QueueInvStep, CopiesInvStep, ClientInvStep, LookInvStep
     DEF DispatchInv
<1> QED
  BY <1>1, <1>2, PTL DEF Spec

(* Every variable keeps its type.                                          *)
THEOREM TypeCorrect == Spec => []TypeOK
<1>1. DispatchInv => TypeOK
  BY DEF DispatchInv
<1> QED
  BY <1>1, DispatchInvariant, PTL

(* No ticket is written to a socket twice and none leaves the queue        *)
(* unwritten, for any number of threads, clients and tickets, whichever    *)
(* sends fail (dispatchTicketsQueue, logic.zig:65-105).                    *)
THEOREM TicketsSentOnceOrQueued == Spec => []SentOnceOrQueued
<1>1. DispatchInv => SentOnceOrQueued
  BY DEF DispatchInv, CopiesInv
<1> QED
  BY <1>1, DispatchInvariant, PTL

(* No descriptor stays registered for a road once the dispatcher that      *)
(* registered it is gone (removeFd, main.zig:129-145).                     *)
THEOREM DispatchersNeverStale == Spec => []NoStaleDispatcher
<1>1. DispatchInv => NoStaleDispatcher
  BY DEF DispatchInv, ClientInv
<1> QED
  BY <1>1, DispatchInvariant, PTL

(* While no send has failed, a ticket for a road that has a dispatcher     *)
(* never waits in the queue with every thread back in epoll_wait: although *)
(* the queue's length and the road's dispatchers are read without a mutex  *)
(* (logic.zig:65-105).                                                     *)
THEOREM NoneStranded == Spec => []NoStrandedTicket
<1>1. DispatchInv => NoStrandedTicket
  <2>1. \A t \in Threads, i \in DOMAIN queue : pc[t] = "Wait" => ~WillSee(t, i)
    BY DEF WillSee
  <2> QED
    BY <2>1 DEF DispatchInv, LookInv, NoStrandedTicket
<1> QED
  BY <1>1, DispatchInvariant, PTL

-----------------------------------------------------------------------------
(* The service.                                                            *)

(* What the service knows: the tickets it has to deliver, and the delivery *)
(* under way.                                                              *)
Pending == {queue[i] : i \in {j \in DOMAIN queue : copies[queue[j].id] = 0}}
Assigned == {<<queue[pos[t]], disp[t]>> : t \in {u \in Threads : pc[u] = "Send"}}

LEMMA ServiceVars ==
  /\ Service!vars = <<issued, Pending, dispatchers, Assigned>>
  /\ Service!vars' = <<issued', Pending', dispatchers', Assigned'>>
BY DEF Service!vars, Pending, Assigned

LEMMA ServiceInit == Init => Service!Init
<1> SUFFICES ASSUME Init PROVE Service!Init
  OBVIOUS
<1>1. DOMAIN queue = {} /\ \A t \in Threads : pc[t] # "Send"
  BY DEF Init
<1>2. Pending = {} /\ Assigned = {}
  BY <1>1 DEF Pending, Assigned
<1> QED
  BY <1>2 DEF Init, Service!Init, Pending, Assigned

(* No two threads walk the queue, since both would hold its mutex.         *)
LEMMA OneWalk ==
  ASSUME TypeOK, WalkInv, NEW t \in Threads, NEW u \in Threads,
         pc[t] \in Scanning, pc[u] \in Scanning
  PROVE  t = u
BY DEF WalkInv

(* Nothing is being delivered unless a thread is at Send, and then it is   *)
(* that thread's ticket.                                                   *)
LEMMA AssignedBy ==
  ASSUME TypeOK, WalkInv, NEW t \in Threads, pc[t] \in Scanning
  PROVE  Assigned = IF pc[t] = "Send" THEN {<<queue[pos[t]], disp[t]>>} ELSE {}
<1>1. \A u \in Threads : pc[u] = "Send" => u = t
  BY OneWalk DEF Scanning
<1> QED
  BY <1>1 DEF Assigned

(* A step that the service does not see.                                   *)
LEMMA Unseen ==
  ASSUME UNCHANGED <<queue, copies, dispatchers, issued>>,
         \A u \in Threads :
           /\ (pc'[u] = "Send") = (pc[u] = "Send")
           /\ pc[u] = "Send" => pos'[u] = pos[u] /\ disp'[u] = disp[u]
  PROVE  UNCHANGED Service!vars
<1>1. Pending' = Pending
  BY DEF Pending
<1>2. Assigned' = Assigned
  BY DEF Assigned
<1> QED
  BY <1>1, <1>2, ServiceVars

(* A new ticket is pending.                                                *)
LEMMA Issued ==
  ASSUME DispatchInv, NEW t \in Threads, AppendTicket(t)
  PROVE  Service!Next
<1>a. TypeOK /\ WalkInv /\ QueueInv /\ CopiesInv /\ ClientInv
  BY DEF DispatchInv
<1>1. PICK r \in roads[fd[t]] :
        queue' = Append(queue, [id |-> issued + 1, road |-> r])
  BY DEF AppendTicket
<1>2. r \in Roads /\ issued < MaxTickets /\ issued' = issued + 1
  <2>1. fd[t] \in Fds
    BY <1>a DEF AppendTicket, At, WalkInv
  <2> QED
    BY <1>a, <2>1 DEF AppendTicket, TypeOK
<1>3. UNCHANGED <<dispatchers, copies, pc, pos, disp>>
  BY DEF AppendTicket, walk
<1>4. /\ DOMAIN queue = 1..Len(queue) /\ Len(queue) \in Nat
      /\ DOMAIN queue' = 1..Len(queue) + 1
      /\ \A i \in 1..Len(queue) : queue'[i] = queue[i]
      /\ queue'[Len(queue) + 1] = [id |-> issued + 1, road |-> r]
  BY <1>a, <1>1, AppendTicketQueue, QueueTypes
<1>5. copies[issued + 1] = 0
  <2>1. issued + 1 \in 1..MaxTickets /\ issued + 1 > issued
    BY <1>a, <1>2, QueueTypes
  <2> QED
    BY <1>a, <2>1 DEF CopiesInv
<1>6. Pending' = Pending \union {[id |-> issued + 1, road |-> r]}
  <2>1. ASSUME NEW tk
        PROVE  tk \in Pending' <=> \E i \in DOMAIN queue' :
                                     copies[queue'[i].id] = 0 /\ tk = queue'[i]
    BY <1>3 DEF Pending
  <2>2. ASSUME NEW tk
        PROVE  tk \in Pending <=> \E i \in DOMAIN queue :
                                    copies[queue[i].id] = 0 /\ tk = queue[i]
    BY DEF Pending
  <2>3. DOMAIN queue' = DOMAIN queue \union {Len(queue) + 1}
    BY <1>4
  <2>4. ASSUME NEW tk
        PROVE  tk \in Pending' <=>
                 tk \in Pending \/ tk = [id |-> issued + 1, road |-> r]
    BY <1>4, <1>5, <2>1, <2>2, <2>3
  <2> QED
    BY <2>4
<1>7. Assigned' = Assigned
  <2>1. \A u \in Threads : pc[u] # "Send"
    <3>1. ticketsMutex = None
      BY DEF AppendTicket
    <3> QED
      BY <1>a, <3>1, DispatchAssumption
         DEF DispatchAssumption, WalkInv, Scanning
  <2> QED
    BY <1>3, <2>1 DEF Assigned
<1>8. Service!Issue(r)
  BY <1>2, <1>3, <1>6, <1>7 DEF Service!Issue, Pending, Assigned
<1> QED
  BY <1>2, <1>8 DEF Service!Next

(* Its place in the queue says which ticket a thread is about to send, and *)
(* that it has not been sent.                                              *)
LEMMA AtTicket ==
  ASSUME DispatchInv, NEW t \in Threads, pc[t] \in {"Pick", "Send"}
  PROVE  /\ pos[t] \in DOMAIN queue /\ queue[pos[t]] \in Ticket
         /\ copies[queue[pos[t]].id] = 0
<1>a. TypeOK /\ WalkInv /\ CopiesInv
  BY DEF DispatchInv
<1>1. pos[t] \in DOMAIN queue
  BY <1>a, QueueTypes DEF WalkInv, Scanning
<1>2. queue[pos[t]] \in Ticket
  BY <1>a, <1>1, QueueTypes
<1>3. \A u \in Threads : pc[u] # "Remove"
  BY <1>a, OneWalk DEF Scanning
<1> QED
  BY <1>a, <1>1, <1>2, <1>3 DEF CopiesInv

(* A dispatcher is picked for a pending ticket.                            *)
LEMMA Picked ==
  ASSUME DispatchInv, NEW t \in Threads, Pick(t)
  PROVE  Service!Next
<1>a. TypeOK /\ WalkInv /\ TypeOK' /\ WalkInv'
  BY TypeWalkStep DEF DispatchInv, Next, Step
<1> DEFINE tk == queue[pos[t]]
<1>1. PICK d \in dispatchers[tk.road] : disp' = [disp EXCEPT ![t] = d]
  BY DEF Pick
<1>2. /\ pc[t] = "Pick" /\ pc'[t] = "Send" /\ disp'[t] = d
      /\ UNCHANGED <<queue, copies, dispatchers, issued, pos>>
  BY <1>a, <1>1 DEF Pick, Go, At, TypeOK, history
<1>3. pos[t] \in DOMAIN queue /\ tk \in Ticket /\ copies[tk.id] = 0
  BY <1>2, AtTicket
<1>4. tk \in Pending /\ Pending' = Pending
  BY <1>2, <1>3 DEF Pending
<1>5. Assigned = {}
  BY <1>a, <1>2, AssignedBy DEF Scanning
<1>6. Assigned' = {<<tk, d>>}
  <2>1. ASSUME NEW u \in Threads, pc'[u] = "Send" PROVE u = t
    <3>1. ticketsMutex' = t /\ ticketsMutex' = u
      BY <1>a, <1>2, <2>1 DEF WalkInv, Scanning
    <3> QED
      BY <3>1
  <2> QED
    BY <1>2, <2>1 DEF Assigned
<1>7. d \in Fds
  BY <1>a, <1>1, <1>3 DEF TypeOK, Ticket
<1>8. Service!Assign(tk, d)
  BY <1>1, <1>2, <1>4, <1>5, <1>6 DEF Service!Assign, Pending, Assigned
<1> QED
  BY <1>4, <1>7, <1>8 DEF Service!Next, Pending

(* A ticket that is written is delivered: it is the one that was assigned, *)
(* and no other entry of the queue is the same ticket.                     *)
LEMMA Delivered ==
  ASSUME DispatchInv, NEW t \in Threads, SendTicket(t)
  PROVE  Service!Next
<1>a. TypeOK /\ WalkInv /\ QueueInv
  BY DEF DispatchInv
<1> DEFINE tk == queue[pos[t]]
<1>1. /\ pc[t] = "Send" /\ pc' = [pc EXCEPT ![t] = "Remove"]
      /\ copies' = [copies EXCEPT ![tk.id] = @ + 1]
      /\ UNCHANGED <<queue, dispatchers, issued, pos, disp>>
  BY DEF SendTicket, Go, At, walk
<1>2. pos[t] \in DOMAIN queue /\ tk \in Ticket /\ copies[tk.id] = 0
  BY <1>1, AtTicket
<1>3. /\ DOMAIN queue = 1..Len(queue) /\ Len(queue) \in Nat
      /\ \A i \in DOMAIN queue : queue[i].id \in 1..MaxTickets
      /\ copies \in [1..MaxTickets -> Nat]
  BY <1>a, QueueTypes
<1>4. \A i \in DOMAIN queue :
        copies'[queue[i].id] = 0 <=> copies[queue[i].id] = 0 /\ queue[i] # tk
  <2>1. ASSUME NEW i \in DOMAIN queue, queue[i].id = tk.id PROVE i = pos[t]
    <3>1. i < pos[t] \/ pos[t] < i \/ i = pos[t]
      BY <1>2, <1>3
    <3>2. queue[i].id \in Nat /\ tk.id \in Nat
      BY <1>2, <1>3
    <3> QED
      BY <1>a, <1>2, <2>1, <3>1, <3>2 DEF QueueInv
  <2>2. copies'[tk.id] = 1
    BY <1>1, <1>2, <1>3
  <2>3. ASSUME NEW i \in DOMAIN queue, queue[i].id # tk.id
        PROVE  copies'[queue[i].id] = copies[queue[i].id]
    BY <1>1, <1>3, <2>3
  <2> QED
    BY <2>1, <2>2, <2>3
<1>5. Pending' = Pending \ {tk}
  BY <1>1, <1>4 DEF Pending
<1>6. Assigned = {<<tk, disp[t]>>}
  BY <1>a, <1>1, AssignedBy DEF Scanning
<1>7. Assigned' = {}
  <2>1. ASSUME NEW u \in Threads PROVE pc'[u] # "Send"
    BY <1>a, <1>1, OneWalk DEF TypeOK, Scanning
  <2> QED
    BY <2>1 DEF Assigned
<1>8. Service!Deliver
  <2>1. <<tk, disp[t]>> \in Assigned /\ <<tk, disp[t]>>[1] = tk
    BY <1>6
  <2> QED
    BY <1>1, <1>5, <1>7, <2>1 DEF Service!Deliver, Pending, Assigned
<1> QED
  BY <1>8 DEF Service!Next

(* A failing write leaves the ticket pending.                              *)
LEMMA Failed ==
  ASSUME DispatchInv, NEW t \in Threads, SendFails(t)
  PROVE  Service!Next
<1>a. TypeOK /\ WalkInv
  BY DEF DispatchInv
<1>1. /\ pc[t] = "Send" /\ pc' = [pc EXCEPT ![t] = "RemoveFd"]
      /\ UNCHANGED <<queue, copies, dispatchers, issued>>
  BY DEF SendFails, Go, At
<1>2. Pending' = Pending
  BY <1>1 DEF Pending
<1>3. Assigned # {}
  BY <1>1 DEF Assigned
<1>4. Assigned' = {}
  <2>1. ASSUME NEW u \in Threads PROVE pc'[u] # "Send"
    BY <1>a, <1>1, OneWalk DEF TypeOK, Scanning
  <2> QED
    BY <2>1 DEF Assigned
<1>5. Service!Fail
  BY <1>1, <1>2, <1>3, <1>4 DEF Service!Fail, Pending, Assigned
<1> QED
  BY <1>5 DEF Service!Next

(* Unlinking the node of a ticket that has been sent changes nothing.      *)
LEMMA Unlinked ==
  ASSUME DispatchInv, NEW t \in Threads, RemoveTicket(t)
  PROVE  UNCHANGED Service!vars
<1>a. TypeOK /\ WalkInv /\ CopiesInv
  BY DEF DispatchInv
<1>1. /\ pc[t] = "Remove" /\ pc'[t] # "Send"
      /\ \A u \in Threads : u # t => pc'[u] = pc[u]
      /\ UNCHANGED <<copies, dispatchers, issued>>
  BY <1>a DEF RemoveTicket, Go, At, history, TypeOK
<1>2. /\ DOMAIN queue = 1..Len(queue) /\ Len(queue) \in Nat
      /\ pos[t] \in 1..Len(queue)
      /\ DOMAIN queue' = 1..Len(queue) - 1
      /\ \A j \in 1..Len(queue) - 1 :
           queue'[j] = IF j < pos[t] THEN queue[j] ELSE queue[j + 1]
  BY <1>a, QueueTypes, RemoveTicketQueue
<1>3. copies[queue[pos[t]].id] = 1
  BY <1>a, <1>1, <1>2 DEF CopiesInv
<1>4. Pending' = Pending
  <2>1. ASSUME NEW i \in DOMAIN queue', copies[queue'[i].id] = 0
        PROVE  \E j \in DOMAIN queue : queue'[i] = queue[j]
    <3>1. i \in DOMAIN queue /\ i + 1 \in DOMAIN queue
      BY <1>2
    <3> QED
      BY <1>2, <3>1
  <2>2. ASSUME NEW j \in DOMAIN queue, copies[queue[j].id] = 0
        PROVE  \E i \in DOMAIN queue' : queue'[i] = queue[j]
    <3>1. j # pos[t]
      BY <1>3, <2>2
    <3>2. CASE j < pos[t]
      <4>1. j \in 1..Len(queue) - 1
        BY <1>2, <3>2
      <4> QED
        BY <1>2, <3>2, <4>1
    <3>3. CASE j > pos[t]
      <4>1. j - 1 \in 1..Len(queue) - 1 /\ ~(j - 1 < pos[t]) /\ (j - 1) + 1 = j
        BY <1>2, <3>3
      <4> QED
        BY <1>2, <4>1
    <3> QED
      BY <1>2, <3>1, <3>2, <3>3
  <2>3. ASSUME NEW tk
        PROVE  tk \in Pending' <=> \E i \in DOMAIN queue' :
                                     copies[queue'[i].id] = 0 /\ tk = queue'[i]
    BY <1>1 DEF Pending
  <2>4. ASSUME NEW tk
        PROVE  tk \in Pending <=> \E i \in DOMAIN queue :
                                    copies[queue[i].id] = 0 /\ tk = queue[i]
    BY DEF Pending
  <2>5. ASSUME NEW tk PROVE tk \in Pending' <=> tk \in Pending
    BY <2>1, <2>2, <2>3, <2>4
  <2> QED
    BY <2>5
<1>5. Assigned = {} /\ Assigned' = {}
  <2>1. \A u \in Threads : pc[u] # "Send" /\ pc'[u] # "Send"
    BY <1>a, <1>1, OneWalk DEF Scanning
  <2> QED
    BY <2>1 DEF Assigned
<1> QED
  BY <1>1, <1>4, <1>5, ServiceVars

(* Every step of the threads and of their clients.                         *)
LEMMA ServiceStep ==
  DispatchInv /\ [Next]_vars => [Service!Next]_(Service!vars)
<1> SUFFICES ASSUME DispatchInv, [Next]_vars
             PROVE  Service!Next \/ UNCHANGED Service!vars
  OBVIOUS
<1>a. TypeOK /\ WalkInv /\ ClientInv
  BY DEF DispatchInv
<1>1. ASSUME NEW t \in Threads, NEW r \in Roads,
             AddToRoad(t, r) \/ RemoveFromRoad(t, r)
      PROVE  Service!Next
  <2>1. /\ UNCHANGED <<queue, copies, issued, pc, pos, disp>>
        /\ \/ dispatchers' = [dispatchers EXCEPT ![r] = @ \union {fd[t]}]
           \/ dispatchers' = [dispatchers EXCEPT ![r] = @ \ {fd[t]}]
    BY <1>1 DEF AddToRoad, RemoveFromRoad, walk, history
  <2>2. fd[t] \in Fds
    BY <1>a, <1>1 DEF AddToRoad, RemoveFromRoad, At, WalkInv
  <2>3. Pending' = Pending /\ Assigned' = Assigned
    BY <2>1 DEF Pending, Assigned
  <2>4. Service!Watch(fd[t], r) \/ Service!Unwatch(fd[t], r)
    BY <2>1, <2>3 DEF Service!Watch, Service!Unwatch, Pending, Assigned
  <2> QED
    BY <2>2, <2>4 DEF Service!Next
<1>2. ASSUME NEW t \in Threads,
             AppendTicket(t) \/ Pick(t) \/ SendTicket(t) \/ SendFails(t)
      PROVE  Service!Next
  BY <1>2, Issued, Picked, Delivered, Failed
<1>3. ASSUME NEW t \in Threads, RemoveTicket(t)
      PROVE  UNCHANGED Service!vars
  BY <1>3, Unlinked
(* The other steps of a thread take it from one label to another, neither  *)
(* of them Send.                                                           *)
<1>b. ASSUME NEW t \in Threads, UNCHANGED <<queue, copies, dispatchers, issued>>,
             pc[t] # "Send", pc'[t] # "Send",
             \A u \in Threads : u # t =>
               pc'[u] = pc[u] /\ pos'[u] = pos[u] /\ disp'[u] = disp[u]
      PROVE  UNCHANGED Service!vars
  BY <1>b, Unseen
<1> USE DEF At, Go, walk, history, TypeOK
<1>4. ASSUME NEW t \in Threads, NEW c \in Fds, NEW rs \in SUBSET Roads,
             IAmDispatcher(t, c, rs) \/ Plate(t, c) \/ Drop(t, c)
      PROVE  UNCHANGED Service!vars
  BY <1>a, <1>4, <1>b DEF IAmDispatcher, Plate, Drop
<1>5. ASSUME NEW t \in Threads,
             \/ LockCars(t) \/ UnlockCars(t) \/ LockRoadsToAdd(t)
             \/ UnlockRoadsAdded(t) \/ LockRoadsToRemove(t)
             \/ UnlockRoadsRemoved(t) \/ CheckLen(t)
      PROVE  UNCHANGED Service!vars
  BY <1>a, <1>5, <1>b DEF LockCars, UnlockCars, LockRoadsToAdd,
       UnlockRoadsAdded, LockRoadsToRemove, UnlockRoadsRemoved, CheckLen
<1>6. ASSUME NEW t \in Threads,
             LockQueue(t) \/ GetRoad(t) \/ Available(t) \/ UnlockQueue(t)
      PROVE  UNCHANGED Service!vars
  BY <1>a, <1>6, <1>b DEF LockQueue, GetRoad, Available, UnlockQueue
<1>7. ASSUME NEW t \in Threads, RemoveFd(t) \/ DelClient(t)
      PROVE  UNCHANGED Service!vars
  BY <1>a, <1>7, <1>b DEF RemoveFd, DelClient
<1>8. ASSUME NEW t \in Threads, NEW c \in Fds, NEW r \in Roads,
             IAmCamera(t, c, r)
      PROVE  UNCHANGED Service!vars
  BY <1>8, Unseen DEF IAmCamera
<1>9. ASSUME NEW t \in Threads, NEW c \in Fds, Accept(t, c)
      PROVE  UNCHANGED Service!vars
  BY <1>9, Unseen DEF Accept
<1>10. ASSUME NEW t \in Threads, PickNothing(t)
       PROVE  UNCHANGED Service!vars
  BY <1>10, Unseen DEF PickNothing
<1>11. ASSUME NEW c \in Fds, HangUp(c)
       PROVE  UNCHANGED Service!vars
  BY <1>11, Unseen DEF HangUp
<1>12. CASE UNCHANGED vars
  BY <1>12, Unseen DEF vars
<1> HIDE DEF At, Go, walk, history, TypeOK
<1> QED
  BY <1>1, <1>2, <1>3, <1>4, <1>5, <1>6, <1>7, <1>8, <1>9, <1>10, <1>11, <1>12
     DEF Next, Event, Step, Rest

(* The threads, with their mutexes and unlocked reads, implement a service *)
(* in which a ticket is pending until it has been delivered, and is        *)
(* assigned to one descriptor that watches its road at a time.             *)
THEOREM ServiceImplemented == Spec => ImplementsService
<1> USE DEF ImplementsService, Service!Spec
<1> QED
  BY ServiceInit, ServiceStep, DispatchInvariant, PTL DEF Spec
=============================================================================
