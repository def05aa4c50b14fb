--------------------------- MODULE SpeedEpollProofs ---------------------------
(***************************************************************************)
(* Proofs about SpeedEpoll for any threads, descriptors and bounds: with   *)
(* everything that may go wrong, what an intact client owns is open; and   *)
(* without heartbeats a client is one thread's at a time, so that no       *)
(* pointer dangles and no descriptor is forgotten.                         *)
(***************************************************************************)
EXTENDS SpeedEpoll, TLAPS

Events == [fd : Fds \union {Server}, rdhup : BOOLEAN]

(* What is left of a sequence when its head is taken.                      *)
LEMMA TailElements ==
  ASSUME NEW S, NEW s \in Seq(S), s # <<>>
  PROVE  /\ Head(s) \in S /\ Head(s) = s[1] /\ 1 \in DOMAIN s
         /\ Tail(s) \in Seq(S)
         /\ Len(s) = 1 <=> Tail(s) = <<>>
         /\ \A i \in DOMAIN Tail(s) :
              i \in Nat /\ i >= 1 /\ i + 1 \in DOMAIN s /\ Tail(s)[i] = s[i + 1]
         /\ \A i \in DOMAIN s :
              i \in Nat /\ (i = 1 \/ (i - 1 \in DOMAIN Tail(s) /\ Tail(s)[i - 1] = s[i]))
<1>1. Len(s) \in Nat /\ Len(s) >= 1 /\ DOMAIN s = 1..Len(s)
  OBVIOUS
<1>2. Head(s) \in S /\ Head(s) = s[1] /\ 1 \in DOMAIN s
  BY <1>1
<1>3. Tail(s) \in Seq(S) /\ Len(Tail(s)) = Len(s) - 1
  BY <1>1
<1>4. DOMAIN Tail(s) = 1..(Len(s) - 1)
  BY <1>1, <1>3
<1>5. Len(s) = 1 <=> Tail(s) = <<>>
  <2>1. \A e \in Seq(S) : Len(e) = 0 <=> e = <<>>
    OBVIOUS
  <2>2. Len(s) = 1 <=> Len(Tail(s)) = 0
    BY <1>1, <1>3
  <2> QED
    BY <1>3, <2>1, <2>2
<1>6. \A i \in 1..(Len(s) - 1) : Tail(s)[i] = s[i + 1]
  BY <1>1
<1>7. \A i \in DOMAIN Tail(s) :
        i \in Nat /\ i >= 1 /\ i + 1 \in DOMAIN s /\ Tail(s)[i] = s[i + 1]
  BY <1>1, <1>4, <1>6
<1>8. \A i \in DOMAIN s :
        i \in Nat /\ (i = 1 \/ (i - 1 \in DOMAIN Tail(s) /\ Tail(s)[i - 1] = s[i]))
  <2>1. \A i \in 1..Len(s) : i = 1 \/ (i - 1 \in 1..(Len(s) - 1) /\ (i - 1) + 1 = i)
    BY <1>1
  <2> QED
    BY <1>1, <1>4, <1>6, <2>1
<1> QED
  BY <1>2, <1>3, <1>5, <1>7, <1>8

-----------------------------------------------------------------------------
(* How threads move.                                                       *)

(* Only thread t moves, and it goes on with events while it has any.       *)
Moves(t) ==
  /\ ~undefined /\ undefined' = FALSE
  /\ pc' \in [Threads -> Labels]
  /\ batch' \in [Threads -> Seq(Events)]
  /\ \A u \in Threads : pc'[u] = "Wait" <=> batch'[u] = <<>>
  /\ \A u \in Threads : u # t => pc'[u] = pc[u] /\ batch'[u] = batch[u]

LEMMA GoFacts ==
  ASSUME TypeOK, NEW t \in Threads, NEW from, NEW to \in Labels, Go(t, from, to)
  PROVE  /\ ~undefined /\ undefined' = FALSE
         /\ pc[t] = from /\ pc'[t] = to /\ pc' \in [Threads -> Labels]
         /\ \A u \in Threads : u # t => pc'[u] = pc[u]
BY DEF Go, At, TypeOK

LEMMA GoMoves ==
  ASSUME TypeOK, NEW t \in Threads, NEW from, NEW to \in Labels, Go(t, from, to),
         from # "Wait", to # "Wait", UNCHANGED batch
  PROVE  Moves(t) /\ pc[t] = from /\ pc'[t] = to
<1>1. /\ ~undefined /\ undefined' = FALSE
      /\ pc[t] = from /\ pc'[t] = to /\ pc' \in [Threads -> Labels]
      /\ \A u \in Threads : u # t => pc'[u] = pc[u]
  BY GoFacts
<1> QED
  BY <1>1 DEF Moves, TypeOK, Events

LEMMA FdFacts ==
  ASSUME TypeOK, NEW t \in Threads, pc[t] # "Wait"
  PROVE  /\ batch[t] \in Seq(Events) /\ batch[t] # <<>>
         /\ Fd(t) = batch[t][1].fd /\ Fd(t) \in Fds \union {Server}
         /\ Head(batch[t]).rdhup \in BOOLEAN
<1>1. batch[t] \in Seq(Events) /\ batch[t] # <<>>
  BY DEF TypeOK, Events
<1>2. Head(batch[t]) \in Events /\ Head(batch[t]) = batch[t][1]
  BY <1>1
<1> QED
  BY <1>1, <1>2 DEF Events, Fd

LEMMA DoneMoves ==
  ASSUME TypeOK, NEW t \in Threads, NEW from, from # "Wait", Done(t, from)
  PROVE  /\ Moves(t) /\ pc[t] = from /\ pc'[t] \in {"Wait", "Event"}
         /\ batch'[t] = Tail(batch[t])
<1> DEFINE to == IF Len(batch[t]) = 1 THEN "Wait" ELSE "Event"
<1>1. Go(t, from, to) /\ batch' = [batch EXCEPT ![t] = Tail(@)]
  BY DEF Done
<1>2. to \in Labels
  BY DEF Labels
<1>3. /\ ~undefined /\ undefined' = FALSE
      /\ pc[t] = from /\ pc'[t] = to /\ pc' \in [Threads -> Labels]
      /\ \A u \in Threads : u # t => pc'[u] = pc[u]
  <2> HIDE DEF to
  <2> QED
    BY <1>1, <1>2, GoFacts
<1>4. batch[t] \in Seq(Events) /\ batch[t] # <<>>
  BY <1>3, FdFacts
<1>5. Tail(batch[t]) \in Seq(Events) /\ (Len(batch[t]) = 1 <=> Tail(batch[t]) = <<>>)
  BY <1>4, TailElements
<1>6. /\ batch' \in [Threads -> Seq(Events)] /\ batch'[t] = Tail(batch[t])
      /\ \A u \in Threads : u # t => batch'[u] = batch[u]
  BY <1>1, <1>5 DEF TypeOK, Events
<1> QED
  BY <1>3, <1>5, <1>6 DEF TypeOK, Moves

LEMMA RemovedMoves ==
  ASSUME TypeOK, NEW t \in Threads, Removed(t)
  PROVE  /\ Moves(t) /\ pc[t] = "Del" /\ pc'[t] \in {"Wait", "Event", "RearmServer"}
         /\ IF Fd(t) = Server
            THEN pc'[t] = "RearmServer" /\ batch'[t] = batch[t]
            ELSE pc'[t] # "RearmServer" /\ batch'[t] = Tail(batch[t])
<1>1. CASE Fd(t) = Server
  BY <1>1, GoMoves DEF Removed, Labels
<1>2. CASE Fd(t) # Server
  BY <1>2, DoneMoves DEF Removed
<1> QED
  BY <1>1, <1>2

LEMMA FetchMoves ==
  ASSUME TypeOK, NEW t \in Threads, NEW s \in ReadyBatches, Fetch(t, s)
  PROVE  /\ Moves(t) /\ pc[t] = "Wait" /\ pc'[t] = "Event"
         /\ interest' \in [Fds \union {Server} -> {"None", "Armed", "Disarmed"}]
         /\ \A i \in DOMAIN batch'[t] :
              LET f == batch'[t][i].fd IN
              /\ f \in Fds \union {Server} /\ Ready(f)
              /\ interest'[f] = "Disarmed"
              /\ \A j \in DOMAIN batch'[t] : batch'[t][j].fd = f => j = i
         /\ \A f \in Fds \union {Server} :
              \/ interest'[f] = interest[f]
              \/ Handling(t, f)'
<1>1. PICK n \in 1..BatchSize :
        s \in [1..n -> {f \in Fds \union {Server} : Ready(f)}]
  BY DEF ReadyBatches, Batches
<1>2. n \in Nat /\ n >= 1 /\ IsInjective(s)
  BY EpollAssumption DEF EpollAssumption, ReadyBatches, Batches
<1>3. /\ DOMAIN s = 1..n
      /\ \A i \in 1..n : s[i] \in Fds \union {Server} /\ Ready(s[i])
  BY <1>1
<1>4. PICK b : b = [i \in DOMAIN s |-> [fd |-> s[i], rdhup |-> s[i] \in hungup]]
  OBVIOUS
<1>5. /\ b = [i \in 1..n |-> b[i]]
      /\ \A i \in 1..n : b[i] \in Events /\ b[i].fd = s[i]
  BY <1>3, <1>4 DEF Events
<1>6. b \in Seq(Events) /\ DOMAIN b = 1..n
  BY <1>2, <1>5
<1>7. b # <<>>
  BY <1>2, <1>6
<1>8. /\ ~undefined /\ undefined' = FALSE
      /\ pc[t] = "Wait" /\ pc'[t] = "Event" /\ pc' \in [Threads -> Labels]
      /\ \A u \in Threads : u # t => pc'[u] = pc[u]
  BY GoFacts DEF Fetch, Labels
<1>9. batch' = [batch EXCEPT ![t] = b]
  BY <1>4 DEF Fetch
<1>10. /\ batch' \in [Threads -> Seq(Events)] /\ batch'[t] = b
       /\ \A u \in Threads : u # t => batch'[u] = batch[u]
  BY <1>6, <1>9 DEF TypeOK, Events
<1>11. \A u \in Threads : pc'[u] = "Wait" <=> batch'[u] = <<>>
  BY <1>7, <1>8, <1>10 DEF TypeOK
<1>12. /\ interest' \in [Fds \union {Server} -> {"None", "Armed", "Disarmed"}]
       /\ \A f \in Fds \union {Server} :
            interest'[f] = IF \E i \in 1..n : s[i] = f THEN "Disarmed" ELSE interest[f]
  BY <1>3 DEF Fetch, TypeOK
<1>13. \A i \in DOMAIN batch'[t] :
         LET f == batch'[t][i].fd IN
         /\ f \in Fds \union {Server} /\ Ready(f)
         /\ interest'[f] = "Disarmed"
         /\ \A j \in DOMAIN batch'[t] : batch'[t][j].fd = f => j = i
  BY <1>2, <1>3, <1>5, <1>6, <1>10, <1>12 DEF IsInjective
<1>14. \A f \in Fds \union {Server} : interest'[f] = interest[f] \/ Handling(t, f)'
  <2>1. \A i \in 1..n : i \in DOMAIN batch'[t] /\ batch'[t][i].fd = s[i]
    BY <1>5, <1>6, <1>10
  <2> QED
    BY <1>12, <2>1 DEF Handling
<1> QED
  BY <1>8, <1>10, <1>11, <1>12, <1>13, <1>14 DEF Moves
-----------------------------------------------------------------------------
(* Every variable keeps its type, whatever goes wrong.                     *)

LEMMA InitEpollInv == Init => EpollInv
<1> SUFFICES ASSUME Init PROVE EpollInv
  OBVIOUS
<1>1. TypeOK
  <2>1. <<>> \in Seq([fd : Fds \union {Server}, rdhup : BOOLEAN])
    OBVIOUS
  <2>2. /\ batch \in [Threads -> Seq([fd : Fds \union {Server}, rdhup : BOOLEAN])]
        /\ pc \in [Threads -> Labels]
        /\ \A t \in Threads : pc[t] = "Wait" <=> batch[t] = <<>>
    BY <2>1 DEF Init, Labels
  <2>3. interest \in [Fds \union {Server} -> {"None", "Armed", "Disarmed"}]
    BY DEF Init
  <2>4. accepts \in 0..MaxAccepts
    BY EpollAssumption DEF EpollAssumption, Init
  <2> QED
    BY <2>2, <2>3, <2>4 DEF Init, TypeOK
<1> QED
  BY <1>1 DEF Init, EpollInv, PlaceInv, AcceptedInv, IntactClientIsOpen, OwnTimers

LEMMA UndefinedType == TypeOK /\ Undefined => TypeOK'
BY DEF Undefined, TypeOK, kernel, maps, local

LEMMA MovesType ==
  ASSUME NEW t, Moves(t)
  PROVE  /\ pc' \in [Threads -> Labels]
         /\ batch' \in [Threads -> Seq([fd : Fds \union {Server}, rdhup : BOOLEAN])]
         /\ \A u \in Threads : pc'[u] = "Wait" <=> batch'[u] = <<>>
         /\ undefined' \in BOOLEAN
BY DEF Moves, Events

(* The listener's actions and those of the timers.                         *)
LEMMA ListenerType ==
  ASSUME EpollInv, NEW t \in Threads
  PROVE  /\ \A c \in Fds : Accept(t, c) => TypeOK'
         /\ AcceptFails(t) => TypeOK'
         /\ AddClient(t) => TypeOK'
         /\ AddFails(t) => TypeOK'
         /\ RearmServer(t) => TypeOK'
<1> USE DEF EpollInv
<1>1. ASSUME NEW c \in Fds, Accept(t, c) PROVE TypeOK'
  <2>1. Moves(t)
    BY <1>1, GoMoves DEF Accept, Labels
  <2>2. accepts + 1 \in 0..MaxAccepts
    BY <1>1, EpollAssumption DEF EpollAssumption, Accept, TypeOK
  <2> QED
    BY <1>1, <2>1, <2>2, MovesType DEF Accept, TypeOK, maps
<1>2. ASSUME AcceptFails(t) PROVE TypeOK'
  <2>1. Moves(t)
    BY <1>2, DoneMoves DEF AcceptFails
  <2> QED
    BY <1>2, <2>1, MovesType DEF AcceptFails, TypeOK, kernel, maps
<1>3. ASSUME AddClient(t) PROVE TypeOK'
  <2>1. Moves(t) /\ pc[t] = "Add"
    BY <1>3, GoMoves DEF AddClient, Labels
  <2>2. conn[t] \in Fds
    BY <2>1 DEF AcceptedInv
  <2> QED
    BY <1>3, <2>1, <2>2, MovesType DEF AddClient, TypeOK
<1>4. ASSUME AddFails(t) PROVE TypeOK'
  <2>1. CASE client[t] = None
    BY <1>4, <2>1, UndefinedType DEF AddFails
  <2>2. CASE client[t] # None
    <3>1. Moves(t)
      BY <1>4, <2>2, GoMoves DEF AddFails, Labels
    <3> QED
      BY <1>4, <2>2, <3>1, MovesType, ZenonT(30) DEF AddFails, TypeOK, kernel, maps
  <2> QED
    BY <2>1, <2>2
<1>5. ASSUME RearmServer(t) PROVE TypeOK'
  <2>1. Moves(t)
    BY <1>5, DoneMoves DEF RearmServer
  <2> QED
    BY <1>5, <2>1, MovesType DEF RearmServer, TypeOK, maps
<1> QED
  BY <1>1, <1>2, <1>3, <1>4, <1>5

LEMMA TimerType ==
  ASSUME EpollInv, NEW t \in Threads
  PROVE  /\ GetTimer(t) => TypeOK'
         /\ GetTimerClient(t) => TypeOK'
         /\ Beat(t) => TypeOK'
         /\ RearmTimer(t) => TypeOK'
<1> USE DEF EpollInv
<1>1. ASSUME GetTimer(t) PROVE TypeOK'
  <2>1. Moves(t)
    BY <1>1, GoMoves DEF GetTimer, Labels
  <2> QED
    BY <1>1, <2>1, MovesType DEF GetTimer, TypeOK, kernel, maps
<1>2. ASSUME GetTimerClient(t) PROVE TypeOK'
  <2>1. CASE t \in danglingTimers
    BY <1>2, <2>1, UndefinedType DEF GetTimerClient
  <2>2. CASE t \notin danglingTimers
    <3>1. Moves(t) /\ pc[t] = "Timer"
      BY <1>2, <2>2, GoMoves DEF GetTimerClient, Labels
    <3>2. Fd(t) \in Fds
      BY <3>1, FdFacts DEF PlaceInv
    <3>3. timers[Fd(t)] \in Fds \union {None}
      BY <3>2 DEF TypeOK
    <3>4. client' \in [Threads -> Fds \union {None}]
      BY <1>2, <2>2, <3>3 DEF GetTimerClient, TypeOK
    <3> QED
      BY <1>2, <2>2, <3>1, <3>4, MovesType DEF GetTimerClient, TypeOK, kernel, maps
  <2> QED
    BY <2>1, <2>2
<1>3. ASSUME Beat(t) PROVE TypeOK'
  <2>1. CASE t \in danglingTimers \union danglingClients
    BY <1>3, <2>1, UndefinedType DEF Beat
  <2>2. CASE t \notin danglingTimers \union danglingClients
    <3>1. Moves(t)
      BY <1>3, <2>2, GoMoves DEF Beat, Labels, local
    <3> QED
      BY <1>3, <2>2, <3>1, MovesType, ZenonT(30) DEF Beat, TypeOK, maps, local
  <2> QED
    BY <2>1, <2>2
<1>4. ASSUME RearmTimer(t) PROVE TypeOK'
  <2>1. Moves(t)
    BY <1>4, DoneMoves DEF RearmTimer
  <2> QED
    BY <1>4, <2>1, MovesType DEF RearmTimer, TypeOK, maps
<1> QED
  BY <1>1, <1>2, <1>3, <1>4

(* The actions that serve a client.                                        *)
LEMMA ClientType ==
  ASSUME EpollInv, NEW t \in Threads
  PROVE  /\ Lookup(t) => TypeOK'
         /\ Forget(t) => TypeOK'
         /\ Read(t) => TypeOK'
         /\ \A f \in Fds : AddTimer(t, f) => TypeOK'
         /\ NoTimer(t) => TypeOK'
         /\ RegisterTimer(t) => TypeOK'
         /\ Finish(t) => TypeOK'
<1> USE DEF EpollInv
<1>1. ASSUME Lookup(t) PROVE TypeOK'
  <2> DEFINE to == CASE Fd(t) \notin clients -> "Forget"
                     [] Head(batch[t]).rdhup -> "Remove"
                     [] OTHER -> "Read"
  <2>1. to \in Labels /\ to # "Wait"
    BY DEF Labels
  <2>2. Go(t, "Lookup", to) /\ UNCHANGED batch
    BY <1>1 DEF Lookup
  <2>3. Moves(t)
    <3> HIDE DEF to
    <3> QED
      BY <2>1, <2>2, GoMoves
  <2>4. client' \in [Threads -> Fds \union {None}] /\ danglingClients' \subseteq Threads
    BY <1>1 DEF Lookup, TypeOK
  <2> QED
    BY <1>1, <2>3, <2>4, MovesType DEF Lookup, TypeOK, kernel, maps
<1>2. ASSUME Forget(t) PROVE TypeOK'
  <2>1. Moves(t)
    BY <1>2, DoneMoves DEF Forget
  <2> QED
    BY <1>2, <2>1, MovesType DEF Forget, TypeOK, maps
<1>3. ASSUME Read(t) PROVE TypeOK'
  <2>1. CASE t \in danglingClients \/ Fd(t) \in wrecks
    BY <1>3, <2>1, UndefinedType DEF Read
  <2>2. CASE ~(t \in danglingClients \/ Fd(t) \in wrecks)
    <3>1. Moves(t)
      BY <1>3, <2>2, GoMoves DEF Read, Labels, local
    <3> QED
      BY <1>3, <2>2, <3>1, MovesType, ZenonT(30) DEF Read, TypeOK, maps, local
  <2> QED
    BY <2>1, <2>2
<1>4. ASSUME NEW f \in Fds, AddTimer(t, f) PROVE TypeOK'
  <2>1. CASE t \in danglingClients
    BY <1>4, <2>1, UndefinedType DEF AddTimer
  <2>2. CASE t \notin danglingClients
    <3>1. Moves(t)
      BY <1>4, <2>2, GoMoves DEF AddTimer, Labels
    <3>2. interest' \in [Fds \union {Server} -> {"None", "Armed", "Disarmed"}]
      BY <1>4, <2>2 DEF AddTimer, TypeOK
    <3> QED
      BY <1>4, <2>2, <3>1, <3>2, MovesType, ZenonT(30) DEF AddTimer, TypeOK
  <2> QED
    BY <2>1, <2>2
<1>5. ASSUME NoTimer(t) PROVE TypeOK'
  <2>1. Moves(t)
    BY <1>5, GoMoves DEF NoTimer, Labels, local
  <2> QED
    BY <1>5, <2>1, MovesType DEF NoTimer, TypeOK, kernel, maps, local
<1>6. ASSUME RegisterTimer(t) PROVE TypeOK'
  <2>1. CASE t \in danglingTimers
    BY <1>6, <2>1, UndefinedType DEF RegisterTimer
  <2>2. CASE t \notin danglingTimers
    <3>1. Moves(t)
      BY <1>6, <2>2, GoMoves DEF RegisterTimer, Labels, local
    <3> QED
      BY <1>6, <2>2, <3>1, MovesType DEF RegisterTimer, TypeOK, kernel, local
  <2> QED
    BY <2>1, <2>2
<1>7. ASSUME Finish(t) PROVE TypeOK'
  <2>1. CASE t \in danglingClients
    BY <1>7, <2>1, UndefinedType DEF Finish
  <2>2. CASE t \notin danglingClients
    <3>1. Moves(t)
      BY <1>7, <2>2, DoneMoves DEF Finish
    <3> QED
      BY <1>7, <2>2, <3>1, MovesType DEF Finish, TypeOK, maps
  <2> QED
    BY <2>1, <2>2
<1> QED
  BY <1>1, <1>2, <1>3, <1>4, <1>5, <1>6, <1>7

(* removeFd.                                                               *)
LEMMA CloseType ==
  ASSUME TypeOK, NEW S, Close(S)
  PROVE  /\ file' \in [Fds -> {"Free", "Conn", "Timer"}]
         /\ interest' \in [Fds \union {Server} -> {"None", "Armed", "Disarmed"}]
         /\ readable' \subseteq Fds /\ hungup' \subseteq Fds
         /\ accepts' \in 0..MaxAccepts
BY DEF Close, TypeOK

LEMMA RemoveType ==
  ASSUME EpollInv, NEW t \in Threads
  PROVE  /\ RemoveFd(t) => TypeOK'
         /\ Del(t) => TypeOK'
         /\ DelFails(t) => TypeOK'
         /\ DelAgain(t) => TypeOK'
         /\ DelNothing(t) => TypeOK'
<1> USE DEF EpollInv
<1>1. ASSUME RemoveFd(t) PROVE TypeOK'
  <2>1. CASE t \in danglingClients
    BY <1>1, <2>1, UndefinedType DEF RemoveFd
  <2>2. CASE t \notin danglingClients
    <3>1. Moves(t)
      BY <1>1, <2>2, GoMoves DEF RemoveFd, Labels, local
    <3> QED
      BY <1>1, <2>2, <3>1, MovesType DEF RemoveFd, TypeOK, kernel, maps, local
  <2> QED
    BY <2>1, <2>2
<1>2. ASSUME Del(t) PROVE TypeOK'
  <2>1. Moves(t)
    BY <1>2, RemovedMoves DEF Del
  <2>2. Close({client[t], timerOf[client[t]]})
    BY <1>2 DEF Del
  <2> QED
    BY <1>2, <2>1, <2>2, MovesType, CloseType DEF Del, TypeOK, FreeClient, FreeTimer
<1>3. ASSUME DelFails(t) PROVE TypeOK'
  <2>1. Moves(t)
    BY <1>3, RemovedMoves DEF DelFails
  <2>2. \E S : Close(S)
    BY <1>3 DEF DelFails
  <2>3. /\ timerOf' \in [Fds -> Fds \union {None}]
        /\ timers' \in [Fds -> Fds \union {None}]
        /\ danglingTimers' \subseteq Threads
    BY <1>3 DEF DelFails, TypeOK, FreeTimer
  <2> QED
    BY <1>3, <2>1, <2>2, <2>3, MovesType, CloseType DEF DelFails, TypeOK
<1>4. ASSUME DelAgain(t) PROVE TypeOK'
  BY <1>4, UndefinedType DEF DelAgain
<1>5. ASSUME DelNothing(t) PROVE TypeOK'
  <2>1. Moves(t)
    BY <1>5, RemovedMoves DEF DelNothing
  <2> QED
    BY <1>5, <2>1, MovesType DEF DelNothing, TypeOK, kernel, maps
<1> QED
  BY <1>1, <1>2, <1>3, <1>4, <1>5

LEMMA WakeType == EpollInv /\ (\E t \in Threads : Wake(t)) => TypeOK'
<1> SUFFICES ASSUME EpollInv, NEW t \in Threads, NEW s \in ReadyBatches, Fetch(t, s)
             PROVE  TypeOK'
  BY DEF Wake
<1>1. Moves(t) /\ interest' \in [Fds \union {Server} -> {"None", "Armed", "Disarmed"}]
  BY FetchMoves DEF EpollInv
<1> QED
  BY <1>1, MovesType DEF Fetch, EpollInv, TypeOK, maps

LEMMA TypeStep == EpollInv /\ [Next]_vars => TypeOK'
<1> SUFFICES ASSUME EpollInv, [Next]_vars PROVE TypeOK'
  OBVIOUS
<1> USE DEF EpollInv
<1>1. CASE \E t \in Threads : Step(t)
  BY <1>1, ListenerType, TimerType, ClientType, RemoveType DEF Step
<1>2. CASE \E t \in Threads : Wake(t)
  BY <1>2, WakeType
<1>3. CASE \E f \in Fds : Send(f) \/ HangUp(f) \/ Expire(f)
  BY <1>3 DEF Send, HangUp, Expire, TypeOK, maps, local
<1>4. CASE UNCHANGED vars
  BY <1>4 DEF vars, kernel, maps, local, TypeOK
<1> QED
  BY <1>1, <1>2, <1>3, <1>4 DEF Next, Rest

-----------------------------------------------------------------------------
(* Where each action takes the thread that performs it.                    *)
Goes(t, from, to) ==
  Moves(t) /\ pc[t] = from /\ pc'[t] \in to /\ batch'[t] = batch[t]

Does(t, from) ==
  /\ Moves(t) /\ pc[t] = from /\ pc'[t] \in {"Wait", "Event"}
  /\ batch'[t] = Tail(batch[t])

LEMMA ListenerMoves ==
  ASSUME TypeOK, NEW t \in Threads
  PROVE  /\ \A c \in Fds : Accept(t, c) => Goes(t, "Event", {"Add"})
         /\ AcceptFails(t) => Does(t, "Event")
         /\ AddClient(t) => Goes(t, "Add", {"RearmServer"})
         /\ AddFails(t) => Undefined \/ Goes(t, "Add", {"Remove"})
         /\ RearmServer(t) => Does(t, "RearmServer")
<1>1. ASSUME NEW c \in Fds, Accept(t, c) PROVE Goes(t, "Event", {"Add"})
  BY <1>1, GoMoves DEF Accept, Goes, Labels
<1>2. ASSUME AcceptFails(t) PROVE Does(t, "Event")
  BY <1>2, DoneMoves DEF AcceptFails, Does
<1>3. ASSUME AddClient(t) PROVE Goes(t, "Add", {"RearmServer"})
  BY <1>3, GoMoves DEF AddClient, Goes, Labels
<1>4. ASSUME AddFails(t) PROVE Undefined \/ Goes(t, "Add", {"Remove"})
  BY <1>4, GoMoves DEF AddFails, Goes, Labels
<1>5. ASSUME RearmServer(t) PROVE Does(t, "RearmServer")
  BY <1>5, DoneMoves DEF RearmServer, Does
<1> QED
  BY <1>1, <1>2, <1>3, <1>4, <1>5

LEMMA TimerMoves ==
  ASSUME TypeOK, NEW t \in Threads
  PROVE  /\ GetTimer(t) => Goes(t, "Event", {"Lookup", "Timer"}) /\ Fd(t) # Server
         /\ GetTimerClient(t) => Undefined \/ Goes(t, "Timer", {"Beat"})
         /\ Beat(t) => Undefined \/ Goes(t, "Beat", {"RearmTimer", "Remove"})
         /\ RearmTimer(t) => Does(t, "RearmTimer")
<1>1. ASSUME GetTimer(t) PROVE Goes(t, "Event", {"Lookup", "Timer"}) /\ Fd(t) # Server
  BY <1>1, GoMoves DEF GetTimer, Goes, Labels
<1>2. ASSUME GetTimerClient(t) PROVE Undefined \/ Goes(t, "Timer", {"Beat"})
  BY <1>2, GoMoves DEF GetTimerClient, Goes, Labels
<1>3. ASSUME Beat(t) PROVE Undefined \/ Goes(t, "Beat", {"RearmTimer", "Remove"})
  BY <1>3, GoMoves DEF Beat, Goes, Labels, local
<1>4. ASSUME RearmTimer(t) PROVE Does(t, "RearmTimer")
  BY <1>4, DoneMoves DEF RearmTimer, Does
<1> QED
  BY <1>1, <1>2, <1>3, <1>4

LEMMA ClientMoves ==
  ASSUME TypeOK, NEW t \in Threads
  PROVE  /\ Lookup(t) => Goes(t, "Lookup", {"Forget", "Remove", "Read"})
         /\ Forget(t) => Does(t, "Forget")
         /\ Read(t) => Undefined \/ Goes(t, "Read", {"Remove", "Finish", "AddTimer"})
         /\ \A f \in Fds :
              AddTimer(t, f) =>
                Undefined \/ Goes(t, "AddTimer", {"RegisterTimer", "Remove"})
         /\ NoTimer(t) => Goes(t, "AddTimer", {"Remove"})
         /\ RegisterTimer(t) =>
              Undefined \/ Goes(t, "RegisterTimer", {"Finish", "Remove"})
         /\ Finish(t) => Undefined \/ Does(t, "Finish")
<1>1. ASSUME Lookup(t) PROVE Goes(t, "Lookup", {"Forget", "Remove", "Read"})
  <2> DEFINE to == CASE Fd(t) \notin clients -> "Forget"
                     [] Head(batch[t]).rdhup -> "Remove"
                     [] OTHER -> "Read"
  <2>1. to \in Labels /\ to # "Wait" /\ to \in {"Forget", "Remove", "Read"}
    BY DEF Labels
  <2>2. Go(t, "Lookup", to) /\ UNCHANGED batch
    BY <1>1 DEF Lookup
  <2> HIDE DEF to
  <2> QED
    BY <2>1, <2>2, GoMoves DEF Goes
<1>2. ASSUME Forget(t) PROVE Does(t, "Forget")
  BY <1>2, DoneMoves DEF Forget, Does
<1>3. ASSUME Read(t)
      PROVE  Undefined \/ Goes(t, "Read", {"Remove", "Finish", "AddTimer"})
  BY <1>3, GoMoves DEF Read, Goes, Labels, local
<1>4. ASSUME NEW f \in Fds, AddTimer(t, f)
      PROVE  Undefined \/ Goes(t, "AddTimer", {"RegisterTimer", "Remove"})
  BY <1>4, GoMoves DEF AddTimer, Goes, Labels
<1>5. ASSUME NoTimer(t) PROVE Goes(t, "AddTimer", {"Remove"})
  BY <1>5, GoMoves DEF NoTimer, Goes, Labels, local
<1>6. ASSUME RegisterTimer(t)
      PROVE  Undefined \/ Goes(t, "RegisterTimer", {"Finish", "Remove"})
  BY <1>6, GoMoves DEF RegisterTimer, Goes, Labels, local
<1>7. ASSUME Finish(t) PROVE Undefined \/ Does(t, "Finish")
  BY <1>7, DoneMoves DEF Finish, Does
<1> QED
  BY <1>1, <1>2, <1>3, <1>4, <1>5, <1>6, <1>7

LEMMA RemoveMoves ==
  ASSUME TypeOK, NEW t \in Threads
  PROVE  /\ RemoveFd(t) => Undefined \/ Goes(t, "Remove", {"Del"})
         /\ Removed(t) => IF Fd(t) = Server THEN Goes(t, "Del", {"RearmServer"})
                                            ELSE Does(t, "Del")
         /\ DelAgain(t) => Undefined
<1>1. ASSUME RemoveFd(t) PROVE Undefined \/ Goes(t, "Remove", {"Del"})
  BY <1>1, GoMoves DEF RemoveFd, Goes, Labels, local
<1>2. ASSUME Removed(t)
      PROVE  IF Fd(t) = Server THEN Goes(t, "Del", {"RearmServer"}) ELSE Does(t, "Del")
  BY <1>2, RemovedMoves DEF Goes, Does
<1> QED
  BY <1>1, <1>2 DEF DelAgain

(* A thread's place, and the descriptor it goes with.                      *)
Places == {"Timer", "Beat", "RearmTimer", "Lookup", "Forget", "Read",
           "AddTimer", "RegisterTimer", "Finish"}

LEMMA PlaceKept ==
  ASSUME PlaceInv, NEW t \in Threads,
         \/ Moves(t) /\ pc'[t] \notin Places
         \/ \E from, to : Goes(t, from, to) /\ Fd(t) # Server
         \/ Undefined
  PROVE  PlaceInv'
<1>1. CASE Moves(t) /\ pc'[t] \notin Places
  BY <1>1 DEF Moves, PlaceInv, Places, Fd
<1>2. CASE \E from, to : Goes(t, from, to) /\ Fd(t) # Server
  BY <1>2 DEF Goes, Moves, PlaceInv, Fd
<1>3. CASE Undefined
  BY <1>3 DEF Undefined, PlaceInv, Fd, local
<1> QED
  BY <1>1, <1>2, <1>3

LEMMA PlaceStep == EpollInv /\ [Next]_vars => PlaceInv'
<1> SUFFICES ASSUME EpollInv, [Next]_vars PROVE PlaceInv'
  OBVIOUS
<1>0. TypeOK /\ PlaceInv
  BY DEF EpollInv
<1>1. CASE \E t \in Threads : Step(t)
  <2>1. PICK t \in Threads : Step(t)
    BY <1>1
  <2>2. CASE \/ \E c \in Fds : Accept(t, c)
             \/ AcceptFails(t) \/ AddClient(t) \/ AddFails(t) \/ RearmServer(t)
    BY <1>0, <2>2, PlaceKept, ListenerMoves DEF Goes, Does, Places
  <2>3. CASE GetTimer(t) \/ GetTimerClient(t) \/ Beat(t) \/ RearmTimer(t)
    <3>1. pc[t] \in Places => Fd(t) # Server
      BY <1>0 DEF PlaceInv, Places
    <3>2. CASE GetTimer(t)
      BY <1>0, <3>2, PlaceKept, TimerMoves
    <3>3. CASE GetTimerClient(t)
      BY <1>0, <3>1, <3>3, PlaceKept, TimerMoves DEF Goes, Places
    <3>4. CASE Beat(t)
      BY <1>0, <3>1, <3>4, PlaceKept, TimerMoves DEF Goes, Places
    <3>5. CASE RearmTimer(t)
      BY <1>0, <3>5, PlaceKept, TimerMoves DEF Does, Places
    <3> QED
      BY <2>3, <3>2, <3>3, <3>4, <3>5
  <2>4. CASE \/ Lookup(t) \/ Forget(t) \/ Read(t) \/ NoTimer(t)
             \/ \E f \in Fds : AddTimer(t, f)
             \/ RegisterTimer(t) \/ Finish(t)
    <3>1. pc[t] \in Places => Fd(t) # Server
      BY <1>0 DEF PlaceInv, Places
    <3>2. CASE Lookup(t)
      BY <1>0, <3>1, <3>2, PlaceKept, ClientMoves DEF Goes, Places
    <3>3. CASE Forget(t)
      BY <1>0, <3>3, PlaceKept, ClientMoves DEF Does, Places
    <3>4. CASE Read(t)
      BY <1>0, <3>1, <3>4, PlaceKept, ClientMoves DEF Goes, Places
    <3>5. CASE NoTimer(t)
      BY <1>0, <3>1, <3>5, PlaceKept, ClientMoves DEF Goes, Places
    <3>6. CASE \E f \in Fds : AddTimer(t, f)
      BY <1>0, <3>1, <3>6, PlaceKept, ClientMoves DEF Goes, Places
    <3>7. CASE RegisterTimer(t)
      BY <1>0, <3>1, <3>7, PlaceKept, ClientMoves DEF Goes, Places
    <3>8. CASE Finish(t)
      BY <1>0, <3>8, PlaceKept, ClientMoves DEF Does, Places
    <3> QED
      BY <2>4, <3>2, <3>3, <3>4, <3>5, <3>6, <3>7, <3>8
  <2>5. CASE RemoveFd(t) \/ DelAgain(t)
    BY <1>0, <2>5, PlaceKept, RemoveMoves DEF Goes, Places
  <2>6. CASE Del(t) \/ DelFails(t) \/ DelNothing(t)
    <3>1. Removed(t)
      BY <2>6 DEF Del, DelFails, DelNothing
    <3> QED
      BY <1>0, <3>1, PlaceKept, RemoveMoves DEF Goes, Does, Places
  <2> QED
    BY <2>1, <2>2, <2>3, <2>4, <2>5, <2>6 DEF Step
<1>2. CASE \E t \in Threads : Wake(t)
  BY <1>0, <1>2, PlaceKept, FetchMoves DEF Wake, Places
<1>3. CASE \E f \in Fds : Send(f) \/ HangUp(f) \/ Expire(f)
  BY <1>0, <1>3 DEF Send, HangUp, Expire, PlaceInv, Fd, local
<1>4. CASE UNCHANGED vars
  BY <1>0, <1>4 DEF vars, local, PlaceInv, Fd
<1> QED
  BY <1>1, <1>2, <1>3, <1>4 DEF Next, Rest

-----------------------------------------------------------------------------
(* What is accepted, and what an intact client owns, is open.              *)
OpenInv == AcceptedInv /\ IntactClientIsOpen /\ OwnTimers

LEMMA OpenQuiet ==
  ASSUME OpenInv, UNCHANGED <<file, clients, wrecks, timerOf>>,
         \A u \in Threads : pc'[u] = "Add" => pc[u] = "Add" /\ conn'[u] = conn[u]
  PROVE  OpenInv'
<1>1. AcceptedInv'
  BY DEF OpenInv, AcceptedInv
<1>2. IntactClientIsOpen' /\ OwnTimers'
  BY DEF OpenInv, IntactClientIsOpen, OwnTimers
<1> QED
  BY <1>1, <1>2 DEF OpenInv

LEMMA OpenAccept ==
  ASSUME TypeOK, OpenInv, NEW t \in Threads, NEW c \in Fds, Accept(t, c)
  PROVE  OpenInv'
<1>1. /\ pc'[t] = "Add"
      /\ \A u \in Threads : u # t => pc'[u] = pc[u]
  BY ListenerMoves DEF Goes, Moves
<1>2. /\ file[c] = "Free" /\ file'[c] = "Conn"
      /\ \A f \in Fds : f # c => file'[f] = file[f]
      /\ conn'[t] = c /\ \A u \in Threads : u # t => conn'[u] = conn[u]
      /\ UNCHANGED <<clients, wrecks, timerOf>>
  BY DEF Accept, TypeOK, maps
<1>3. /\ clients \subseteq Fds /\ \A f \in Fds : timerOf[f] \in Fds \union {None}
  BY DEF TypeOK
<1>4. AcceptedInv'
  BY <1>1, <1>2 DEF OpenInv, AcceptedInv, IntactClientIsOpen
<1>5. IntactClientIsOpen'
  BY <1>2, <1>3 DEF OpenInv, IntactClientIsOpen
<1>6. OwnTimers'
  BY <1>2 DEF OpenInv, OwnTimers
<1> QED
  BY <1>4, <1>5, <1>6 DEF OpenInv

LEMMA OpenAddClient ==
  ASSUME TypeOK, OpenInv, NEW t \in Threads, AddClient(t)
  PROVE  OpenInv'
<1> DEFINE c == conn[t]
<1>1. /\ pc[t] = "Add" /\ pc'[t] = "RearmServer"
      /\ \A u \in Threads : u # t => pc'[u] = pc[u]
  BY ListenerMoves DEF Goes, Moves
<1>2. /\ c \in Fds /\ file[c] = "Conn" /\ c \notin clients \ wrecks
      /\ \A u \in Threads : u # t /\ pc[u] = "Add" => conn[u] # c
  BY <1>1 DEF OpenInv, AcceptedInv
<1>3. /\ clients' = clients \union {c} /\ wrecks' = wrecks \ {c}
      /\ timerOf'[c] = None /\ \A f \in Fds : f # c => timerOf'[f] = timerOf[f]
      /\ file' = file /\ \A u \in Threads : u # t => conn'[u] = conn[u]
  BY <1>2 DEF AddClient, TypeOK
<1>4. clients \subseteq Fds
  BY DEF TypeOK
<1> HIDE DEF c
<1>5. \A d \in clients' \ wrecks' : d = c \/ (d # c /\ d \in clients \ wrecks)
  <2>1. clients' = clients \union {c} /\ wrecks' = wrecks \ {c}
    BY <1>3
  <2> QED
    BY <2>1
<1>6. AcceptedInv'
  BY <1>1, <1>2, <1>3, <1>5 DEF OpenInv, AcceptedInv
<1>7. IntactClientIsOpen'
  BY <1>2, <1>3, <1>4, <1>5 DEF OpenInv, IntactClientIsOpen
<1>8. OwnTimers'
  BY <1>3, <1>4, <1>5 DEF OpenInv, OwnTimers
<1> QED
  BY <1>6, <1>7, <1>8 DEF OpenInv

LEMMA OpenAddTimer ==
  ASSUME TypeOK, OpenInv, NEW t \in Threads, NEW f \in Fds, AddTimer(t, f), ~Undefined
  PROVE  OpenInv'
<1> DEFINE c == client[t]
<1>1. /\ pc'[t] # "Add"
      /\ \A u \in Threads : u # t => pc'[u] = pc[u]
  BY ClientMoves DEF Goes, Moves
<1>2. /\ file[f] = "Free" /\ file'[f] = "Timer"
      /\ \A g \in Fds : g # f => file'[g] = file[g]
      /\ \A g \in Fds : timerOf'[g] = IF g = c THEN f ELSE timerOf[g]
      /\ UNCHANGED <<clients, wrecks, conn>>
  BY DEF AddTimer, TypeOK
<1>3. /\ clients \subseteq Fds /\ \A g \in Fds : timerOf[g] \in Fds \union {None}
      /\ None \notin Fds
  BY EpollAssumption DEF TypeOK, EpollAssumption
<1> HIDE DEF c
<1>4. \A d \in clients \ wrecks :
        /\ d # f /\ file[d] = "Conn"
        /\ timerOf[d] # None => timerOf[d] # f /\ file[timerOf[d]] = "Timer"
  BY <1>2 DEF OpenInv, IntactClientIsOpen
<1>5. AcceptedInv'
  BY <1>1, <1>2 DEF OpenInv, AcceptedInv
<1>6. IntactClientIsOpen'
  BY <1>2, <1>3, <1>4 DEF IntactClientIsOpen
<1>7. OwnTimers'
  BY <1>2, <1>3, <1>4 DEF OpenInv, OwnTimers
<1> QED
  BY <1>5, <1>6, <1>7 DEF OpenInv

(* A client ends, or is wrecked, and what is closed is its own.            *)
LEMMA OpenClose ==
  ASSUME TypeOK, OpenInv, NEW t \in Threads, Removed(t), NEW c \in clients \ wrecks,
         NEW S \in SUBSET {c, timerOf[c]}, Close(S), UNCHANGED conn,
         clients' \ wrecks' = (clients \ wrecks) \ {c},
         \A f \in Fds : f # c => timerOf'[f] = timerOf[f]
  PROVE  OpenInv'
<1>1. /\ pc'[t] # "Add"
      /\ \A u \in Threads : u # t => pc'[u] = pc[u]
  BY RemovedMoves DEF Moves
<1>2. /\ clients \subseteq Fds /\ \A f \in Fds : timerOf[f] \in Fds \union {None}
      /\ None \notin Fds
  BY EpollAssumption DEF TypeOK, EpollAssumption
<1>3. \A f \in Fds : f # c /\ f # timerOf[c] => file'[f] = file[f]
  BY DEF Close
<1>4. file[c] = "Conn" /\ (timerOf[c] # None => file[timerOf[c]] = "Timer")
  BY DEF OpenInv, IntactClientIsOpen
<1>5. ASSUME NEW u \in Threads, pc[u] = "Add"
      PROVE  conn[u] \in Fds /\ file'[conn[u]] = "Conn"
  <2>1. conn[u] \in Fds /\ file[conn[u]] = "Conn" /\ conn[u] \notin clients \ wrecks
    BY <1>5 DEF OpenInv, AcceptedInv
  <2>2. conn[u] # c /\ conn[u] # timerOf[c]
    BY <1>2, <1>4, <2>1
  <2> QED
    BY <1>3, <2>1, <2>2
<1>6. AcceptedInv'
  BY <1>1, <1>5 DEF OpenInv, AcceptedInv
<1>7. ASSUME NEW d \in clients \ wrecks, d # c
      PROVE  /\ file'[d] = "Conn"
             /\ timerOf'[d] = timerOf[d]
             /\ timerOf[d] # None => file'[timerOf[d]] = "Timer"
  <2>1. file[d] = "Conn" /\ (timerOf[d] # None => file[timerOf[d]] = "Timer")
    BY DEF OpenInv, IntactClientIsOpen
  <2>2. d # timerOf[c]
    BY <1>2, <1>4, <2>1
  <2>3. timerOf[d] # None => timerOf[d] # c /\ timerOf[d] # timerOf[c]
    BY <1>4, <1>7, <2>1 DEF OpenInv, OwnTimers
  <2> QED
    BY <1>2, <1>3, <1>7, <2>1, <2>2, <2>3
<1>8. IntactClientIsOpen'
  BY <1>7 DEF IntactClientIsOpen
<1>9. OwnTimers'
  BY <1>7 DEF OpenInv, OwnTimers
<1> QED
  BY <1>6, <1>8, <1>9 DEF OpenInv

LEMMA OpenDel ==
  ASSUME TypeOK, OpenInv, NEW t \in Threads, Del(t) \/ DelFails(t)
  PROVE  OpenInv'
<1> DEFINE c == client[t]
<1>1. /\ c \in clients \ wrecks /\ Removed(t) /\ UNCHANGED conn
      /\ wrecks \subseteq clients
  BY DEF Del, DelFails, TypeOK
<1>2. clients' \ wrecks' = (clients \ wrecks) \ {c}
  BY <1>1 DEF Del, DelFails
<1>3. \A f \in Fds : f # c => timerOf'[f] = timerOf[f]
  BY DEF Del, DelFails, TypeOK
<1>4. Close({c}) \/ Close({c, timerOf[c]})
  BY DEF Del, DelFails
<1> HIDE DEF c
<1> QED
  BY <1>1, <1>2, <1>3, <1>4, OpenClose

LEMMA OpenStep == EpollInv /\ [Next]_vars => OpenInv'
<1> SUFFICES ASSUME EpollInv, [Next]_vars PROVE OpenInv'
  OBVIOUS
<1>0. TypeOK /\ OpenInv
  BY DEF EpollInv, OpenInv
<1>1. CASE \E t \in Threads : Step(t)
  <2>1. PICK t \in Threads : Step(t)
    BY <1>1
  <2>2. CASE Undefined
    BY <1>0, <2>2, OpenQuiet DEF Undefined, kernel, maps, local
  <2>3. CASE \E c \in Fds : Accept(t, c)
    BY <1>0, <2>3, OpenAccept
  <2>4. CASE AcceptFails(t) \/ AddFails(t) \/ RearmServer(t)
    <3>1. \/ Undefined
          \/ Moves(t) /\ pc'[t] # "Add" /\ UNCHANGED <<file, clients, wrecks, timerOf>>
             /\ \A u \in Threads : u # t => conn'[u] = conn[u]
      BY <1>0, <2>4, ListenerMoves
         DEF AcceptFails, AddFails, RearmServer, Goes, Does, kernel, maps, TypeOK
    <3> QED
      BY <1>0, <2>2, <3>1, OpenQuiet DEF Moves
  <2>5. CASE AddClient(t)
    BY <1>0, <2>5, OpenAddClient
  <2>6. CASE GetTimer(t) \/ GetTimerClient(t) \/ Beat(t) \/ RearmTimer(t)
    <3>1. \/ Undefined
          \/ Moves(t) /\ pc'[t] # "Add"
             /\ UNCHANGED <<file, clients, wrecks, timerOf, conn>>
      BY <1>0, <2>6, TimerMoves
         DEF GetTimer, GetTimerClient, Beat, RearmTimer, Goes, Does, kernel, maps, local
    <3> QED
      BY <1>0, <2>2, <3>1, OpenQuiet DEF Moves
  <2>7. CASE \E f \in Fds : AddTimer(t, f)
    BY <1>0, <2>2, <2>7, OpenAddTimer
  <2>8. CASE Lookup(t) \/ Forget(t) \/ Read(t) \/ NoTimer(t)
             \/ RegisterTimer(t) \/ Finish(t)
    <3>1. \/ Undefined
          \/ Moves(t) /\ pc'[t] # "Add"
             /\ UNCHANGED <<file, clients, wrecks, timerOf, conn>>
      BY <1>0, <2>8, ClientMoves
         DEF Lookup, Forget, Read, NoTimer, RegisterTimer, Finish, Goes, Does,
             kernel, maps, local
    <3> QED
      BY <1>0, <2>2, <3>1, OpenQuiet DEF Moves
  <2>9. CASE RemoveFd(t) \/ DelAgain(t) \/ DelNothing(t)
    <3>1. \/ Undefined
          \/ Moves(t) /\ pc'[t] # "Add"
             /\ UNCHANGED <<file, clients, wrecks, timerOf, conn>>
      BY <1>0, <2>9, RemoveMoves
         DEF RemoveFd, DelNothing, Goes, Does, kernel, maps, local
    <3> QED
      BY <1>0, <2>2, <3>1, OpenQuiet DEF Moves
  <2>10. CASE Del(t) \/ DelFails(t)
    BY <1>0, <2>10, OpenDel
  <2> QED
    BY <2>1, <2>3, <2>4, <2>5, <2>6, <2>7, <2>8, <2>9, <2>10 DEF Step
<1>2. CASE \E t \in Threads : Wake(t)
  <2>1. PICK t \in Threads, s \in ReadyBatches : Fetch(t, s)
    BY <1>2 DEF Wake
  <2>2. Moves(t) /\ pc'[t] # "Add"
    BY <1>0, <2>1, FetchMoves
  <2> QED
    BY <1>0, <2>1, <2>2, OpenQuiet DEF Moves, Fetch, maps
<1>3. CASE \E f \in Fds : Send(f) \/ HangUp(f) \/ Expire(f)
  BY <1>0, <1>3, OpenQuiet DEF Send, HangUp, Expire, maps, local
<1>4. CASE UNCHANGED vars
  BY <1>0, <1>4, OpenQuiet DEF vars, kernel, maps, local
<1> QED
  BY <1>1, <1>2, <1>3, <1>4 DEF Next, Rest

LEMMA EpollStep == EpollInv /\ [Next]_vars => EpollInv'
BY TypeStep, PlaceStep, OpenStep DEF EpollInv, OpenInv

(* The model's types, and what the kernel and the clients' map agree on,   *)
(* hold with heartbeats, failing calls and a map that moves alike.         *)
THEOREM EpollInvariant == Spec => []EpollInv
<1> QED
  BY InitEpollInv, EpollStep, PTL DEF Spec

(* deinit never closes a descriptor that is closed already and may be      *)
(* another's: an intact client's connection and timer are open.            *)
THEOREM IntactClients == Spec => []IntactClientIsOpen
<1>1. EpollInv => IntactClientIsOpen
  BY DEF EpollInv
<1> QED
  BY <1>1, EpollInvariant, PTL

-----------------------------------------------------------------------------
(* Without heartbeats, and without failing adds: how events come and go.   *)

LEMMA EventsKept ==
  ASSUME TypeOK, NEW t \in Threads, NEW from, NEW to, Goes(t, from, to),
         NEW u \in Threads
  PROVE  batch'[u] = batch[u]
BY DEF Goes, Moves

LEMMA EventsPass ==
  ASSUME TypeOK, NEW t \in Threads, pc[t] # "Wait", NEW from, Does(t, from),
         NEW u \in Threads, NEW i \in DOMAIN batch'[u]
  PROVE  LET k == IF u = t THEN i + 1 ELSE i IN
         /\ i \in Nat /\ i >= 1
         /\ k \in DOMAIN batch[u] /\ batch'[u][i] = batch[u][k]
<1>1. CASE u = t
  <2>1. batch[t] \in Seq(Events) /\ batch[t] # <<>> /\ batch'[t] = Tail(batch[t])
    BY FdFacts DEF Does
  <2> QED
    BY <1>1, <2>1, TailElements
<1>2. CASE u # t
  <2>1. batch'[u] = batch[u] /\ batch[u] \in Seq(Events)
    BY <1>2 DEF Does, Moves, TypeOK, Events
  <2> QED
    BY <1>2, <2>1
<1> QED
  BY <1>1, <1>2

(* Only the event that has been handled goes.                              *)
LEMMA HandlingPasses ==
  ASSUME TypeOK, NEW t \in Threads, pc[t] # "Wait", NEW from, Does(t, from),
         NEW u \in Threads, NEW f, f # Fd(t), Handling(u, f)
  PROVE  Handling(u, f)'
<1>1. CASE u = t
  <2>1. /\ batch[t] \in Seq(Events) /\ batch[t] # <<>> /\ batch'[t] = Tail(batch[t])
        /\ Fd(t) = batch[t][1].fd
    BY FdFacts DEF Does
  <2>2. PICK i \in DOMAIN batch[t] : batch[t][i].fd = f
    BY <1>1 DEF Handling
  <2>3. i # 1
    BY <2>1, <2>2
  <2>4. i - 1 \in DOMAIN batch'[t] /\ batch'[t][i - 1] = batch[t][i]
    BY <2>1, <2>3, TailElements
  <2> QED
    BY <1>1, <2>2, <2>4 DEF Handling
<1>2. CASE u # t
  BY <1>2 DEF Does, Moves, Handling
<1> QED
  BY <1>1, <1>2

LEMMA EventPlace ==
  ASSUME TypeOK, EventInv, NEW t \in Threads, pc[t] # "Wait"
  PROVE  /\ interest[Fd(t)] = "Disarmed"
         /\ Fd(t) # Server => Fd(t) \in clients
         /\ \A u \in Threads : \A j \in DOMAIN batch[u] :
              batch[u][j].fd = Fd(t) => u = t /\ j = 1
<1>1. /\ batch[t] \in Seq(Events) /\ batch[t] # <<>> /\ Fd(t) = batch[t][1].fd
  BY FdFacts
<1>2. 1 \in DOMAIN batch[t]
  BY <1>1, TailElements
<1> QED
  BY <1>1, <1>2 DEF EventInv

LEMMA HandledIsGone ==
  ASSUME TypeOK, EventInv, NEW t \in Threads, pc[t] # "Wait", NEW from, Does(t, from),
         NEW u \in Threads, NEW f, f = Fd(t)
  PROVE  ~Handling(u, f)'
<1>1. /\ pc[t] # "Wait" /\ \A v \in Threads : \A j \in DOMAIN batch[v] :
           batch[v][j].fd = f => v = t /\ j = 1
  BY EventPlace
<1>2. ASSUME NEW i \in DOMAIN batch'[u], batch'[u][i].fd = f
      PROVE  FALSE
  <2> DEFINE k == IF u = t THEN i + 1 ELSE i
  <2>1. i \in Nat /\ i >= 1 /\ k \in DOMAIN batch[u] /\ batch'[u][i] = batch[u][k]
    BY EventsPass
  <2>2. u = t /\ k = 1
    BY <1>1, <1>2, <2>1
  <2> QED
    BY <2>1, <2>2
<1> QED
  BY <1>2 DEF Handling

LEMMA EventKept ==
  ASSUME TypeOK, EventInv, NEW t \in Threads, pc[t] # "Wait", NEW from, NEW to,
         Goes(t, from, to) \/ Does(t, from),
         \A u \in Threads, f \in Fds \union {Server} :
            Handling(u, f)' => interest'[f] = interest[f] /\ (f \in clients => f \in clients')
  PROVE  EventInv'
<1>1. ASSUME NEW u \in Threads, NEW i \in DOMAIN batch'[u]
      PROVE  LET f == batch'[u][i].fd IN
             interest'[f] = interest[f] /\ (f \in clients => f \in clients')
  <2>1. batch'[u] \in Seq(Events)
    BY DEF Goes, Does, Moves
  <2>2. batch'[u][i] \in Events
    BY <2>1
  <2>3. PICK f \in Fds \union {Server} : f = batch'[u][i].fd
    BY <2>2 DEF Events
  <2>4. Handling(u, f)'
    BY <2>3 DEF Handling
  <2> QED
    BY <2>3, <2>4
<1>2. CASE Goes(t, from, to)
  <2>1. \A u \in Threads : batch'[u] = batch[u]
    BY <1>2, EventsKept
  <2> QED
    BY <1>1, <2>1 DEF EventInv
<1>3. CASE Does(t, from)
  <2> DEFINE at(u, i) == IF u = t THEN i + 1 ELSE i
  <2>1. \A u \in Threads : \A i \in DOMAIN batch'[u] :
          /\ i \in Nat
          /\ at(u, i) \in DOMAIN batch[u] /\ batch'[u][i] = batch[u][at(u, i)]
    BY <1>3, EventsPass
  <2>2. \A u \in Threads : \A i, j \in Nat : at(u, i) = at(u, j) => i = j
    OBVIOUS
  <2> HIDE DEF at
  <2>3. ASSUME NEW u \in Threads, NEW i \in DOMAIN batch'[u]
        PROVE  LET f == batch'[u][i].fd IN
               /\ interest'[f] = "Disarmed"
               /\ f # Server => f \in clients'
    BY <1>1, <2>1 DEF EventInv
  <2>4. ASSUME NEW u \in Threads, NEW i \in DOMAIN batch'[u],
               NEW v \in Threads, NEW j \in DOMAIN batch'[v],
               batch'[v][j].fd = batch'[u][i].fd
        PROVE  v = u /\ j = i
    <3>1. v = u /\ at(v, j) = at(u, i)
      BY <2>1, <2>4 DEF EventInv
    <3> QED
      BY <2>1, <2>2, <3>1
  <2> QED
    BY <2>3, <2>4 DEF EventInv
<1> QED
  BY <1>2, <1>3

(* Events whose cause has to be there still.                               *)
Unread == {"Event", "Lookup", "Read"}

Pending(f) ==
  \E u \in Threads : \E i \in DOMAIN batch[u] :
    batch[u][i].fd = f /\ (i > 1 \/ pc[u] \in Unread)

LEMMA PendingPasses ==
  ASSUME TypeOK, NEW t \in Threads, pc[t] # "Wait", NEW from, NEW to,
         Does(t, from) \/ (Goes(t, from, to) /\ (pc'[t] \in Unread => pc[t] \in Unread)),
         NEW f, Pending(f)'
  PROVE  Pending(f)
<1>0. PICK u \in Threads : \E i \in DOMAIN batch'[u] :
        batch'[u][i].fd = f /\ (i > 1 \/ pc'[u] \in Unread)
  BY DEF Pending
<1>1. PICK i \in DOMAIN batch'[u] :
        batch'[u][i].fd = f /\ (i > 1 \/ pc'[u] \in Unread)
  BY <1>0
<1>2. CASE Does(t, from)
  <2>1. LET k == IF u = t THEN i + 1 ELSE i IN
        /\ i \in Nat /\ i >= 1
        /\ k \in DOMAIN batch[u] /\ batch'[u][i] = batch[u][k]
    BY <1>2, EventsPass
  <2>2. u # t => pc'[u] = pc[u]
    BY <1>2 DEF Does, Moves
  <2> QED
    BY <1>1, <2>1, <2>2 DEF Pending
<1>3. CASE Goes(t, from, to) /\ (pc'[t] \in Unread => pc[t] \in Unread)
  <2>1. batch'[u] = batch[u] /\ (u # t => pc'[u] = pc[u])
    BY <1>3 DEF Goes, Moves
  <2> QED
    BY <1>1, <1>3, <2>1 DEF Pending
<1> QED
  BY <1>2, <1>3

(* The event in hand is not pending once it has been read, or is done.     *)
LEMMA NotPending ==
  ASSUME TypeOK, EventInv, NEW t \in Threads, pc[t] # "Wait", NEW from, NEW to,
         Does(t, from) \/ (Goes(t, from, to) /\ pc'[t] \notin Unread),
         NEW f, f = Fd(t)
  PROVE  ~Pending(f)'
<1> SUFFICES ASSUME NEW u \in Threads, NEW i \in DOMAIN batch'[u], batch'[u][i].fd = f,
                    i > 1 \/ pc'[u] \in Unread
             PROVE  FALSE
  BY DEF Pending
<1>1. CASE Does(t, from)
  BY <1>1, HandledIsGone DEF Handling
<1>2. CASE Goes(t, from, to) /\ pc'[t] \notin Unread
  <2>1. batch'[u] = batch[u]
    BY <1>2, EventsKept
  <2>2. u = t /\ i = 1
    BY <2>1, EventPlace
  <2> QED
    BY <1>2, <2>2
<1> QED
  BY <1>1, <1>2

LEMMA CauseFrom ==
  ASSUME TypeOK', \A f \in Fds \union {Server} : Pending(f)' => Cause(f)'
  PROVE  CauseInv'
<1>1. ASSUME NEW u \in Threads, NEW i \in DOMAIN batch'[u], i > 1 \/ pc'[u] \in Unread
      PROVE  Cause(batch[u][i].fd)'
  <2>1. batch'[u] \in Seq(Events)
    BY DEF TypeOK, Events
  <2>2. batch'[u][i].fd \in Fds \union {Server}
    <3>1. batch'[u][i] \in Events
      BY <2>1
    <3> QED
      BY <3>1 DEF Events
  <2>3. PICK f \in Fds \union {Server} : f = batch'[u][i].fd
    BY <2>2
  <2>4. Cause(f)'
    BY <1>1, <2>3 DEF Pending
  <2> QED
    BY <2>3, <2>4 DEF Cause
<1> QED
  BY <1>1 DEF CauseInv, Unread

LEMMA CauseKept ==
  ASSUME TypeOK, TypeOK', CauseInv, NEW t \in Threads, pc[t] # "Wait", NEW from, NEW to,
         Does(t, from) \/ (Goes(t, from, to) /\ (pc'[t] \in Unread => pc[t] \in Unread)),
         \A f \in Fds \union {Server} : Pending(f)' => (Cause(f) => Cause(f)')
  PROVE  CauseInv'
<1>1. \A f : Pending(f) => Cause(f)
  BY DEF CauseInv, Pending, Unread
<1>2. \A f : Pending(f)' => Pending(f)
  BY PendingPasses
<1> QED
  BY <1>1, <1>2, CauseFrom

-----------------------------------------------------------------------------
(* Without heartbeats: which actions there are, and what they keep.        *)
AInv ==
  /\ NoTimersInv /\ EventInv /\ InterestInv /\ ServesInv /\ CauseInv
  /\ NoForgottenDescriptor

TimerPlaces == {"Timer", "Beat", "RearmTimer", "AddTimer", "RegisterTimer", "Forget"}

LEMMA AloneServes ==
  ASSUME TypeOK, AInv, NEW t \in Threads, pc[t] \in {"Read", "Finish", "Remove", "Del"}
  PROVE  /\ Fd(t) \in clients \ wrecks /\ Fd(t) # Server /\ client[t] = Fd(t)
         /\ interest[Fd(t)] = "Disarmed" /\ timerOf[Fd(t)] = None /\ Fd(t) \in Fds
<1>1. Fd(t) # Server /\ client[t] = Fd(t)
  BY DEF AInv, ServesInv
<1>2. Fd(t) \in clients /\ interest[Fd(t)] = "Disarmed"
  BY <1>1, EventPlace DEF AInv
<1> QED
  BY <1>1, <1>2 DEF AInv, NoTimersInv, TypeOK

LEMMA AloneActions ==
  ASSUME Alone, EpollInv, AInv, NEW t \in Threads, Step(t)
  PROVE  \/ \E c \in Fds : Accept(t, c)
         \/ AcceptFails(t) \/ AddClient(t) \/ RearmServer(t)
         \/ GetTimer(t) \/ Lookup(t) \/ Read(t) \/ Finish(t)
         \/ RemoveFd(t) \/ Del(t)
<1>1. pc[t] \notin TimerPlaces
  BY DEF AInv, NoTimersInv, TimerPlaces
<1>2. ~AddFails(t)
  BY DEF AddFails, Alone
<1>3. ~(GetTimerClient(t) \/ Beat(t) \/ RearmTimer(t) \/ Forget(t))
  BY <1>1 DEF GetTimerClient, Beat, RearmTimer, Forget, Done, Go, At, TimerPlaces
<1>4. ~(NoTimer(t) \/ RegisterTimer(t) \/ \E f \in Fds : AddTimer(t, f))
  BY <1>1 DEF NoTimer, RegisterTimer, AddTimer, Go, At, TimerPlaces
<1>5. ~DelAgain(t)
  BY DEF DelAgain, AInv, NoTimersInv
<1>6. ~(DelFails(t) \/ DelNothing(t))
  <2> SUFFICES ASSUME DelFails(t) \/ DelNothing(t) PROVE FALSE
    OBVIOUS
  <2>1. pc[t] = "Del"
    BY DEF DelFails, DelNothing, Removed, At
  <2>2. /\ client[t] \in clients \ wrecks /\ interest[client[t]] = "Disarmed"
        /\ timerOf[client[t]] = None
    BY <2>1, AloneServes DEF EpollInv
  <2> QED
    BY <2>2 DEF DelFails, DelNothing
<1> QED
  BY <1>2, <1>3, <1>4, <1>5, <1>6 DEF Step

(* Steps that leave the epoll instance and the map alone.                  *)
LEMMA AloneQuiet ==
  ASSUME TypeOK, TypeOK', AInv, NEW t \in Threads, NEW from, NEW to, from # "Wait",
         Goes(t, from, to), pc'[t] \notin TimerPlaces, pc'[t] # "RearmServer",
         UNCHANGED <<interest, clients, timerOf, timers, wrecks>>,
         \A u \in Threads : u # t => client'[u] = client[u],
         pc'[t] = "Add" => Fd(t) = Server,
         pc'[t] \in {"Read", "Finish", "Remove", "Del"} =>
           Fd(t) # Server /\ client'[t] = Fd(t),
         pc'[t] \in Unread => pc[t] \in Unread,
         \A f \in Fds \union {Server} : Pending(f)' => (Cause(f) => Cause(f)')
  PROVE  AInv'
<1>0. pc[t] # "Wait" /\ Moves(t)
  BY DEF Goes
<1>1. \A u \in Threads : batch'[u] = batch[u] /\ (u # t => pc'[u] = pc[u])
  BY EventsKept, <1>0 DEF Moves
<1>2. NoTimersInv'
  BY <1>1 DEF AInv, NoTimersInv, TimerPlaces
<1>3. EventInv'
  BY <1>0, EventKept DEF AInv
<1>4. InterestInv'
  BY DEF AInv, InterestInv
<1>5. ServesInv'
  BY <1>1 DEF AInv, ServesInv, Fd
<1>6. CauseInv'
  BY <1>0, CauseKept DEF AInv
<1>7. NoForgottenDescriptor'
  <2>1. ~undefined
    BY <1>0 DEF Moves
  <2> QED
    BY <1>1, <2>1 DEF AInv, NoForgottenDescriptor, Handling
<1> QED
  BY <1>2, <1>3, <1>4, <1>5, <1>6, <1>7 DEF AInv

LEMMA AloneUndefined == AInv /\ Undefined => AInv'
<1> SUFFICES ASSUME AInv, Undefined PROVE AInv'
  OBVIOUS
<1>1. UNCHANGED <<file, interest, readable, hungup, clients, timerOf, timers, wrecks,
                  pc, batch, client>> /\ undefined'
  BY DEF Undefined, kernel, maps, local
<1>2. NoTimersInv' /\ EventInv' /\ InterestInv' /\ ServesInv'
  BY <1>1 DEF AInv, NoTimersInv, EventInv, InterestInv, ServesInv, Fd
<1>3. CauseInv'
  BY <1>1 DEF AInv, CauseInv, Cause
<1>4. NoForgottenDescriptor'
  BY <1>1 DEF NoForgottenDescriptor
<1> QED
  BY <1>2, <1>3, <1>4 DEF AInv

LEMMA AloneAccept ==
  ASSUME TypeOK, TypeOK', AInv, NEW t \in Threads, NEW c \in Fds, Accept(t, c)
  PROVE  AInv'
<1>1. Goes(t, "Event", {"Add"}) /\ pc[t] # "Wait" /\ pc'[t] = "Add" /\ Fd(t) = Server
  BY ListenerMoves DEF Goes, Accept
<1>2. /\ UNCHANGED <<interest, clients, timerOf, timers, wrecks, client, readable, hungup>>
  BY DEF Accept, maps
<1>3. ~Pending(Server)'
  BY <1>1, NotPending DEF AInv, Unread
<1>4. \A f \in Fds \union {Server} : Pending(f)' => (Cause(f) => Cause(f)')
  BY <1>2, <1>3 DEF Cause
<1> QED
  BY <1>1, <1>2, <1>4, AloneQuiet DEF TimerPlaces, Unread

LEMMA AloneGetTimer ==
  ASSUME TypeOK, TypeOK', AInv, NEW t \in Threads, GetTimer(t)
  PROVE  AInv'
<1>1. Goes(t, "Event", {"Lookup", "Timer"}) /\ pc[t] = "Event" /\ Fd(t) # Server
  BY TimerMoves DEF Goes
<1>2. Fd(t) \in Fds
  BY <1>1, FdFacts
<1>3. pc'[t] = "Lookup"
  BY <1>1, <1>2, GoFacts DEF GetTimer, AInv, NoTimersInv, Labels
<1>4. UNCHANGED <<file, interest, readable, hungup, clients, timerOf, timers, wrecks, client>>
  BY DEF GetTimer, kernel, maps
<1>5. \A f \in Fds \union {Server} : Pending(f)' => (Cause(f) => Cause(f)')
  BY <1>4 DEF Cause
<1> QED
  BY <1>1, <1>3, <1>4, <1>5, AloneQuiet DEF TimerPlaces, Unread

LEMMA AloneLookup ==
  ASSUME TypeOK, TypeOK', PlaceInv, AInv, NEW t \in Threads, Lookup(t)
  PROVE  AInv'
<1>1. Goes(t, "Lookup", {"Forget", "Remove", "Read"}) /\ pc[t] = "Lookup"
  BY ClientMoves DEF Goes
<1>2. Fd(t) # Server /\ Fd(t) \in clients
  BY <1>1, EventPlace DEF PlaceInv, AInv
<1>3. pc'[t] \in {"Remove", "Read"}
  <2>1. Go(t, "Lookup", IF Head(batch[t]).rdhup THEN "Remove" ELSE "Read")
    BY <1>2 DEF Lookup, Go
  <2> QED
    BY <2>1 DEF Go, TypeOK
<1>4. client' = [client EXCEPT ![t] = Fd(t)]
  BY <1>2 DEF Lookup
<1>5. client'[t] = Fd(t) /\ \A u \in Threads : u # t => client'[u] = client[u]
  BY <1>4 DEF TypeOK
<1>6. UNCHANGED <<file, interest, readable, hungup, clients, timerOf, timers, wrecks>>
  BY DEF Lookup, kernel, maps
<1>7. \A f \in Fds \union {Server} : Pending(f)' => (Cause(f) => Cause(f)')
  BY <1>6 DEF Cause
<1> QED
  BY <1>1, <1>2, <1>3, <1>5, <1>6, <1>7, AloneQuiet DEF TimerPlaces, Unread

LEMMA AloneRead ==
  ASSUME Alone, TypeOK, TypeOK', AInv, NEW t \in Threads, Read(t), ~Undefined
  PROVE  AInv'
<1>1. Goes(t, "Read", {"Remove", "Finish", "AddTimer"}) /\ pc[t] = "Read"
  BY ClientMoves DEF Goes
<1>2. pc'[t] \in {"Remove", "Finish"}
  BY <1>1 DEF Read, Alone, Go, TypeOK
<1>3. Fd(t) # Server /\ client[t] = Fd(t)
  BY <1>1, AloneServes
<1>4. /\ readable' = readable \ {Fd(t)}
      /\ UNCHANGED <<file, interest, hungup, clients, timerOf, timers, wrecks, client>>
  BY DEF Read, maps, local
<1>5. \A f \in Fds \union {Server} : Pending(f)' => (Cause(f) => Cause(f)')
  <2>1. \A f : f = Fd(t) => ~Pending(f)'
    BY <1>1, <1>2, NotPending DEF AInv, Unread
  <2> QED
    BY <1>4, <2>1 DEF Cause
<1> QED
  BY <1>1, <1>2, <1>3, <1>4, <1>5, AloneQuiet DEF TimerPlaces, Unread

LEMMA AloneRemoveFd ==
  ASSUME TypeOK, TypeOK', AInv, NEW t \in Threads, RemoveFd(t), ~Undefined
  PROVE  AInv'
<1>1. Goes(t, "Remove", {"Del"}) /\ pc[t] = "Remove" /\ pc'[t] = "Del"
  BY RemoveMoves DEF Goes
<1>2. Fd(t) # Server /\ client[t] = Fd(t)
  BY <1>1, AloneServes
<1>3. UNCHANGED <<file, interest, readable, hungup, clients, timerOf, timers, wrecks, client>>
  BY DEF RemoveFd, kernel, maps, local
<1>4. \A f \in Fds \union {Server} : Pending(f)' => (Cause(f) => Cause(f)')
  BY <1>3 DEF Cause
<1> QED
  BY <1>1, <1>2, <1>3, <1>4, AloneQuiet DEF TimerPlaces, Unread

LEMMA AloneAddClient ==
  ASSUME TypeOK, TypeOK', AcceptedInv, AInv, NEW t \in Threads, AddClient(t)
  PROVE  AInv'
<1> DEFINE c == conn[t]
<1>1. Goes(t, "Add", {"RearmServer"}) /\ Moves(t) /\ pc[t] = "Add" /\ pc'[t] = "RearmServer"
  BY ListenerMoves DEF Goes
<1>2. wrecks = {} /\ c \in Fds /\ c \notin clients /\ c # Server
  BY <1>1, EpollAssumption DEF AcceptedInv, AInv, NoTimersInv, EpollAssumption
<1>3. /\ interest'[c] = "Armed"
      /\ \A f \in Fds \union {Server} : f # c => interest'[f] = interest[f]
      /\ clients' = clients \union {c} /\ wrecks' = wrecks \ {c}
      /\ timerOf'[c] = None /\ \A f \in Fds : f # c => timerOf'[f] = timerOf[f]
      /\ UNCHANGED <<file, readable, hungup, timers, client>>
  BY <1>2 DEF AddClient, TypeOK
<1> HIDE DEF c
<1>4. \A u \in Threads : batch'[u] = batch[u] /\ (u # t => pc'[u] = pc[u])
  BY <1>1, EventsKept DEF Moves
<1>5. NoTimersInv'
  BY <1>1, <1>2, <1>3, <1>4 DEF AInv, NoTimersInv
<1>6. EventInv'
  <2>1. ASSUME NEW u \in Threads, NEW f \in Fds \union {Server}, Handling(u, f)'
        PROVE  interest'[f] = interest[f] /\ (f \in clients => f \in clients')
    <3>1. Handling(u, f)
      BY <1>4, <2>1 DEF Handling
    <3>2. f # Server => f \in clients
      BY <3>1 DEF Handling, AInv, EventInv
    <3>3. f # c
      BY <1>2, <3>2
    <3> QED
      BY <1>3, <3>3
  <2> QED
    BY <1>1, <2>1, EventKept DEF AInv
<1>7. InterestInv'
  BY <1>2, <1>3 DEF AInv, InterestInv
<1>8. ServesInv'
  BY <1>1, <1>3, <1>4 DEF AInv, ServesInv, Fd
<1>9. CauseInv'
  <2>1. \A f \in Fds \union {Server} : Pending(f)' => (Cause(f) => Cause(f)')
    BY <1>3 DEF Cause
  <2> QED
    BY <1>1, <2>1, CauseKept DEF AInv, Unread
<1>10. NoForgottenDescriptor'
  <2>1. ~undefined
    BY <1>1 DEF Moves
  <2>2. ASSUME NEW f \in (clients' \ wrecks') \union {Server}, f # c
        PROVE  \/ interest'[f] = "Armed"
               \/ \E u \in Threads : Handling(u, f)'
               \/ f = Server /\ "accept" \in Faults
    <3>1. f \in (clients \ wrecks) \union {Server} /\ f \in Fds \union {Server}
      BY <1>2, <1>3, <2>2 DEF TypeOK
    <3>2. \A u \in Threads : Handling(u, f) => Handling(u, f)'
      BY <1>4 DEF Handling
    <3> QED
      BY <1>3, <2>1, <2>2, <3>1, <3>2 DEF AInv, NoForgottenDescriptor
  <2> QED
    BY <1>3, <2>2 DEF NoForgottenDescriptor
<1> QED
  BY <1>5, <1>6, <1>7, <1>8, <1>9, <1>10 DEF AInv

(* Steps that end an event: its descriptor is armed, or closed, or it is   *)
(* the listener's and accept fails.                                        *)
LEMMA AloneDone ==
  ASSUME TypeOK, TypeOK', AInv, NEW t \in Threads, NEW from, from # "Wait", Does(t, from),
         NEW d, d = Fd(t),
         \A f \in Fds \union {Server} :
           f # d => interest'[f] = interest[f] /\ (f \in clients <=> f \in clients'),
         d \in Fds => (d \in clients' <=> interest'[d] # "None"),
         d \in clients' \union {Server} =>
           interest'[d] = "Armed" \/ (d = Server /\ "accept" \in Faults),
         \A f \in Fds : timerOf'[f] = None /\ timers'[f] = None,
         UNCHANGED <<wrecks, client>>,
         \A f \in Fds \union {Server} : f # d => (Cause(f) => Cause(f)')
  PROVE  AInv'
<1>1. Moves(t) /\ pc[t] # "Wait" /\ pc'[t] \in {"Wait", "Event"}
  BY DEF Does
<1>2. \A u \in Threads : u # t => pc'[u] = pc[u] /\ batch'[u] = batch[u]
  BY <1>1 DEF Moves
<1>3. \A u \in Threads : ~Handling(u, d)'
  BY <1>1, HandledIsGone DEF AInv
<1>4. NoTimersInv'
  BY <1>1, <1>2 DEF AInv, NoTimersInv
<1>5. EventInv'
  BY <1>1, <1>3, EventKept DEF AInv
<1>6. InterestInv'
  BY DEF AInv, InterestInv
<1>7. ServesInv'
  BY <1>1, <1>2 DEF AInv, ServesInv, Fd
<1>8. CauseInv'
  <2>1. ~Pending(d)'
    BY <1>1, NotPending DEF AInv
  <2> QED
    BY <1>1, <2>1, CauseKept DEF AInv
<1>9. NoForgottenDescriptor'
  <2> SUFFICES ASSUME NEW f \in clients' \union {Server}
               PROVE  \/ interest'[f] = "Armed"
                      \/ \E u \in Threads : Handling(u, f)'
                      \/ f = Server /\ "accept" \in Faults
    BY DEF NoForgottenDescriptor
  <2>1. CASE f = d
    BY <2>1
  <2>2. CASE f # d
    <3>1. f \in (clients \ wrecks) \union {Server} /\ f \in Fds \union {Server} /\ ~undefined
      BY <1>1, <2>2 DEF AInv, NoTimersInv, Moves, TypeOK
    <3>2. \A u \in Threads : Handling(u, f) => Handling(u, f)'
      BY <1>1, <2>2, HandlingPasses
    <3> QED
      BY <2>2, <3>1, <3>2 DEF AInv, NoForgottenDescriptor
  <2> QED
    BY <2>1, <2>2
<1> QED
  BY <1>4, <1>5, <1>6, <1>7, <1>8, <1>9 DEF AInv

LEMMA AloneAcceptFails ==
  ASSUME TypeOK, TypeOK', AInv, NEW t \in Threads, AcceptFails(t)
  PROVE  AInv'
<1>1. Does(t, "Event") /\ pc[t] = "Event" /\ Fd(t) = Server
  BY ListenerMoves DEF Does, AcceptFails
<1>2. "accept" \in Faults
  <2>1. 1 \in DOMAIN batch[t] /\ batch[t][1].fd = Server
    BY <1>1, FdFacts, TailElements
  <2>2. Cause(Server)
    BY <1>1, <2>1 DEF AInv, CauseInv
  <2> QED
    BY <2>2 DEF Cause, AcceptFails
<1>3. UNCHANGED <<file, interest, readable, hungup, clients, timerOf, timers, wrecks, client>>
  BY DEF AcceptFails, kernel, maps
<1>4. Server \notin Fds
  BY EpollAssumption DEF EpollAssumption
<1>5. \A f \in Fds \union {Server} : f # Server => (Cause(f) => Cause(f)')
  BY <1>3 DEF Cause
<1>6. \A f \in Fds : timerOf'[f] = None /\ timers'[f] = None
  BY <1>3 DEF AInv, NoTimersInv
<1> QED
  BY <1>1, <1>2, <1>3, <1>4, <1>5, <1>6, AloneDone

LEMMA AloneRearmServer ==
  ASSUME TypeOK, TypeOK', AInv, NEW t \in Threads, RearmServer(t)
  PROVE  AInv'
<1>1. Does(t, "RearmServer") /\ pc[t] = "RearmServer"
  BY ListenerMoves DEF Does
<1>2. Fd(t) = Server
  BY <1>1 DEF AInv, ServesInv
<1>3. /\ UNCHANGED <<file, readable, hungup, clients, timerOf, timers, wrecks, client>>
      /\ interest'[Server] = "Armed"
      /\ \A f \in Fds \union {Server} : f # Server => interest'[f] = interest[f]
  BY DEF RearmServer, maps, TypeOK
<1>4. Server \notin Fds
  BY EpollAssumption DEF EpollAssumption
<1>5. \A f \in Fds \union {Server} : f # Server => (Cause(f) => Cause(f)')
  BY <1>3 DEF Cause
<1>6. \A f \in Fds : timerOf'[f] = None /\ timers'[f] = None
  BY <1>3 DEF AInv, NoTimersInv
<1> QED
  BY <1>1, <1>2, <1>3, <1>4, <1>5, <1>6, AloneDone

LEMMA AloneFinish ==
  ASSUME TypeOK, TypeOK', AInv, NEW t \in Threads, Finish(t), ~Undefined
  PROVE  AInv'
<1> DEFINE d == Fd(t)
<1>1. Does(t, "Finish") /\ pc[t] = "Finish"
  BY ClientMoves DEF Does
<1>2. d \in clients /\ d # Server /\ d \in Fds /\ interest[d] = "Disarmed"
  BY <1>1, AloneServes
<1>3. /\ UNCHANGED <<file, readable, hungup, clients, timerOf, timers, wrecks, client>>
      /\ interest'[d] = "Armed"
      /\ \A f \in Fds \union {Server} : f # d => interest'[f] = interest[f]
  BY <1>2 DEF Finish, maps, TypeOK
<1>4. \A f \in Fds \union {Server} : f # d => (Cause(f) => Cause(f)')
  BY <1>3 DEF Cause
<1>5. \A f \in Fds : timerOf'[f] = None /\ timers'[f] = None
  BY <1>3 DEF AInv, NoTimersInv
<1>6. PICK e : e = d
  OBVIOUS
<1> HIDE DEF d
<1>7. e = Fd(t)
  BY <1>6 DEF d
<1> QED
  BY <1>1, <1>2, <1>3, <1>4, <1>5, <1>6, <1>7, AloneDone

LEMMA AloneDel ==
  ASSUME TypeOK, TypeOK', AInv, NEW t \in Threads, Del(t)
  PROVE  AInv'
<1>1. Removed(t) /\ pc[t] = "Del"
  BY RemovedMoves DEF Del
<1>2. PICK d \in Fds : d = Fd(t)
  BY <1>1, AloneServes
<1>3. /\ d \in clients /\ d # Server /\ client[t] = d /\ timerOf[d] = None
      /\ None \notin Fds \union {Server}
  BY <1>1, <1>2, AloneServes, EpollAssumption DEF EpollAssumption
<1>4. Does(t, "Del")
  BY <1>1, <1>2, <1>3, RemoveMoves
<1>5. Close({d, None})
  BY <1>3 DEF Del
<1>6. /\ clients' = clients \ {d} /\ UNCHANGED <<wrecks, client>>
      /\ timerOf' = [timerOf EXCEPT ![d] = None]
      /\ timers' = [g \in Fds |-> IF g = None THEN None ELSE timers[g]]
  BY <1>3 DEF Del
<1>7. interest'[d] = "None"
  BY <1>5 DEF Close, TypeOK
<1>8. \A f \in Fds \union {Server} : f # d => interest'[f] = interest[f]
  BY <1>3, <1>5 DEF Close, TypeOK
<1>9. \A f \in Fds \union {Server} : f # d => (f \in clients <=> f \in clients')
  BY <1>6
<1>10. \A f \in Fds : timerOf'[f] = None /\ timers'[f] = None
  <2>1. \A f \in Fds : timerOf[f] = None /\ timers[f] = None
    BY DEF AInv, NoTimersInv
  <2> QED
    BY <1>6, <2>1 DEF TypeOK
<1>11. \A f \in Fds \union {Server} : f # d => (Cause(f) => Cause(f)')
  <2>1. /\ \A f \in Fds : file[f] = "Free" => file'[f] = "Free"
        /\ readable' = readable \ {d, None} /\ hungup' = hungup \ {d, None}
    BY <1>5 DEF Close
  <2>2. \A f \in Fds : f # d => (Cause(f) => Cause(f)')
    BY <1>3, <2>1, EpollAssumption DEF Cause, EpollAssumption
  <2>3. Cause(Server) => Cause(Server)'
    BY <2>1 DEF Cause
  <2> QED
    BY <2>2, <2>3
<1>12. d \notin clients' \union {Server}
  BY <1>3, <1>6
<1> QED
  BY <1>2, <1>4, <1>6, <1>7, <1>8, <1>9, <1>10, <1>11, <1>12, AloneDone

LEMMA AloneFetch ==
  ASSUME TypeOK, TypeOK', AInv, NEW t \in Threads, NEW s \in ReadyBatches, Fetch(t, s)
  PROVE  AInv'
<1>1. /\ Moves(t) /\ pc[t] = "Wait" /\ pc'[t] = "Event"
      /\ \A i \in DOMAIN batch'[t] :
           LET f == batch'[t][i].fd IN
           /\ f \in Fds \union {Server} /\ Ready(f)
           /\ interest'[f] = "Disarmed"
           /\ \A j \in DOMAIN batch'[t] : batch'[t][j].fd = f => j = i
      /\ \A f \in Fds \union {Server} : interest'[f] = interest[f] \/ Handling(t, f)'
  BY FetchMoves
<1>2. \A u \in Threads : u # t => pc'[u] = pc[u] /\ batch'[u] = batch[u]
  BY <1>1 DEF Moves
<1>3. UNCHANGED <<file, readable, hungup, clients, timerOf, timers, wrecks, client>>
  BY DEF Fetch, maps
<1>4. \A f : Handling(t, f)' =>
        f \in Fds \union {Server} /\ Ready(f) /\ interest'[f] = "Disarmed"
  BY <1>1 DEF Handling
<1>5. \A f : Ready(f) => interest[f] = "Armed" /\ Cause(f)
  BY DEF Ready, PeerConnects, Cause
<1>6. \A f \in Fds : Handling(t, f)' => f \in clients
  BY <1>4, <1>5 DEF AInv, InterestInv
<1>7. \A u \in Threads : \A f : u # t /\ Handling(u, f) => interest[f] = "Disarmed"
  BY DEF AInv, EventInv, Handling
<1>8. NoTimersInv'
  BY <1>1, <1>2, <1>3 DEF AInv, NoTimersInv
<1>9. EventInv'
  <2>1. ASSUME NEW u \in Threads, NEW i \in DOMAIN batch'[u]
        PROVE  LET f == batch'[u][i].fd IN
               /\ interest'[f] = "Disarmed" /\ (f # Server => f \in clients')
               /\ \A v \in Threads : \A j \in DOMAIN batch'[v] :
                    batch'[v][j].fd = f => v = u /\ j = i
    <3>0. batch'[u] \in Seq(Events)
      BY <1>1 DEF Moves
    <3>1. batch'[u][i].fd \in Fds \union {Server}
      <4>1. batch'[u][i] \in Events
        BY <3>0
      <4> QED
        BY <4>1 DEF Events
    <3>2. PICK f \in Fds \union {Server} : f = batch'[u][i].fd
      BY <3>1
    <3>3. Handling(u, f)'
      BY <3>2 DEF Handling
    <3>4. CASE u = t
      <4>1. interest'[f] = "Disarmed" /\ (f # Server => f \in clients') /\ interest[f] = "Armed"
        BY <1>3, <1>4, <1>5, <1>6, <3>3, <3>4
      <4>2. ASSUME NEW v \in Threads, NEW j \in DOMAIN batch'[v], batch'[v][j].fd = f
            PROVE  v = u /\ j = i
        <5>1. v = t
          <6>1. CASE v # t
            <7>1. Handling(v, f)
              BY <1>2, <4>2, <6>1 DEF Handling
            <7> QED
              BY <1>7, <4>1, <6>1, <7>1
          <6> QED
            BY <6>1
        <5> QED
          BY <1>1, <3>2, <3>4, <4>2, <5>1
      <4> QED
        BY <3>2, <4>1, <4>2
    <3>5. CASE u # t
      <4>1. Handling(u, f) /\ interest[f] = "Disarmed" /\ (f # Server => f \in clients)
        BY <1>2, <3>2, <3>5 DEF AInv, EventInv, Handling
      <4>2. ~Handling(t, f)'
        BY <1>4, <1>5, <4>1
      <4>3. interest'[f] = "Disarmed" /\ (f # Server => f \in clients')
        BY <1>1, <1>3, <4>1, <4>2
      <4>4. ASSUME NEW v \in Threads, NEW j \in DOMAIN batch'[v], batch'[v][j].fd = f
            PROVE  v = u /\ j = i
        <5>1. v # t
          BY <4>2, <4>4 DEF Handling
        <5> QED
          BY <1>2, <3>2, <3>5, <4>4, <5>1 DEF AInv, EventInv
      <4> QED
        BY <3>2, <4>3, <4>4
    <3> QED
      BY <3>4, <3>5
  <2> QED
    BY <2>1 DEF EventInv
<1>10. InterestInv'
  BY <1>1, <1>3, <1>4, <1>6 DEF AInv, InterestInv
<1>11. ServesInv'
  BY <1>1, <1>2, <1>3 DEF AInv, ServesInv, Fd
<1>12. CauseInv'
  <2>1. ASSUME NEW f \in Fds \union {Server}, Pending(f)' PROVE Cause(f)'
    <3>1. Handling(t, f)' \/ Pending(f)
      BY <1>2, <2>1 DEF Pending, Handling
    <3>2. Pending(f) => Cause(f)
      BY DEF AInv, CauseInv, Pending, Unread
    <3>3. Cause(f)
      BY <1>4, <1>5, <3>1, <3>2
    <3> QED
      BY <1>3, <3>3 DEF Cause
  <2> QED
    BY <2>1, CauseFrom
<1>13. NoForgottenDescriptor'
  <2> SUFFICES ASSUME NEW f \in (clients' \ wrecks') \union {Server}
               PROVE  \/ interest'[f] = "Armed"
                      \/ \E u \in Threads : Handling(u, f)'
                      \/ f = Server /\ "accept" \in Faults
    BY DEF NoForgottenDescriptor
  <2>1. f \in (clients \ wrecks) \union {Server} /\ f \in Fds \union {Server} /\ ~undefined
    BY <1>1, <1>3 DEF Moves, TypeOK
  <2>2. ~Handling(t, f)
    BY <1>1 DEF Handling, TypeOK
  <2>3. \A u \in Threads : Handling(u, f) => Handling(u, f)'
    BY <1>2, <2>2 DEF Handling
  <2> QED
    BY <1>1, <2>1, <2>3 DEF AInv, NoForgottenDescriptor
<1> QED
  BY <1>8, <1>9, <1>10, <1>11, <1>12, <1>13 DEF AInv

LEMMA AloneWorld ==
  ASSUME TypeOK, TypeOK', AInv,
         (\E f \in Fds : Send(f) \/ HangUp(f) \/ Expire(f)) \/ UNCHANGED vars
  PROVE  AInv'
<1>1. /\ UNCHANGED <<file, interest, clients, timerOf, timers, wrecks, pc, batch, client>>
      /\ readable \subseteq readable' /\ hungup \subseteq hungup'
      /\ undefined' = undefined
  BY DEF Send, HangUp, Expire, vars, kernel, maps, local
<1>2. NoTimersInv' /\ EventInv' /\ InterestInv' /\ ServesInv'
  BY <1>1 DEF AInv, NoTimersInv, EventInv, InterestInv, ServesInv, Fd
<1>3. CauseInv'
  BY <1>1 DEF AInv, CauseInv, Cause
<1>4. NoForgottenDescriptor'
  BY <1>1 DEF AInv, NoForgottenDescriptor, Handling
<1> QED
  BY <1>2, <1>3, <1>4 DEF AInv

LEMMA AloneInit == Init => AInv
<1> SUFFICES ASSUME Init PROVE AInv
  OBVIOUS
<1>1. NoTimersInv /\ EventInv /\ InterestInv /\ ServesInv /\ CauseInv
  BY EpollAssumption
     DEF Init, NoTimersInv, EventInv, InterestInv, ServesInv, CauseInv, EpollAssumption
<1>2. NoForgottenDescriptor
  BY DEF Init, NoForgottenDescriptor
<1> QED
  BY <1>1, <1>2 DEF AInv

LEMMA AloneStep == Alone /\ EpollInv /\ AInv /\ [Next]_vars => AInv'
<1> SUFFICES ASSUME Alone, EpollInv, AInv, [Next]_vars PROVE AInv'
  OBVIOUS
<1>0. TypeOK /\ TypeOK' /\ PlaceInv /\ AcceptedInv
  BY TypeStep DEF EpollInv
<1>1. CASE Undefined
  BY <1>1, AloneUndefined
<1>2. ASSUME NEW t \in Threads, Step(t) PROVE AInv'
  BY <1>0, <1>1, <1>2, AloneActions, AloneAccept, AloneAcceptFails, AloneAddClient,
     AloneRearmServer, AloneGetTimer, AloneLookup, AloneRead, AloneFinish,
     AloneRemoveFd, AloneDel
<1>3. ASSUME NEW t \in Threads, Wake(t) PROVE AInv'
  BY <1>0, <1>3, AloneFetch DEF Wake
<1> QED
  BY <1>0, <1>2, <1>3, AloneWorld DEF Next, Rest

LEMMA AloneInvariant == Spec => []AloneInv
<1>1. Init => AloneInv
  BY AloneInit DEF AloneInv, AInv
<1>2. EpollInv /\ AloneInv /\ [Next]_vars => AloneInv'
  <2> SUFFICES ASSUME EpollInv, AloneInv, [Next]_vars, Alone PROVE AInv'
    BY DEF AloneInv, AInv, Alone
  <2> QED
    BY AloneStep DEF AloneInv, AInv
<1> QED
  BY <1>1, <1>2, EpollInvariant, PTL DEF Spec

(* EPOLLONESHOT keeps a client to one thread: without heartbeats no two    *)
(* threads serve the same client, however many there are, whatever they    *)
(* have fetched, and even where the clients' map moves.                    *)
THEOREM OneThread ==
  ASSUME ~Heartbeats, "add" \notin Faults
  PROVE  Spec => []OneThreadPerClient
<1>1. EpollInv /\ AloneInv => OneThreadPerClient
  <2> SUFFICES ASSUME EpollInv, AInv, NEW t \in Threads, NEW u \in Threads, t # u,
                      pc[t] \in Serving, pc[u] \in Serving, client[t] = client[u]
               PROVE  FALSE
    BY DEF OneThreadPerClient, AloneInv, Alone, AInv
  <2>1. \A v \in {t, u} : pc[v] \in {"Read", "Finish", "Remove", "Del"}
    BY DEF AInv, NoTimersInv, Serving
  <2>2. Fd(t) = Fd(u) /\ TypeOK
    BY <2>1, AloneServes DEF EpollInv
  <2>3. \A v \in {t, u} : pc[v] # "Wait" /\ 1 \in DOMAIN batch[v] /\ batch[v][1].fd = Fd(v)
    BY <2>1, <2>2, FdFacts, TailElements
  <2> QED
    BY <2>2, <2>3 DEF AInv, EventInv
<1> QED
  BY <1>1, EpollInvariant, AloneInvariant, PTL

(* Every way out of the loop arms the descriptor again or ends the client: *)
(* none is forgotten but the listener's, and only when accept fails.       *)
THEOREM NoDescriptorIsForgotten ==
  ASSUME ~Heartbeats, "add" \notin Faults
  PROVE  Spec => []NoForgottenDescriptor
<1>1. AloneInv => NoForgottenDescriptor
  BY DEF AloneInv, Alone
<1> QED
  BY <1>1, AloneInvariant, PTL

(* A client that is read from has sent something or gone away, so that     *)
(* reading nothing from it means that it has closed the connection.        *)
THEOREM ReadingNothingMeansClosed ==
  ASSUME ~Heartbeats, "add" \notin Faults
  PROVE  Spec => []ClosedMeansClosed
<1>1. EpollInv /\ AloneInv => ClosedMeansClosed
  <2> SUFFICES ASSUME EpollInv, AInv, NEW t \in Threads, pc[t] = "Read"
               PROVE  Fd(t) \in readable \union hungup
    BY DEF ClosedMeansClosed, AloneInv, Alone, AInv
  <2>1. Fd(t) # Server /\ TypeOK
    BY AloneServes DEF EpollInv
  <2>2. 1 \in DOMAIN batch[t] /\ batch[t][1].fd = Fd(t)
    BY <2>1, FdFacts, TailElements
  <2>3. Cause(Fd(t))
    BY <2>2 DEF AInv, CauseInv
  <2> QED
    BY <2>1, <2>3 DEF Cause
<1> QED
  BY <1>1, EpollInvariant, AloneInvariant, PTL

-----------------------------------------------------------------------------
(* What leaves a pointer in use dangling.                                  *)

(* A step of t after which no more pointers dangle, and which does not     *)
(* lead t to the use of one.                                               *)
LEMMA PointerQuiet ==
  ASSUME TypeOK, TypeOK', NEW t \in Threads, Moves(t),
         danglingClients' \subseteq danglingClients,
         pc'[t] \in Following => pc[t] \in Following \/ t \notin danglingClients'
  PROVE  PointerStaysGood
BY DEF PointerStaysGood, Moves, TypeOK

(* Nobody else is about to follow a pointer to the client that t deletes.  *)
LEMMA PointerDel ==
  ASSUME TypeOK, TypeOK', AInv, NEW t \in Threads, Del(t)
  PROVE  PointerStaysGood
<1>1. pc[t] = "Del" /\ Moves(t) /\ pc'[t] \notin Following
  BY RemovedMoves DEF Del, Following
<1>2. Fd(t) \in clients /\ client[t] = Fd(t)
  BY <1>1, AloneServes
<1>3. ASSUME NEW u \in Threads, u # t, client[u] = client[t] PROVE pc[u] \notin Following
  <2>1. SUFFICES ASSUME pc[u] \in Following PROVE FALSE
    OBVIOUS
  <2>2. pc[u] \in {"Read", "Finish", "Remove"}
    BY <2>1 DEF AInv, NoTimersInv, Following
  <2>3. pc[u] # "Wait" /\ Fd(u) = Fd(t)
    BY <1>2, <1>3, <2>2, AloneServes
  <2>4. 1 \in DOMAIN batch[u] /\ batch[u][1].fd = Fd(u)
    BY <2>3, FdFacts, TailElements
  <2> QED
    BY <1>1, <1>3, <2>3, <2>4, EventPlace DEF AInv
<1>4. danglingClients' = danglingClients \union {u \in Threads : client[u] = client[t]}
  BY DEF Del, FreeClient
<1> QED
  BY <1>1, <1>3, <1>4 DEF PointerStaysGood, Moves, TypeOK

(* An insertion that does not move the map leaves all pointers as they are.*)
LEMMA PointerAddClient ==
  ASSUME TypeOK, TypeOK', AcceptedInv, AInv, NEW t \in Threads, AddClient(t)
  PROVE  PointerStaysGood
<1>1. Moves(t) /\ pc[t] = "Add" /\ pc'[t] = "RearmServer"
  BY ListenerMoves DEF Goes
<1>2. conn[t] \notin clients /\ clients' = clients \union {conn[t]}
  BY <1>1 DEF AcceptedInv, AInv, NoTimersInv, AddClient
<1>3. CASE Cardinality(clients) \in GrowAt
  BY <1>1, <1>2, <1>3 DEF PointerStaysGood, MapMoves, Moves
<1>4. CASE Cardinality(clients) \notin GrowAt
  <2>1. danglingClients' = danglingClients
    BY <1>4 DEF AddClient
  <2> QED
    BY <1>1, <2>1, PointerQuiet DEF Following
<1> QED
  BY <1>3, <1>4

(* The steps that follow a pointer: a thread whose pointer dangles leaves  *)
(* defined behaviour there.                                                *)
LEMMA PointerFollowed ==
  ASSUME TypeOK, TypeOK', AInv, NEW t \in Threads, Read(t) \/ Finish(t) \/ RemoveFd(t)
  PROVE  PointerStaysGood
<1>1. pc[t] \in Following
  BY DEF Read, Finish, RemoveFd, Done, Go, At, Following
<1>2. CASE t \in danglingClients
  <2>1. Undefined
    BY <1>2 DEF Read, Finish, RemoveFd
  <2> QED
    BY <1>1, <1>2, <2>1 DEF Undefined, local, PointerStaysGood
<1>3. CASE t \notin danglingClients
  <2>1. undefined' = FALSE /\ danglingClients' = danglingClients
    BY <1>3 DEF Read, Finish, RemoveFd, Done, Go, local, AInv, NoTimersInv
  <2>2. Moves(t)
    BY <2>1, ClientMoves, RemoveMoves DEF Goes, Does, Undefined
  <2> QED
    BY <1>1, <2>1, <2>2, PointerQuiet
<1> QED
  BY <1>2, <1>3

LEMMA PointerStep ==
  ASSUME Alone, EpollInv, AInv, Next
  PROVE  PointerStaysGood \/ UNCHANGED vars
<1>0. TypeOK /\ TypeOK'
  BY TypeStep DEF EpollInv
<1>1. ASSUME NEW t \in Threads, Step(t) PROVE PointerStaysGood
  <2>1. CASE (\E c \in Fds : Accept(t, c)) \/ AcceptFails(t) \/ RearmServer(t) \/ GetTimer(t)
    <3>1. Moves(t) /\ pc'[t] \notin Following
      BY <1>0, <2>1, ListenerMoves, TimerMoves DEF Goes, Does, Following
    <3>2. danglingClients' = danglingClients
      BY <2>1 DEF Accept, AcceptFails, RearmServer, GetTimer
    <3> QED
      BY <1>0, <3>1, <3>2, PointerQuiet
  <2>2. CASE AddClient(t)
    BY <1>0, <2>2, PointerAddClient DEF EpollInv
  <2>3. CASE Lookup(t)
    <3>1. Moves(t) /\ pc[t] = "Lookup"
      BY <1>0, <2>3, ClientMoves DEF Goes
    <3>2. Fd(t) \in clients
      BY <1>0, <3>1, EventPlace DEF EpollInv, PlaceInv, AInv
    <3>3. danglingClients' = danglingClients \ {t}
      BY <2>3, <3>2 DEF Lookup
    <3> QED
      BY <1>0, <3>1, <3>3, PointerQuiet
  <2>4. CASE Read(t) \/ Finish(t) \/ RemoveFd(t)
    BY <1>0, <2>4, PointerFollowed
  <2>5. CASE Del(t)
    BY <1>0, <2>5, PointerDel
  <2> QED
    BY <1>1, <2>1, <2>2, <2>3, <2>4, <2>5, AloneActions
<1>2. ASSUME NEW t \in Threads, Wake(t) PROVE PointerStaysGood
  <2>1. PICK s \in ReadyBatches : Fetch(t, s)
    BY <1>2 DEF Wake
  <2>2. Moves(t) /\ pc'[t] = "Event" /\ danglingClients' = danglingClients
    BY <1>0, <2>1, FetchMoves DEF Fetch
  <2> QED
    BY <1>0, <2>2, PointerQuiet DEF Following
<1>3. CASE \E f \in Fds : Send(f) \/ HangUp(f) \/ Expire(f)
  BY <1>3 DEF Send, HangUp, Expire, maps, local, PointerStaysGood
<1> QED
  BY <1>1, <1>2, <1>3 DEF Next, Rest

(* Where there are no heartbeats and adds do not fail, a pointer that some *)
(* thread will follow comes to dangle by one thing alone: the clients' map *)
(* moves as it grows (logic.zig:243-256).  No deletion does it, and no     *)
(* memory is used after it has been freed but through such a pointer:      *)
(* Clients.get gives the mutex up, and EPOLLONESHOT protects what it       *)
(* returns from every other thread, but not from the map.                  *)
THEOREM GrowthAloneDangles ==
  ASSUME ~Heartbeats, "add" \notin Faults
  PROVE  Spec => OnlyGrowthDangles
<1>1. EpollInv /\ AloneInv /\ [Next]_vars => [PointerStaysGood]_vars
  <2> SUFFICES ASSUME EpollInv, AloneInv, Next
               PROVE  PointerStaysGood \/ UNCHANGED vars
    OBVIOUS
  <2>1. Alone /\ AInv
    BY DEF AloneInv, AInv, Alone
  <2> QED
    BY <2>1, PointerStep
<1> QED
  BY <1>1, EpollInvariant, AloneInvariant, PTL DEF Spec, OnlyGrowthDangles
=============================================================================
