---------------------------- MODULE SpeedDispatch ----------------------------
(***************************************************************************)
(* The speed daemon's ticket dispatch: zig/src/6-speed-daemon, the worker  *)
(* threads of main.zig and the TicketsQueue, Roads and Dispatcher types of *)
(* logic.zig.                                                              *)
(*                                                                         *)
(* Worker threads serve clients.  A camera's plate may append tickets to   *)
(* the shared queue; a client that identifies as a dispatcher enters its   *)
(* file descriptor in the set of every road it names.  Both then walk the  *)
(* queue and send every ticket whose road has a dispatcher.  Three mutexes *)
(* are involved (cars, tickets, roads), and two shared values are read     *)
(* without one: the queue's length before the walk, and a road's set of    *)
(* dispatchers during it.                                                  *)
(*                                                                         *)
(* Clients are named by their file descriptor, which the kernel gives to a *)
(* later connection once it is closed.  That one client is served by at    *)
(* most one thread at a time is what EPOLLONESHOT is there for, and what   *)
(* SpeedEpoll checks of clients that ask for no heartbeats; here it is the *)
(* guard Ready.                                                            *)
(***************************************************************************)
EXTENDS Naturals, Sequences, FiniteSets, SequencesExt

CONSTANTS
  Threads,     (* worker threads: one per CPU, main.zig:104-114             *)
  Fds,         (* file descriptors accept() may return                      *)
  Roads,       (* road numbers                                              *)
  None,        (* no thread, no file descriptor                             *)
  MaxTickets,  (* bound: tickets issued in one behaviour                    *)
  MaxAccepts   (* bound: connections accepted in one behaviour              *)

ASSUME DispatchAssumption ==
  /\ None \notin Threads
  /\ None \notin Fds
  /\ MaxTickets \in Nat
  /\ MaxAccepts \in Nat

VARIABLES
  pc,            (* where each thread is                                    *)
  fd,            (* thr_ctx.fd: the client a thread is serving              *)
  type,          (* ClientType of each open file descriptor, or "Closed"    *)
  roads,         (* the road of a camera, the roads of a dispatcher         *)
  hungup,        (* descriptors whose peer has gone away                    *)
  dispatchers,   (* Road.dispatchers of each road                           *)
  queue,         (* TicketsQueue.queue                                      *)
  ticketsMutex,  (* owner of TicketsQueue.mutex                             *)
  roadsMutex,    (* owner of Roads.mutex                                    *)
  carsMutex,     (* owner of Cars.mutex                                     *)
  ntickets,      (* tickets a thread's addObservation call has appended     *)
  todo,          (* roads a registration or removal has still to visit      *)
  rounds,        (* rounds left of the outer loop of dispatchTicketsQueue   *)
  pos,           (* place in the queue the walk is at                       *)
  disp,          (* the dispatcher the walk has picked                      *)
  issued,        (* history: tickets issued so far                          *)
  copies,        (* history: times each ticket has been written to a socket *)
  failed,        (* history: some ticket's send has failed                  *)
  accepts,       (* connections accepted so far                             *)
  panicked       (* the process was aborted by a safety check               *)

clientVars   == <<type, roads, hungup, accepts>>
mutexes      == <<ticketsMutex, roadsMutex, carsMutex>>
walk         == <<rounds, pos, disp>>
history      == <<issued, copies, failed>>
vars == <<pc, fd, clientVars, dispatchers, queue, mutexes, ntickets, todo,
          walk, history, panicked>>

Labels == {"Wait", "LockCars", "Append", "AddLock", "Adding", "CheckLen",
           "LockQueue", "GetRoad", "Available", "Pick", "Send", "Remove",
           "Unlock", "RemoveFd", "RemoveLock", "Removing", "Del"}

(* A ticket is identified by the order it was issued in: two tickets with  *)
(* the same content are still two nodes of the queue.                      *)
Ticket == [id : 1..MaxTickets, road : Roads]

Init ==
  /\ pc = [t \in Threads |-> "Wait"]
  /\ fd = [t \in Threads |-> None]
  /\ type = [c \in Fds |-> "Closed"]
  /\ roads = [c \in Fds |-> {}]
  /\ hungup = {}
  /\ accepts = 0
  /\ dispatchers = [r \in Roads |-> {}]
  /\ queue = <<>>
  /\ ticketsMutex = None /\ roadsMutex = None /\ carsMutex = None
  /\ ntickets = [t \in Threads |-> 0]
  /\ todo = [t \in Threads |-> {}]
  /\ rounds = [t \in Threads |-> 0]
  /\ pos = [t \in Threads |-> 0]
  /\ disp = [t \in Threads |-> None]
  /\ issued = 0
  /\ copies = [n \in 1..MaxTickets |-> 0]
  /\ failed = FALSE
  /\ panicked = FALSE

(* Thread t is at label l of a process that has not been aborted.          *)
At(t, l) == ~panicked /\ pc[t] = l

Go(t, from, to) ==
  /\ At(t, from)
  /\ pc' = [pc EXCEPT ![t] = to]

(* The event loop may hand client c to a thread: its descriptor is open    *)
(* and, being armed ONESHOT, no other thread has it.                       *)
Ready(c) == type[c] # "Closed" /\ \A u \in Threads : fd[u] # c

-----------------------------------------------------------------------------
(* The event loop: which client a thread turns to, and for what.           *)

Accept(t, c) ==
  /\ At(t, "Wait")
  /\ type[c] = "Closed"
  /\ accepts < MaxAccepts
  /\ accepts' = accepts + 1
  /\ type' = [type EXCEPT ![c] = "Unidentified"]
  /\ UNCHANGED <<pc, fd, roads, hungup, dispatchers, queue, mutexes, ntickets,
                 todo, walk, history, panicked>>

IAmCamera(t, c, r) ==
  /\ At(t, "Wait")
  /\ Ready(c) /\ type[c] = "Unidentified"
  /\ type' = [type EXCEPT ![c] = "Camera"]
  /\ roads' = [roads EXCEPT ![c] = {r}]
  /\ UNCHANGED <<pc, fd, hungup, accepts, dispatchers, queue, mutexes,
                 ntickets, todo, walk, history, panicked>>

IAmDispatcher(t, c, rs) ==
  /\ Go(t, "Wait", "AddLock")
  /\ Ready(c) /\ type[c] = "Unidentified"
  /\ fd' = [fd EXCEPT ![t] = c]
  /\ type' = [type EXCEPT ![c] = "Dispatcher"]
  /\ roads' = [roads EXCEPT ![c] = rs]
  /\ UNCHANGED <<hungup, accepts, dispatchers, queue, mutexes, ntickets, todo,
                 walk, history, panicked>>

Plate(t, c) ==
  /\ Go(t, "Wait", "LockCars")
  /\ Ready(c) /\ type[c] = "Camera"
  /\ fd' = [fd EXCEPT ![t] = c]
  /\ UNCHANGED <<clientVars, dispatchers, queue, mutexes, ntickets, todo, walk,
                 history, panicked>>

(* The client hung up, sent something illegal, or its read failed.         *)
Drop(t, c) ==
  /\ Go(t, "Wait", "RemoveFd")
  /\ Ready(c)
  /\ fd' = [fd EXCEPT ![t] = c]
  /\ UNCHANGED <<clientVars, dispatchers, queue, mutexes, ntickets, todo, walk,
                 history, panicked>>

(* The peer of c goes away: from here on a write to c may fail, and may    *)
(* also still be accepted by the kernel and come to nothing.               *)
HangUp(c) ==
  /\ ~panicked
  /\ type[c] # "Closed" /\ c \notin hungup
  /\ hungup' = hungup \union {c}
  /\ UNCHANGED <<pc, fd, type, roads, accepts, dispatchers, queue, mutexes,
                 ntickets, todo, walk, history, panicked>>

-----------------------------------------------------------------------------
(* A plate: cars.mutex is held over addObservation, which appends its      *)
(* tickets one by one, and released before they are dispatched.            *)

LockCars(t) ==
  /\ Go(t, "LockCars", "Append")
  /\ carsMutex = None
  /\ carsMutex' = t
  /\ ntickets' = [ntickets EXCEPT ![t] = 0]
  /\ UNCHANGED <<fd, clientVars, dispatchers, queue, ticketsMutex, roadsMutex,
                 todo, walk, history, panicked>>

AppendTicket(t) ==
  /\ At(t, "Append")
  /\ ticketsMutex = None
  /\ issued < MaxTickets
  /\ \E r \in roads[fd[t]] :
       queue' = Append(queue, [id |-> issued + 1, road |-> r])
  /\ issued' = issued + 1
  /\ ntickets' = [ntickets EXCEPT ![t] = @ + 1]
  /\ UNCHANGED <<pc, fd, clientVars, dispatchers, mutexes, todo, walk, copies,
                 failed, panicked>>

UnlockCars(t) ==
  /\ Go(t, "Append", IF ntickets[t] > 0 THEN "CheckLen" ELSE "Wait")
  /\ carsMutex' = None
  /\ fd' = [fd EXCEPT ![t] = IF ntickets[t] > 0 THEN @ ELSE None]
  /\ UNCHANGED <<clientVars, dispatchers, queue, ticketsMutex, roadsMutex,
                 ntickets, todo, walk, history, panicked>>

-----------------------------------------------------------------------------
(* Roads.addDispatcher: one road after the other, under roads.mutex.       *)

LockRoadsToAdd(t) ==
  /\ Go(t, "AddLock", "Adding")
  /\ roadsMutex = None
  /\ roadsMutex' = t
  /\ todo' = [todo EXCEPT ![t] = roads[fd[t]]]
  /\ UNCHANGED <<fd, clientVars, dispatchers, queue, ticketsMutex, carsMutex,
                 ntickets, walk, history, panicked>>

AddToRoad(t, r) ==
  /\ At(t, "Adding")
  /\ r \in todo[t]
  /\ dispatchers' = [dispatchers EXCEPT ![r] = @ \union {fd[t]}]
  /\ todo' = [todo EXCEPT ![t] = @ \ {r}]
  /\ UNCHANGED <<pc, fd, clientVars, queue, mutexes, ntickets, walk, history,
                 panicked>>

(* Mutant: a new dispatcher is not offered the pending tickets.            *)
UnlockRoadsOnly(t) ==
  /\ Go(t, "Adding", "Wait")
  /\ todo[t] = {}
  /\ roadsMutex' = None
  /\ fd' = [fd EXCEPT ![t] = None]
  /\ UNCHANGED <<clientVars, dispatchers, queue, ticketsMutex, carsMutex,
                 ntickets, todo, walk, history, panicked>>

UnlockRoadsAdded(t) ==
  /\ Go(t, "Adding", "CheckLen")
  /\ todo[t] = {}
  /\ roadsMutex' = None
  /\ UNCHANGED <<fd, clientVars, dispatchers, queue, ticketsMutex, carsMutex,
                 ntickets, todo, walk, history, panicked>>

-----------------------------------------------------------------------------
(* TicketsQueue.dispatchTicketsQueue.                                      *)

(* The length is read without the mutex.                                   *)
CheckLen(t) ==
  /\ Go(t, "CheckLen", IF queue = <<>> THEN "Wait" ELSE "LockQueue")
  /\ fd' = [fd EXCEPT ![t] = IF queue = <<>> THEN None ELSE @]
  /\ UNCHANGED <<clientVars, dispatchers, queue, mutexes, ntickets, todo, walk,
                 history, panicked>>

LockQueue(t) ==
  /\ Go(t, "LockQueue", IF queue = <<>> THEN "Unlock" ELSE "GetRoad")
  /\ ticketsMutex = None
  /\ ticketsMutex' = t
  /\ rounds' = [rounds EXCEPT ![t] = Len(queue)]
  /\ pos' = [pos EXCEPT ![t] = 1]
  /\ UNCHANGED <<fd, clientVars, dispatchers, queue, roadsMutex, carsMutex,
                 ntickets, todo, disp, history, panicked>>

(* roads.get takes roads.mutex for the lookup only.  At the end of the     *)
(* queue no ticket was found to delete, and the outer loop is left.        *)
GetRoad(t) ==
  /\ Go(t, "GetRoad", IF pos[t] > Len(queue) THEN "Unlock" ELSE "Available")
  /\ pos[t] <= Len(queue) => roadsMutex = None
  /\ UNCHANGED <<fd, clientVars, dispatchers, queue, mutexes, ntickets, todo,
                 walk, history, panicked>>

(* Mutant: a ticket nobody can take ends the walk.                         *)
AvailableOrStop(t) ==
  LET none == dispatchers[queue[pos[t]].road] = {}
  IN  /\ Go(t, "Available", IF none THEN "Unlock" ELSE "Pick")
      /\ UNCHANGED <<fd, clientVars, dispatchers, queue, mutexes, ntickets,
                     todo, walk, history, panicked>>

(* Mutant: the walk does not move on from such a ticket.                   *)
AvailableStuck(t) ==
  LET none == dispatchers[queue[pos[t]].road] = {}
  IN  /\ Go(t, "Available", IF none THEN "GetRoad" ELSE "Pick")
      /\ UNCHANGED <<fd, clientVars, dispatchers, queue, mutexes, ntickets,
                     todo, walk, history, panicked>>

(* dispatchers.cardinality(), read without roads.mutex.                    *)
Available(t) ==
  LET none == dispatchers[queue[pos[t]].road] = {}
  IN  /\ Go(t, "Available", IF none THEN "GetRoad" ELSE "Pick")
      /\ pos' = [pos EXCEPT ![t] = IF none THEN @ + 1 ELSE @]
      /\ UNCHANGED <<fd, clientVars, dispatchers, queue, mutexes, ntickets,
                     todo, rounds, disp, history, panicked>>

(* Mutant: any connected dispatcher is taken.                              *)
PickAny(t) ==
  /\ Go(t, "Pick", "Send")
  /\ \E d \in Fds : type[d] = "Dispatcher" /\ disp' = [disp EXCEPT ![t] = d]
  /\ UNCHANGED <<fd, clientVars, dispatchers, queue, mutexes, ntickets, todo,
                 rounds, pos, history, panicked>>

(* dispatchers.iterator().next().?, also without roads.mutex: whichever    *)
(* member the hash set yields first.                                       *)
Pick(t) ==
  /\ Go(t, "Pick", "Send")
  /\ \E d \in dispatchers[queue[pos[t]].road] : disp' = [disp EXCEPT ![t] = d]
  /\ UNCHANGED <<fd, clientVars, dispatchers, queue, mutexes, ntickets, todo,
                 rounds, pos, history, panicked>>

(* The set was emptied since Available: unwrapping null aborts the process.*)
PickNothing(t) ==
  /\ At(t, "Pick")
  /\ dispatchers[queue[pos[t]].road] = {}
  /\ panicked' = TRUE
  /\ UNCHANGED <<pc, fd, clientVars, dispatchers, queue, mutexes, ntickets,
                 todo, walk, history>>

(* The ticket is written to the descriptor, whoever has it by now.         *)
SendTicket(t) ==
  /\ Go(t, "Send", "Remove")
  /\ type[disp[t]] # "Closed"
  /\ copies' = [copies EXCEPT ![queue[pos[t]].id] = @ + 1]
  /\ UNCHANGED <<fd, clientVars, dispatchers, queue, mutexes, ntickets, todo,
                 walk, issued, failed, panicked>>

(* The write fails: the error leaves dispatchTicketsQueue, unlocking the   *)
(* queue, and handleMessages, and removes the client being served.         *)
SendFails(t) ==
  /\ Go(t, "Send", "RemoveFd")
  /\ type[disp[t]] = "Closed" \/ disp[t] \in hungup
  /\ ticketsMutex' = None
  /\ failed' = TRUE
  /\ rounds' = [rounds EXCEPT ![t] = 0]
  /\ pos' = [pos EXCEPT ![t] = 0]
  /\ disp' = [disp EXCEPT ![t] = None]
  /\ UNCHANGED <<fd, clientVars, dispatchers, queue, roadsMutex, carsMutex,
                 ntickets, todo, issued, copies, panicked>>

(* Mutant: the first node goes instead of the one that was sent.           *)
RemoveFrontTicket(t) ==
  /\ Go(t, "Remove", IF rounds[t] = 1 THEN "Unlock" ELSE "GetRoad")
  /\ queue' = Tail(queue)
  /\ rounds' = [rounds EXCEPT ![t] = @ - 1]
  /\ pos' = [pos EXCEPT ![t] = 1]
  /\ disp' = [disp EXCEPT ![t] = None]
  /\ UNCHANGED <<fd, clientVars, dispatchers, mutexes, ntickets, todo, history,
                 panicked>>

(* The sent ticket's node is unlinked; the next round starts at the front. *)
RemoveTicket(t) ==
  /\ Go(t, "Remove", IF rounds[t] = 1 THEN "Unlock" ELSE "GetRoad")
  /\ queue' = RemoveAt(queue, pos[t])
  /\ rounds' = [rounds EXCEPT ![t] = @ - 1]
  /\ pos' = [pos EXCEPT ![t] = 1]
  /\ disp' = [disp EXCEPT ![t] = None]
  /\ UNCHANGED <<fd, clientVars, dispatchers, mutexes, ntickets, todo, history,
                 panicked>>

UnlockQueue(t) ==
  /\ Go(t, "Unlock", "Wait")
  /\ ticketsMutex' = None
  /\ fd' = [fd EXCEPT ![t] = None]
  /\ rounds' = [rounds EXCEPT ![t] = 0]
  /\ pos' = [pos EXCEPT ![t] = 0]
  /\ UNCHANGED <<clientVars, dispatchers, queue, roadsMutex, carsMutex,
                 ntickets, todo, disp, history, panicked>>

-----------------------------------------------------------------------------
(* removeFd: a dispatcher leaves its roads' sets, then the client is       *)
(* deleted and its descriptor closed.                                      *)

RemoveFd(t) ==
  /\ Go(t, "RemoveFd",
        IF type[fd[t]] = "Dispatcher" THEN "RemoveLock" ELSE "Del")
  /\ UNCHANGED <<fd, clientVars, dispatchers, queue, mutexes, ntickets, todo,
                 walk, history, panicked>>

LockRoadsToRemove(t) ==
  /\ Go(t, "RemoveLock", "Removing")
  /\ roadsMutex = None
  /\ roadsMutex' = t
  /\ todo' = [todo EXCEPT ![t] = roads[fd[t]]]
  /\ UNCHANGED <<fd, clientVars, dispatchers, queue, ticketsMutex, carsMutex,
                 ntickets, walk, history, panicked>>

RemoveFromRoad(t, r) ==
  /\ At(t, "Removing")
  /\ r \in todo[t]
  /\ dispatchers' = [dispatchers EXCEPT ![r] = @ \ {fd[t]}]
  /\ todo' = [todo EXCEPT ![t] = @ \ {r}]
  /\ UNCHANGED <<pc, fd, clientVars, queue, mutexes, ntickets, walk, history,
                 panicked>>

(* Mutant: the loop over the dispatcher's roads is left early.             *)
UnlockRoadsEarly(t) ==
  /\ Go(t, "Removing", "Del")
  /\ roadsMutex' = None
  /\ UNCHANGED <<fd, clientVars, dispatchers, queue, ticketsMutex, carsMutex,
                 ntickets, todo, walk, history, panicked>>

UnlockRoadsRemoved(t) ==
  /\ Go(t, "Removing", "Del")
  /\ todo[t] = {}
  /\ roadsMutex' = None
  /\ UNCHANGED <<fd, clientVars, dispatchers, queue, ticketsMutex, carsMutex,
                 ntickets, todo, walk, history, panicked>>

DelClient(t) ==
  /\ Go(t, "Del", "Wait")
  /\ type' = [type EXCEPT ![fd[t]] = "Closed"]
  /\ roads' = [roads EXCEPT ![fd[t]] = {}]
  /\ hungup' = hungup \ {fd[t]}
  /\ fd' = [fd EXCEPT ![t] = None]
  /\ UNCHANGED <<accepts, dispatchers, queue, mutexes, ntickets, todo, walk,
                 history, panicked>>

-----------------------------------------------------------------------------
(* A thread turns to a client.                                             *)
Event(t) ==
  \E c \in Fds :
     \/ Accept(t, c)
     \/ \E r \in Roads : IAmCamera(t, c, r)
     \/ \E rs \in SUBSET Roads : IAmDispatcher(t, c, rs)
     \/ Plate(t, c)
     \/ Drop(t, c)

(* A thread goes on with the client it is serving.                         *)
Step(t) ==
  \/ LockCars(t) \/ AppendTicket(t) \/ UnlockCars(t)
  \/ LockRoadsToAdd(t) \/ UnlockRoadsAdded(t)
  \/ LockRoadsToRemove(t) \/ UnlockRoadsRemoved(t)
  \/ \E r \in Roads : AddToRoad(t, r) \/ RemoveFromRoad(t, r)
  \/ CheckLen(t) \/ LockQueue(t) \/ GetRoad(t) \/ Available(t)
  \/ Pick(t) \/ PickNothing(t) \/ SendTicket(t) \/ SendFails(t)
  \/ RemoveTicket(t) \/ UnlockQueue(t)
  \/ RemoveFd(t) \/ DelClient(t)

(* All threads block in epoll_wait, or the process is gone.                *)
Quiet == panicked \/ \A t \in Threads : pc[t] = "Wait"

Rest == Quiet /\ UNCHANGED vars

Next ==
  \/ \E t \in Threads : Event(t) \/ Step(t)
  \/ \E c \in Fds : HangUp(c)
  \/ Rest

(* The operating system keeps scheduling every thread.  Nothing obliges a  *)
(* client to say anything.                                                 *)
Fairness == \A t \in Threads : WF_vars(Step(t))

Spec == Init /\ [][Next]_vars
FairSpec == Spec /\ Fairness

-----------------------------------------------------------------------------
(* Invariants.                                                             *)

(* Every variable holds a value of its type.                               *)
TypeOK ==
  /\ pc \in [Threads -> Labels]
  /\ fd \in [Threads -> Fds \union {None}]
  /\ type \in [Fds -> {"Closed", "Unidentified", "Camera", "Dispatcher"}]
  /\ roads \in [Fds -> SUBSET Roads]
  /\ hungup \in SUBSET Fds
  /\ dispatchers \in [Roads -> SUBSET Fds]
  /\ queue \in Seq(Ticket)
  /\ ticketsMutex \in Threads \union {None}
  /\ roadsMutex \in Threads \union {None}
  /\ carsMutex \in Threads \union {None}
  /\ ntickets \in [Threads -> Nat]
  /\ todo \in [Threads -> SUBSET Roads]
  /\ rounds \in [Threads -> Nat]
  /\ pos \in [Threads -> Nat]
  /\ disp \in [Threads -> Fds \union {None}]
  /\ issued \in 0..MaxTickets
  /\ copies \in [1..MaxTickets -> Nat]
  /\ failed \in BOOLEAN
  /\ accepts \in Nat
  /\ panicked \in BOOLEAN

Queued(n) == \E i \in DOMAIN queue : queue[i].id = n

(* However the threads interleave, and whichever sends fail, no ticket is  *)
(* written to a socket twice, and one that has not been written is still   *)
(* in the queue: the walk, the send and the removal of the node are three  *)
(* steps that only tickets.mutex keeps together (logic.zig:65-105).        *)
SentOnceOrQueued ==
  \A n \in 1..issued : copies[n] <= 1 /\ (copies[n] = 0 => Queued(n))

(* A descriptor is in a road's set only while the dispatcher that put it   *)
(* there is connected: removeFd takes it out of every set before the       *)
(* descriptor can be closed and handed to another client (main.zig:129).   *)
NoStaleDispatcher ==
  \A r \in Roads : \A c \in dispatchers[r] :
     type[c] = "Dispatcher" /\ r \in roads[c]

(* Unless a send has failed, a ticket does not lie in the queue while a    *)
(* dispatcher for its road is connected and every thread is waiting: the   *)
(* unlocked length test (logic.zig:66) cannot make both the thread that    *)
(* appends and the thread that registers miss the ticket.                  *)
NoStrandedTicket ==
  ~failed /\ ~panicked /\ (\A t \in Threads : pc[t] = "Wait") =>
     \A i \in DOMAIN queue : dispatchers[queue[i].road] = {}

(* What logic.zig:81-85 says ("is there a dispatcher available for this    *)
(* road?", "If there is, send the ticket out"): a walk that has found a    *)
(* dispatcher available goes on to send, so the process never aborts.      *)
AvailableMeansSent == ~panicked

-----------------------------------------------------------------------------
(* The inductive invariant of the proofs in SpeedDispatchProofs.           *)

Scanning == {"GetRoad", "Available", "Pick", "Send", "Remove"}

(* The queue's mutex is held exactly during a walk, and the walk's place,  *)
(* rounds and client stay meaningful because nobody else changes the queue.*)
WalkInv ==
  \A t \in Threads :
     /\ ticketsMutex = t <=> pc[t] \in Scanning \union {"Unlock"}
     /\ pc[t] # "Wait" => fd[t] \in Fds
     /\ pc[t] \in Scanning => pos[t] \in Nat \ {0} /\ rounds[t] = Len(queue)
     /\ pc[t] \in Scanning \ {"GetRoad"} => pos[t] <= Len(queue)

(* The queue keeps the order of issue, so it holds no ticket twice.        *)
QueueInv ==
  /\ \A i \in DOMAIN queue : queue[i].id <= issued
  /\ \A i, j \in DOMAIN queue : i < j => queue[i].id < queue[j].id

(* A ticket has been written once it has left the queue, or is about to.   *)
CopiesInv ==
  /\ \A n \in 1..MaxTickets : n > issued => copies[n] = 0
  /\ \A i \in DOMAIN queue :
       copies[queue[i].id] =
         IF \E t \in Threads : pc[t] = "Remove" /\ pos[t] = i THEN 1 ELSE 0
  /\ SentOnceOrQueued

(* The client a thread is serving has its descriptor open, and the roads   *)
(* it is not yet taken off are those the removal has yet to see.           *)
Serving(t) ==
  /\ fd[t] \in Fds => type[fd[t]] # "Closed"
  /\ pc[t] = "Wait" => fd[t] = None
  /\ pc[t] \in {"AddLock", "Adding", "RemoveLock", "Removing"} =>
       type[fd[t]] = "Dispatcher"
  /\ pc[t] \in {"Adding", "Removing"} => todo[t] \subseteq roads[fd[t]]
  /\ pc[t] = "Removing" =>
       \A r \in Roads : fd[t] \in dispatchers[r] => r \in todo[t]
  /\ pc[t] = "Del" => \A r \in Roads : fd[t] \notin dispatchers[r]

(* A client is served by one thread at a time.                             *)
ClientInv ==
  /\ \A t, u \in Threads : fd[t] = fd[u] /\ fd[t] # None => t = u
  /\ \A t \in Threads : Serving(t)
  /\ NoStaleDispatcher

(* Thread t has still to look at place i of the queue: it has yet to walk, *)
(* its walk has not come to i, or starts again once a ticket is sent.      *)
WillSee(t, i) ==
  \/ pc[t] = "Append" /\ ntickets[t] > 0
  \/ pc[t] \in {"Adding", "CheckLen", "LockQueue", "Pick", "Send", "Remove"}
  \/ pc[t] \in {"GetRoad", "Available"} /\ pos[t] <= i

(* NoStrandedTicket, while threads are at work.                            *)
LookInv ==
  ~failed /\ ~panicked =>
    \A i \in DOMAIN queue :
      dispatchers[queue[i].road] # {} => \E t \in Threads : WillSee(t, i)

(* The conjunction that every step preserves.                              *)
DispatchInv ==
  TypeOK /\ WalkInv /\ QueueInv /\ CopiesInv /\ ClientInv /\ LookInv

-----------------------------------------------------------------------------
(* Liveness, under Fairness.                                               *)

(* Once the clients say nothing more, every thread gets back to            *)
(* epoll_wait: no path leaves a mutex locked, a failing send included, and *)
(* the three mutexes are never waited for in a cycle.  (While clients go   *)
(* on, a thread can be overtaken at a mutex for ever: they are not fair.)  *)
ThreadsReturn ==
  <>[][\A t \in Threads : ~Event(t)]_vars => <>[]Quiet

(* A queued ticket whose road has a dispatcher is written to some socket,  *)
(* unless the road loses its dispatchers or a send fails first.            *)
PendingTicketIsSent ==
  \A n \in 1..MaxTickets : \A r \in Roads :
     (/\ \E i \in DOMAIN queue : queue[i] = [id |-> n, road |-> r]
      /\ dispatchers[r] # {})
     ~> (copies[n] = 1 \/ dispatchers[r] = {} \/ failed \/ panicked)

-----------------------------------------------------------------------------
(* The abstract ticket service this implements: a ticket is pending until  *)
(* it has been delivered, and is assigned to one dispatcher at a time.     *)
Service == INSTANCE TicketService WITH
  pending  <- {queue[i] : i \in {j \in DOMAIN queue : copies[queue[j].id] = 0}},
  watching <- dispatchers,
  assigned <- {<<queue[pos[t]], disp[t]>> : t \in {u \in Threads : pc[u] = "Send"}}

(* Every behaviour of the threads is a behaviour of the ticket service.    *)
ImplementsService == Service!Spec
=============================================================================
