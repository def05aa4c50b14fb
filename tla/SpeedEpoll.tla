------------------------------ MODULE SpeedEpoll ------------------------------
(***************************************************************************)
(* The speed daemon's event loop: handle_events and removeFd of            *)
(* zig/src/6-speed-daemon/main.zig with the EpollManager, Clients, Client, *)
(* Timers and Timer types of logic.zig.                                    *)
(*                                                                         *)
(* Every worker thread waits on one epoll instance in which each           *)
(* descriptor (the listener, connections, heartbeat timers) is armed for   *)
(* one event at a time and armed again once that event has been handled.   *)
(* A thread fetches a batch of events and handles them in turn, holding a  *)
(* pointer into the clients' hash map while it does.  A connection's       *)
(* heartbeat timer is a descriptor of its own, so that one thread can be   *)
(* handling a client's message while another handles its timer.            *)
(*                                                                         *)
(* A use of freed memory ends the behaviour: undefined becomes TRUE, and   *)
(* nothing is claimed of what comes after.                                 *)
(***************************************************************************)
EXTENDS Naturals, Sequences, FiniteSets, SequencesExt

CONSTANTS
  Threads,     (* worker threads: one per CPU, main.zig:104-114             *)
  Fds,         (* descriptors that connections and timers may be given      *)
  Server,      (* the listener's descriptor                                 *)
  None,        (* no descriptor                                             *)
  BatchSize,   (* events epoll_wait may return at once: 256 / CPUs          *)
  Heartbeats,  (* whether clients send WantHeartbeat                        *)
  GrowAt,      (* sizes at which the clients' map is full and reallocates   *)
  Faults,      (* the calls that may fail: "accept", "add"                  *)
  MaxAccepts   (* bound: connections accepted in one behaviour              *)

ASSUME EpollAssumption ==
  /\ Server \notin Fds /\ None \notin Fds \union {Server}
  /\ BatchSize \in Nat \ {0}
  /\ Heartbeats \in BOOLEAN
  /\ GrowAt \subseteq Nat
  /\ Faults \subseteq {"accept", "add"}
  /\ MaxAccepts \in Nat

VARIABLES
  file,         (* what the kernel has open under each descriptor           *)
  interest,     (* the epoll instance: is a descriptor in it, is it armed   *)
  readable,     (* data has arrived, or the timer has expired, since a read *)
  hungup,       (* connections whose peer has gone away                     *)
  accepts,      (* connections accepted so far                              *)
  clients,      (* the descriptors that are keys of Clients.map             *)
  timerOf,      (* Client.timer of each                                     *)
  timers,       (* Timers.map: the client each timer descriptor is for      *)
  wrecks,       (* clients whose deinit failed: freed inside, still in map  *)
  pc,           (* where each thread is                                     *)
  batch,        (* the events a thread has fetched and not finished         *)
  conn,         (* the connection a thread has just accepted                *)
  client,       (* thr_ctx.client: the client a thread's pointer is to      *)
  danglingClients,  (* threads whose client pointer is to freed memory      *)
  danglingTimers,   (* threads whose Timer pointer is                       *)
  undefined     (* such a pointer has been followed                         *)

kernel == <<file, interest, readable, hungup, accepts>>
maps   == <<clients, timerOf, timers, wrecks>>
local  == <<batch, conn, client, danglingClients, danglingTimers>>
vars   == <<kernel, maps, pc, local, undefined>>

Labels == {"Wait", "Event", "Add", "RearmServer", "Timer", "Beat",
           "RearmTimer", "Lookup", "Forget", "Read", "AddTimer",
           "RegisterTimer", "Finish", "Remove", "Del"}

Init ==
  /\ file = [f \in Fds |-> "Free"]
  /\ interest = [f \in Fds \union {Server} |->
                   IF f = Server THEN "Armed" ELSE "None"]
  /\ readable = {} /\ hungup = {} /\ accepts = 0
  /\ clients = {}
  /\ timerOf = [f \in Fds |-> None]
  /\ timers = [f \in Fds |-> None]
  /\ wrecks = {}
  /\ pc = [t \in Threads |-> "Wait"]
  /\ batch = [t \in Threads |-> <<>>]
  /\ conn = [t \in Threads |-> None]
  /\ client = [t \in Threads |-> None]
  /\ danglingClients = {} /\ danglingTimers = {}
  /\ undefined = FALSE

At(t, l) == ~undefined /\ pc[t] = l

Go(t, from, to) ==
  /\ At(t, from)
  /\ pc' = [pc EXCEPT ![t] = to]
  /\ undefined' = FALSE

(* The descriptor of the event thread t is handling.                       *)
Fd(t) == Head(batch[t]).fd

(* Mutant: the loop over the batch is left with the event.                 *)
DoneBreak(t, from) ==
  /\ Go(t, from, "Wait")
  /\ batch' = [batch EXCEPT ![t] = Tail(@)]

(* The event has been handled: on to the next, or back to epoll_wait.      *)
Done(t, from) ==
  /\ Go(t, from, IF Len(batch[t]) = 1 THEN "Wait" ELSE "Event")
  /\ batch' = [batch EXCEPT ![t] = Tail(@)]

(* Thread t follows a pointer to freed memory.                             *)
Undefined == undefined' = TRUE /\ UNCHANGED <<kernel, maps, pc, local>>

-----------------------------------------------------------------------------
(* What the peers and the clock do.                                        *)

Send(c) ==
  /\ ~undefined
  /\ file[c] = "Conn" /\ c \notin hungup /\ c \notin readable
  /\ readable' = readable \union {c}
  /\ UNCHANGED <<file, interest, hungup, accepts, maps, pc, local, undefined>>

HangUp(c) ==
  /\ ~undefined
  /\ file[c] = "Conn" /\ c \notin hungup
  /\ hungup' = hungup \union {c}
  /\ UNCHANGED <<file, interest, readable, accepts, maps, pc, local, undefined>>

Expire(f) ==
  /\ ~undefined
  /\ file[f] = "Timer" /\ f \notin readable
  /\ readable' = readable \union {f}
  /\ UNCHANGED <<file, interest, hungup, accepts, maps, pc, local, undefined>>

-----------------------------------------------------------------------------
(* Peers connect up to the bound; and, unless accept is to fail, only while *)
(* there are descriptors for them.                                         *)
PeerConnects ==
  /\ accepts < MaxAccepts
  /\ "accept" \in Faults \/ \E f \in Fds : file[f] = "Free"

Ready(f) ==
  /\ interest[f] = "Armed"
  /\ IF f = Server THEN PeerConnects ELSE f \in readable \union hungup

Batches(S) ==
  {s \in UNION {[1..n -> S] : n \in 1..BatchSize} : IsInjective(s)}

(* Mutant: descriptors are not registered ONESHOT.                         *)
FetchKeep(t, s) ==
  /\ Go(t, "Wait", "Event")
  /\ batch' = [batch EXCEPT ![t] =
       [i \in DOMAIN s |-> [fd |-> s[i], rdhup |-> s[i] \in hungup]]]
  /\ UNCHANGED <<kernel, maps, conn, client, danglingClients, danglingTimers>>

(* epoll_wait returns the ready descriptors s, and disarms them.           *)
Fetch(t, s) ==
  /\ Go(t, "Wait", "Event")
  /\ batch' = [batch EXCEPT ![t] =
       [i \in DOMAIN s |-> [fd |-> s[i], rdhup |-> s[i] \in hungup]]]
  /\ interest' = [f \in DOMAIN interest |->
       IF \E i \in DOMAIN s : s[i] = f THEN "Disarmed" ELSE interest[f]]
  /\ UNCHANGED <<file, readable, hungup, accepts, maps, conn, client,
                 danglingClients, danglingTimers>>

-----------------------------------------------------------------------------
(* The listener.                                                           *)

Accept(t, c) ==
  /\ Go(t, "Event", "Add")
  /\ Fd(t) = Server
  /\ file[c] = "Free" /\ accepts < MaxAccepts
  /\ file' = [file EXCEPT ![c] = "Conn"]
  /\ accepts' = accepts + 1
  /\ conn' = [conn EXCEPT ![t] = c]
  /\ UNCHANGED <<interest, readable, hungup, maps, batch, client,
                 danglingClients, danglingTimers>>

(* For want of a descriptor, if for nothing else.  The listener is not     *)
(* armed again.                                                            *)
AcceptFails(t) ==
  /\ Done(t, "Event")
  /\ Fd(t) = Server
  /\ "accept" \in Faults \/ \A f \in Fds : file[f] # "Free"
  /\ UNCHANGED <<kernel, maps, conn, client, danglingClients, danglingTimers>>

(* Clients.add, under its mutex: epoll first, then the map, which may have *)
(* to move to new memory and leaves every pointer into it dangling.        *)
AddClient(t) ==
  LET c == conn[t]
      grows == c \notin clients /\ Cardinality(clients) \in GrowAt
  IN  /\ Go(t, "Add", "RearmServer")
      /\ interest' = [interest EXCEPT ![c] = "Armed"]
      /\ clients' = clients \union {c}
      /\ timerOf' = [timerOf EXCEPT ![c] = None]
      /\ wrecks' = wrecks \ {c}
      /\ danglingClients' = danglingClients \union
           IF grows THEN {u \in Threads : client[u] # None} ELSE {}
      /\ conn' = [conn EXCEPT ![t] = None]
      /\ UNCHANGED <<file, readable, hungup, accepts, timers, batch, client,
                     danglingTimers>>

(* The connection stays open without a client, and removeFd is called for  *)
(* the client of an earlier event: thr_ctx still holds it, or nothing yet. *)
AddFails(t) ==
  /\ At(t, "Add") /\ "add" \in Faults
  /\ IF client[t] = None THEN Undefined
     ELSE /\ Go(t, "Add", "Remove")
          /\ conn' = [conn EXCEPT ![t] = None]
          /\ UNCHANGED <<kernel, maps, batch, client, danglingClients,
                         danglingTimers>>

RearmServer(t) ==
  /\ Done(t, "RearmServer")
  /\ interest' = [interest EXCEPT ![Server] = "Armed"]
  /\ UNCHANGED <<file, readable, hungup, accepts, maps, conn, client,
                 danglingClients, danglingTimers>>

-----------------------------------------------------------------------------
(* A timer.                                                                *)

(* timers.get: is the descriptor a timer's?                                *)
GetTimer(t) ==
  /\ At(t, "Event") /\ Fd(t) # Server
  /\ Go(t, "Event", IF timers[Fd(t)] = None THEN "Lookup" ELSE "Timer")
  /\ danglingTimers' = danglingTimers \ {t}
  /\ UNCHANGED <<kernel, maps, batch, conn, client, danglingClients>>

(* The timer's client is looked up.  That there is none means the Timer is *)
(* gone too, so the branch for that case starts from a dangling pointer.   *)
GetTimerClient(t) ==
  IF t \in danglingTimers THEN At(t, "Timer") /\ Undefined
  ELSE /\ Go(t, "Timer", "Beat")
       /\ client' = [client EXCEPT ![t] = timers[Fd(t)]]
       /\ danglingClients' = danglingClients \ {t}
       /\ UNCHANGED <<kernel, maps, batch, conn, danglingTimers>>

(* The timer is read, which fails when it has not expired; the heartbeat   *)
(* is written, which may fail when the peer is gone.                       *)
Beat(t) ==
  \/ /\ At(t, "Beat") /\ t \in danglingTimers \union danglingClients
     /\ Undefined
  \/ /\ t \notin danglingTimers \union danglingClients
     /\ \/ Go(t, "Beat", "RearmTimer") /\ Fd(t) \in readable
        \/ /\ Go(t, "Beat", "Remove")
           /\ Fd(t) \notin readable \/ client[t] \in hungup
     /\ readable' = readable \ {Fd(t)}
     /\ UNCHANGED <<file, interest, hungup, accepts, maps, local>>

RearmTimer(t) ==
  /\ Done(t, "RearmTimer")
  /\ interest' = [interest EXCEPT ![Fd(t)] =
       IF @ = "None" THEN "None" ELSE "Armed"]
  /\ UNCHANGED <<file, readable, hungup, accepts, maps, conn, client,
                 danglingClients, danglingTimers>>

-----------------------------------------------------------------------------
(* A client.                                                               *)

(* clients.get; an event that reports the peer's hang-up ends the client,  *)
(* whatever data it has sent before.                                       *)
Lookup(t) ==
  /\ Go(t, "Lookup",
        CASE Fd(t) \notin clients -> "Forget"
          [] Head(batch[t]).rdhup -> "Remove"
          [] OTHER -> "Read")
  /\ IF Fd(t) \in clients
     THEN /\ client' = [client EXCEPT ![t] = Fd(t)]
          /\ danglingClients' = danglingClients \ {t}
     ELSE UNCHANGED <<client, danglingClients>>
  /\ UNCHANGED <<kernel, maps, batch, conn, danglingTimers>>

(* No such client: the descriptor is taken out of the epoll instance.      *)
Forget(t) ==
  /\ Done(t, "Forget")
  /\ interest' = [interest EXCEPT ![Fd(t)] = "None"]
  /\ UNCHANGED <<file, readable, hungup, accepts, maps, conn, client,
                 danglingClients, danglingTimers>>

(* The start of handleMessages: reading until the socket has no more.  The *)
(* end of the stream, and having found nothing at all, count as the client *)
(* having closed; otherwise the messages are handled, and may be illegal,  *)
(* or incomplete, or ask for heartbeats.                                   *)
Read(t) ==
  LET c == Fd(t)
      closed == c \notin readable \/ c \in hungup
  IN  /\ At(t, "Read")
      /\ IF t \in danglingClients \/ c \in wrecks THEN Undefined
         ELSE /\ \/ Go(t, "Read", "Remove")
                 \/ Go(t, "Read", "Finish") /\ ~closed
                 \/ /\ Go(t, "Read", "AddTimer") /\ ~closed
                    /\ Heartbeats /\ timerOf[c] = None
              /\ readable' = readable \ {c}
              /\ UNCHANGED <<file, interest, hungup, accepts, maps, local>>

(* Client.addTimer: the timer is the client's before it is in the epoll    *)
(* instance, which may fail, and there before it is in the timers' map.    *)
AddTimer(t, f) ==
  /\ At(t, "AddTimer")
  /\ IF t \in danglingClients THEN Undefined
     ELSE /\ file[f] = "Free"
          /\ file' = [file EXCEPT ![f] = "Timer"]
          /\ timerOf' = [timerOf EXCEPT ![client[t]] = f]
          /\ \/ /\ Go(t, "AddTimer", "RegisterTimer")
                /\ interest' = [interest EXCEPT ![f] = "Armed"]
             \/ /\ Go(t, "AddTimer", "Remove") /\ "add" \in Faults
                /\ UNCHANGED interest
          /\ danglingTimers' = danglingTimers \ {t}
          /\ UNCHANGED <<readable, hungup, accepts, clients, timers, wrecks,
                         batch, conn, client, danglingClients>>

(* No descriptor is left for the timer: the error removes the client.      *)
NoTimer(t) ==
  /\ Go(t, "AddTimer", "Remove")
  /\ t \notin danglingClients
  /\ \A f \in Fds : file[f] # "Free"
  /\ UNCHANGED <<kernel, maps, local>>

(* timers.add, given the Timer; the messages after it may be illegal.      *)
RegisterTimer(t) ==
  IF t \in danglingTimers THEN At(t, "RegisterTimer") /\ Undefined
  ELSE /\ \E l \in {"Finish", "Remove"} : Go(t, "RegisterTimer", l)
       /\ timers' = [timers EXCEPT ![timerOf[client[t]]] = client[t]]
       /\ UNCHANGED <<kernel, clients, timerOf, wrecks, local>>

(* Mutant: the descriptor is not armed again.                              *)
FinishUnarmed(t) ==
  IF t \in danglingClients THEN At(t, "Finish") /\ Undefined
  ELSE Done(t, "Finish") /\ UNCHANGED <<kernel, maps, conn, client,
                                        danglingClients, danglingTimers>>

(* The fifo gives up what was decoded, and the descriptor is armed again,  *)
(* if it is still in the epoll instance.                                   *)
Finish(t) ==
  IF t \in danglingClients THEN At(t, "Finish") /\ Undefined
  ELSE /\ Done(t, "Finish")
       /\ interest' = [interest EXCEPT ![Fd(t)] =
            IF @ = "None" THEN "None" ELSE "Armed"]
       /\ UNCHANGED <<file, readable, hungup, accepts, maps, conn, client,
                      danglingClients, danglingTimers>>

-----------------------------------------------------------------------------
(* removeFd: the error message and the dispatcher's roads are read through *)
(* the pointer; then the descriptor's entry, whoever's it is, is deleted.  *)

RemoveFd(t) ==
  IF t \in danglingClients THEN At(t, "Remove") /\ Undefined
  ELSE Go(t, "Remove", "Del") /\ UNCHANGED <<kernel, maps, local>>

(* After removeFd, the listener's event goes on to arm it again.           *)
Removed(t) ==
  /\ At(t, "Del")
  /\ IF Fd(t) = Server
     THEN Go(t, "Del", "RearmServer") /\ UNCHANGED batch
     ELSE Done(t, "Del")

Close(S) ==
  /\ file' = [f \in Fds |-> IF f \in S THEN "Free" ELSE file[f]]
  /\ interest' = [f \in DOMAIN interest |->
                    IF f \in S THEN "None" ELSE interest[f]]
  /\ readable' = readable \ S
  /\ hungup' = hungup \ S
  /\ UNCHANGED accepts

(* Pointers to the Timer f, which is freed: held by a thread that handles  *)
(* its event, or that is about to enter it in the timers' map.             *)
HoldsTimer(u, f) ==
  \/ pc[u] \in {"Timer", "Beat"} /\ Fd(u) = f
  \/ pc[u] = "RegisterTimer" /\ timerOf[client[u]] = f

FreeTimer(f) ==
  danglingTimers' = danglingTimers \union {u \in Threads : HoldsTimer(u, f)}

FreeClient(c) ==
  danglingClients' = danglingClients \union {u \in Threads : client[u] = c}

(* Clients.del and Client.deinit, under the clients' mutex: the timer goes *)
(* first, then the connection, then the entry.                             *)
Del(t) ==
  LET c == client[t]
      f == timerOf[c]
  IN  /\ c \in clients \ wrecks
      /\ f # None => interest[f] # "None"
      /\ interest[c] # "None"
      /\ Removed(t)
      /\ Close({c, f})
      /\ clients' = clients \ {c}
      /\ timerOf' = [timerOf EXCEPT ![c] = None]
      /\ timers' = [g \in Fds |-> IF g = f THEN None ELSE timers[g]]
      /\ FreeClient(c) /\ FreeTimer(f)
      /\ UNCHANGED <<wrecks, conn, client>>

(* The timer, or the connection, is not in the epoll instance: deinit      *)
(* stops there.  The connection is closed, but the client stays in the map.*)
DelFails(t) ==
  LET c == client[t]
      f == timerOf[c]
      timerFails == f # None /\ interest[f] = "None"
  IN  /\ c \in clients \ wrecks
      /\ Removed(t)
      /\ wrecks' = wrecks \union {c}
      /\ IF timerFails
         THEN Close({c}) /\ UNCHANGED <<timerOf, timers, danglingTimers>>
         ELSE /\ interest[c] = "None"
              /\ Close({c, f})
              /\ timerOf' = [timerOf EXCEPT ![c] = None]
              /\ timers' = [g \in Fds |-> IF g = f THEN None ELSE timers[g]]
              /\ FreeTimer(f)
      /\ UNCHANGED <<clients, conn, client, danglingClients>>

(* A second deinit of a client frees its fifo a second time.               *)
DelAgain(t) == At(t, "Del") /\ client[t] \in wrecks /\ Undefined

(* Mutant: the descriptor is closed whether or not it has a client.        *)
DelNothingCloses(t) ==
  /\ client[t] \notin clients
  /\ Removed(t)
  /\ Close({client[t]})
  /\ UNCHANGED <<maps, conn, client, danglingClients, danglingTimers>>

(* Another thread has deleted the client.                                  *)
DelNothing(t) ==
  /\ client[t] \notin clients
  /\ Removed(t)
  /\ UNCHANGED <<kernel, maps, conn, client, danglingClients, danglingTimers>>

-----------------------------------------------------------------------------
Step(t) ==
  \/ AcceptFails(t) \/ AddClient(t) \/ AddFails(t) \/ RearmServer(t)
  \/ GetTimer(t) \/ GetTimerClient(t) \/ Beat(t) \/ RearmTimer(t)
  \/ Lookup(t) \/ Forget(t) \/ Read(t)
  \/ \E f \in Fds : Accept(t, f) \/ AddTimer(t, f)
  \/ NoTimer(t) \/ RegisterTimer(t) \/ Finish(t)
  \/ RemoveFd(t) \/ Del(t) \/ DelFails(t) \/ DelAgain(t)
  \/ DelNothing(t)

ReadyBatches == Batches({f \in Fds \union {Server} : Ready(f)})

Wake(t) == \E s \in ReadyBatches : Fetch(t, s)

Rest ==
  /\ undefined \/ \A t \in Threads : pc[t] = "Wait"
  /\ UNCHANGED vars

Next ==
  \/ \E t \in Threads : Wake(t) \/ Step(t)
  \/ \E f \in Fds : Send(f) \/ HangUp(f) \/ Expire(f)
  \/ Rest

(* The operating system keeps scheduling every thread, and epoll hands out *)
(* the ready descriptors first come, first served, so none is passed over  *)
(* for ever.  Nothing obliges a peer, or a timer, to do anything.          *)
FetchOf(f) ==
  \E t \in Threads : \E s \in ReadyBatches : f \in Range(s) /\ Fetch(t, s)

Fairness ==
  /\ \A t \in Threads : WF_vars(Step(t))
  /\ \A f \in Fds \union {Server} : SF_vars(FetchOf(f))

Spec == Init /\ [][Next]_vars
FairSpec == Spec /\ Fairness

-----------------------------------------------------------------------------
(* Every variable holds a value of its type.                               *)
TypeOK ==
  /\ file \in [Fds -> {"Free", "Conn", "Timer"}]
  /\ interest \in [Fds \union {Server} -> {"None", "Armed", "Disarmed"}]
  /\ readable \subseteq Fds /\ hungup \subseteq Fds
  /\ accepts \in 0..MaxAccepts
  /\ clients \subseteq Fds /\ wrecks \subseteq clients
  /\ timerOf \in [Fds -> Fds \union {None}]
  /\ timers \in [Fds -> Fds \union {None}]
  /\ pc \in [Threads -> Labels]
  /\ batch \in [Threads -> Seq([fd : Fds \union {Server}, rdhup : BOOLEAN])]
  /\ \A t \in Threads : pc[t] = "Wait" <=> batch[t] = <<>>
  /\ conn \in [Threads -> Fds \union {None}]
  /\ client \in [Threads -> Fds \union {None}]
  /\ danglingClients \subseteq Threads /\ danglingTimers \subseteq Threads
  /\ undefined \in BOOLEAN

Handling(t, f) == \E i \in DOMAIN batch[t] : batch[t][i].fd = f

Serving == {"Beat", "Read", "AddTimer", "RegisterTimer", "Finish", "Remove", "Del"}

(* Without heartbeats, EPOLLONESHOT keeps a client to one thread: no two   *)
(* hold a pointer to the same client, whatever batches they have fetched   *)
(* and however often its descriptor is closed and reused (logic.zig:187).  *)
OneThreadPerClient ==
  \A t, u \in Threads :
     t # u /\ pc[t] \in Serving /\ pc[u] \in Serving => client[t] # client[u]

(* The steps that follow thr_ctx.client.                                   *)
Following == {"Beat", "Read", "AddTimer", "Finish", "Remove"}

(* An insertion finds the clients' map full, and moves it.                 *)
MapMoves == clients' \ clients # {} /\ Cardinality(clients) \in GrowAt

PointerStaysGood ==
  /\ \A t \in Threads : pc'[t] \in Following /\ t \in danglingClients' =>
       MapMoves \/ (pc[t] \in Following /\ t \in danglingClients)
  /\ undefined' => undefined \/ \E t \in danglingClients : pc[t] \in Following

(* Clients.get hands out a pointer into the map and gives up the mutex     *)
(* that protects it (logic.zig:251-256).  Without heartbeats no thread     *)
(* deletes a client that another has such a pointer to and will follow it, *)
(* whatever batches they have fetched and whichever descriptors have been  *)
(* reused.  What does leave a pointer that is in use dangling is the map's *)
(* own growth, when a thread enters a new client (243-249): no use of      *)
(* freed memory comes about in any other way.                              *)
OnlyGrowthDangles == [][PointerStaysGood]_vars

(* No descriptor is forgotten: every client's, and the listener's, is      *)
(* armed unless an event of it is being handled.  Each way out of the loop *)
(* has to arm it again or to delete the client; only an accept that fails  *)
(* does neither (main.zig:327-330).                                        *)
NoForgottenDescriptor ==
  \A f \in (clients \ wrecks) \union {Server} :
     \/ interest[f] = "Armed"
     \/ \E t \in Threads : Handling(t, f)
     \/ f = Server /\ "accept" \in Faults
     \/ undefined

(* A client whose deinit has not failed has its connection open, and its   *)
(* timer if it has one.  So whichever threads delete it, and however often *)
(* the descriptor is reused meanwhile, deinit never closes a descriptor    *)
(* that is closed already and may be somebody else's (logic.zig:348-367).  *)
IntactClientIsOpen ==
  \A c \in clients \ wrecks :
     /\ file[c] = "Conn"
     /\ timerOf[c] # None => file[timerOf[c]] = "Timer"

(* Whatever a client has sent is read, or the client is removed, in a      *)
(* batch of events of any length and however busy the others are: its      *)
(* descriptor comes to be armed again and its event to be fetched.         *)
DataIsRead ==
  \A c \in Fds : c \in clients /\ c \in readable
                   ~> c \notin readable \/ undefined

(* main.zig:404-407: "Then it must be we got a new message", and           *)
(* ClientClosedConnection otherwise.  A client that is read from has sent  *)
(* something, or has gone away.                                            *)
ClosedMeansClosed ==
  \A t \in Threads : pc[t] = "Read" /\ t \notin danglingClients =>
     Fd(t) \in readable \union hungup

-----------------------------------------------------------------------------
(* The inductive invariants of SpeedEpollProofs.                           *)

(* A thread that handles a timer or a client has fetched its descriptor.   *)
PlaceInv ==
  \A t \in Threads :
    pc[t] \in {"Timer", "Beat", "RearmTimer", "Lookup", "Forget", "Read",
              "AddTimer", "RegisterTimer", "Finish"} => Fd(t) # Server

(* What has been accepted and is not yet a client is open, is one thread's *)
(* and is no intact client's.                                              *)
AcceptedInv ==
  \A t \in Threads : pc[t] = "Add" =>
    /\ conn[t] \in Fds /\ file[conn[t]] = "Conn"
    /\ conn[t] \notin clients \ wrecks
    /\ \A u \in Threads \ {t} : pc[u] = "Add" => conn[u] # conn[t]

(* Clients do not share timers.                                            *)
OwnTimers ==
  \A c, d \in clients \ wrecks :
    c # d /\ timerOf[c] # None => timerOf[c] # timerOf[d]

EpollInv ==
  TypeOK /\ PlaceInv /\ AcceptedInv /\ IntactClientIsOpen /\ OwnTimers

(* Without heartbeats and failing adds a client is one thread's at a time. *)
Alone == ~Heartbeats /\ "add" \notin Faults

(* There are no timers, and no deinit fails.                               *)
NoTimersInv ==
  /\ \A f \in Fds : timerOf[f] = None /\ timers[f] = None
  /\ wrecks = {}
  /\ \A t \in Threads :
       pc[t] \notin {"Timer", "Beat", "RearmTimer", "AddTimer",
                    "RegisterTimer", "Forget"}

(* The descriptors of fetched events are disarmed, are clients', and have  *)
(* been fetched once.                                                      *)
EventInv ==
  \A t \in Threads : \A i \in DOMAIN batch[t] :
    LET f == batch[t][i].fd IN
    /\ interest[f] = "Disarmed"
    /\ f # Server => f \in clients
    /\ \A u \in Threads : \A j \in DOMAIN batch[u] :
         batch[u][j].fd = f => u = t /\ j = i

(* The clients' descriptors, and no others, are in the epoll instance.     *)
InterestInv == \A f \in Fds : f \in clients <=> interest[f] # "None"

(* Which descriptor a thread that serves a client has fetched.             *)
ServesInv ==
  \A t \in Threads :
    /\ pc[t] \in {"Add", "RearmServer"} => Fd(t) = Server
    /\ pc[t] \in {"Read", "Finish", "Remove", "Del"} =>
         Fd(t) # Server /\ client[t] = Fd(t)

(* What made an event ready is there until the event is handled.           *)
Cause(f) ==
  IF f = Server THEN "accept" \in Faults \/ \E g \in Fds : file[g] = "Free"
                ELSE f \in readable \union hungup

CauseInv ==
  \A t \in Threads : \A i \in DOMAIN batch[t] :
    i > 1 \/ pc[t] \in {"Event", "Lookup", "Read"} => Cause(batch[t][i].fd)

AloneInv ==
  Alone => /\ NoTimersInv /\ EventInv /\ InterestInv /\ ServesInv /\ CauseInv
           /\ NoForgottenDescriptor

=============================================================================
