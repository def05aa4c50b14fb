------------------------------- MODULE CSockets -------------------------------
(***************************************************************************)
(* What the C servers share: c/source/utils/sockets.c, epoll.c, and        *)
(* recv_request of utils.c, over the part of the kernel that they use.     *)
(*                                                                         *)
(* A server is one thread.  It sets up its listening socket and goes from  *)
(* epoll_wait to one event after another.  A descriptor appears once in a  *)
(* batch of events and keeps its place in the kernel's ready list, so a    *)
(* batch is its events one by one.  Connections are edge-triggered and     *)
(* non-blocking, the listening socket is neither.                          *)
(*                                                                         *)
(* A module for a server EXTENDS this one, gives the handling of an event  *)
(* as steps of the server and what peers send as Deliver.                  *)
(***************************************************************************)
EXTENDS Naturals, Sequences, SequencesExt

CONSTANTS
  Conns,      (* connections, numbered in the order in which they are made  *)
  Listener,   (* the listening socket                                       *)
  Addresses   (* number of addresses getaddrinfo returns                    *)

ASSUME SocketsAssumption ==
  /\ Conns \subseteq Nat /\ Listener \notin Conns
  /\ Addresses \in Nat

VARIABLES
  pc,         (* where the server is                                        *)
  cur,        (* the descriptor of the event being handled, Listener if none*)
  res,        (* what recv_request returned for it, "again" if nothing yet  *)
  at,         (* create_server: the address being tried                     *)
  sockets,    (* number of sockets made to listen on and not closed         *)
  ready,      (* epoll's ready list                                         *)
  backlog,    (* connections yet to be accepted                             *)
  open,       (* connections accepted and not closed                        *)
  peer,       (* what has become of a connection, as its peer knows it      *)
  inbox       (* received by the kernel and not yet by the server           *)

startVars == <<at, sockets>>
netVars == <<ready, backlog, open, peer, inbox>>
socketVars == <<pc, cur, res, startVars, netVars>>

SocketsInit ==
  /\ pc = "Resolve"
  /\ cur = Listener /\ res = "again"
  /\ at = 1 /\ sockets = 0
  /\ ready = <<>> /\ backlog = <<>> /\ open = {}
  /\ peer = [c \in Conns |-> "none"]
  /\ inbox = [c \in Conns |-> <<>>]

SocketsType ==
  /\ cur \in Conns \union {Listener}
  /\ res \in {"again", "closed", "error"}
  /\ at \in 1..(Addresses + 1) /\ sockets \in 0..Addresses
  /\ ready \in Seq(Conns \union {Listener})
  /\ backlog \in Seq(Conns)
  /\ open \subseteq Conns
  /\ peer \in [Conns -> {"none", "open", "shut", "reset", "gone"}]

Serving == pc \notin {"Resolve", "Socket", "Bind", "Listen", "Exit", "Done"}

(* The server listens on one socket, and every other one that it made on   *)
(* the way is closed.                                                      *)
OneSocket ==
  /\ pc \in {"Resolve", "Socket"} => sockets = 0
  /\ pc = "Bind" => at <= Addresses
  /\ Serving \/ pc \in {"Bind", "Listen"} => sockets = 1

-----------------------------------------------------------------------------
(* epoll's ready list: a descriptor is in it once, and stays where it is.  *)
Notified(fd) ==
  IF fd \in open \union {Listener} /\ fd \notin Range(ready)
    THEN Append(ready, fd) ELSE ready

Readable(fd) ==
  IF fd = Listener THEN backlog # <<>>
                   ELSE inbox[fd] # <<>> \/ peer[fd] \in {"shut", "reset"}

(* A connection that can be received from has an event, unless that is     *)
(* just being handled.                                                     *)
EventInv ==
  /\ backlog # <<>> => Listener \in Range(ready)
  /\ \A c \in Conns :
       /\ peer[c] \in {"open", "shut", "reset"} => c \in open \union Range(backlog)
       /\ c \in open /\ inbox[c] # <<>> =>
            c \in Range(ready) \/ (pc = "Recv" /\ cur = c)

-----------------------------------------------------------------------------
(* Peers.                                                                  *)

Connect(c) ==
  /\ Serving
  /\ peer[c] = "none" /\ \A d \in Conns : d < c => peer[d] # "none"
  /\ peer' = [peer EXCEPT ![c] = "open"]
  /\ backlog' = Append(backlog, c)
  /\ ready' = Notified(Listener)
  /\ UNCHANGED <<pc, cur, res, startVars, open, inbox>>

Deliver(c, units) ==
  /\ Serving
  /\ peer[c] = "open"
  /\ inbox' = [inbox EXCEPT ![c] = @ \o units]
  /\ ready' = Notified(c)
  /\ UNCHANGED <<pc, cur, res, startVars, backlog, open, peer>>

(* The peer ends its sending side, or resets the connection.               *)
HangUp(c, how) ==
  /\ Serving
  /\ \/ how = "shut" /\ peer[c] = "open"
     \/ how = "reset" /\ peer[c] \in {"open", "shut"}
  /\ peer' = [peer EXCEPT ![c] = how]
  /\ ready' = Notified(c)
  /\ UNCHANGED <<pc, cur, res, startVars, backlog, open, inbox>>

-----------------------------------------------------------------------------
(* main up to its loop.                                                    *)

Resolve ==
  /\ pc = "Resolve"
  /\ pc' \in {"Socket", "Exit"}
  /\ UNCHANGED <<cur, res, startVars, netVars>>

(* create_server: the next address is tried until one has a socket.        *)
Socket ==
  /\ pc = "Socket"
  /\ \/ at > Addresses /\ pc' = "Exit" /\ UNCHANGED startVars
     \/ at <= Addresses /\ at' = at + 1 /\ UNCHANGED <<pc, sockets>>
     \/ /\ at <= Addresses
        /\ sockets' = sockets + 1
        /\ pc' = "Bind" /\ UNCHANGED at
  /\ UNCHANGED <<cur, res, netVars>>

(* Mutant: the socket of an address that cannot be bound is not closed.    *)
BindLeaks ==
  /\ pc = "Bind"
  /\ \/ pc' = "Listen" /\ UNCHANGED startVars
     \/ pc' = "Socket" /\ at' = at + 1 /\ UNCHANGED sockets
  /\ UNCHANGED <<cur, res, netVars>>

(* create_server: a socket that cannot be bound is closed.                 *)
Bind ==
  /\ pc = "Bind"
  /\ \/ pc' = "Listen" /\ UNCHANGED startVars
     \/ pc' = "Socket" /\ at' = at + 1 /\ sockets' = sockets - 1
  /\ UNCHANGED <<cur, res, netVars>>

(* listen, epoll_create1 and the listener's epoll_ctl.  The addresses are  *)
(* not looked at again.                                                    *)
Listen ==
  /\ pc = "Listen"
  /\ pc' \in {"Wait", "Exit"}
  /\ at' = 1
  /\ UNCHANGED <<cur, res, sockets, netVars>>

Start == Resolve \/ Socket \/ Bind \/ Listen

-----------------------------------------------------------------------------
(* The loop.                                                               *)

(* epoll_wait drops what is no longer readable, and puts the listener,     *)
(* which is level-triggered, back behind the others.                       *)
Wait ==
  /\ pc = "Wait"
  /\ ready # <<>>
  /\ LET fd == Head(ready) IN
       IF ~Readable(fd)
         THEN ready' = Tail(ready) /\ UNCHANGED <<pc, cur>>
         ELSE /\ cur' = fd
              /\ pc' = IF fd = Listener THEN "Accept" ELSE "Recv"
              /\ ready' = IF fd = Listener THEN Append(Tail(ready), fd)
                                           ELSE Tail(ready)
  /\ UNCHANGED <<res, startVars, backlog, open, peer, inbox>>

(* fd_accept_and_epoll_add.  Adding a descriptor that is readable queues   *)
(* it at once.                                                             *)
Accept ==
  /\ pc = "Accept"
  /\ LET c == Head(backlog) IN
       /\ open' = open \union {c}
       /\ ready' = IF Readable(c) THEN Append(ready, c) ELSE ready
  /\ backlog' = Tail(backlog)
  /\ pc' = "Wait"
  /\ UNCHANGED <<cur, res, startVars, peer, inbox>>

(* The descriptor of an event is of no use after it.                       *)
KeepCur == cur' = IF pc' = "Wait" THEN Listener ELSE cur

AcceptFails ==
  /\ pc = "Accept"
  /\ pc' = "Exit"
  /\ UNCHANGED <<cur, res, startVars, netVars>>

(* Mutant: recv_request makes do with one recv.                            *)
ReceivedOnce ==
  /\ inbox' = [inbox EXCEPT ![cur] = <<>>]
  /\ CASE peer[cur] = "open" \/ inbox[cur] # <<>> -> res' = "again"
       [] peer[cur] = "shut" /\ inbox[cur] = <<>> -> res' = "closed"
       [] peer[cur] = "reset" /\ inbox[cur] = <<>> -> res' \in {"closed", "error"}
  /\ UNCHANGED <<startVars, ready, backlog, open, peer>>

(* recv_request: takes all there is, up to the last recv, which tells how  *)
(* the connection stands.  An error is reported once.                      *)
Received ==
  /\ inbox' = [inbox EXCEPT ![cur] = <<>>]
  /\ CASE peer[cur] = "open"  -> res' = "again"
       [] peer[cur] = "shut"  -> res' = "closed"
       [] peer[cur] = "reset" -> res' \in {"closed", "error"}
  /\ UNCHANGED <<startVars, ready, backlog, open, peer>>

(* A send to a connection that has been reset fails, or raises SIGPIPE,    *)
(* which ends the process: no server ignores it.                           *)
Killed ==
  /\ peer[cur] = "reset"
  /\ pc' = "Exit"
  /\ UNCHANGED <<cur, res, startVars, netVars>>

(* fd_poll_del_and_close.                                                  *)
Close ==
  /\ pc = "Close"
  /\ open' = open \ {cur}
  /\ peer' = [peer EXCEPT ![cur] = "gone"]
  /\ inbox' = [inbox EXCEPT ![cur] = <<>>]
  /\ \/ cur \notin Range(ready) /\ UNCHANGED ready
     \/ \E i \in DOMAIN ready : ready[i] = cur /\ ready' = RemoveAt(ready, i)
  /\ pc' = "Wait" /\ res' = "again"
  /\ KeepCur
  /\ UNCHANGED <<startVars, backlog>>

(* What sendall may make of n units: how many are sent, and whether an     *)
(* error is reported.  Its loop compares what a send took with what is     *)
(* left, so a send of the larger part is taken for the last, and no other  *)
(* leaves fewer than two.  EchoServer has the loop step by step.           *)
SendAll(n) ==
  [sent : {k \in 0..n : k = 0 \/ k + 2 <= n}, failed : {TRUE}]
    \union [sent : {k \in 1..n : n <= 2 * k}, failed : {FALSE}]
=============================================================================
