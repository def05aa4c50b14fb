------------------------------ MODULE MeansServer ------------------------------
(***************************************************************************)
(* The C means-to-an-end server: c/source/means-to-an-end, main.c,         *)
(* client-session.c, asset-prices.c and messages.c.                        *)
(*                                                                         *)
(* Each connection has a session, with a list of prices and a queue of     *)
(* what has been received.  The sessions are a doubly linked list, that    *)
(* the server knows by a cursor: a pointer to any one of them, which       *)
(* finding, adding and removing a session move.  What a queue holds is     *)
(* processed when it is a multiple of a message long.  With nothing to do  *)
(* for a while, the server frees everything and ends.                      *)
(*                                                                         *)
(* A message is received in two halves, of which only the second is told   *)
(* from those of other messages.  An answer is sent in two units.          *)
(***************************************************************************)
EXTENDS CSockets, Integers

CONSTANTS
  None,         (* NULL                                                     *)
  FirstHalf,    (* the first half of a message                              *)
  Messages,     (* the messages peers may send                              *)
  InitCapacity, (* the capacity of an empty list of prices                  *)
  MaxLoad       (* bound: halves of messages that peers send, with two for  *)
                (* each connection                                          *)

ASSUME MeansAssumption ==
  /\ None \notin Conns /\ FirstHalf \notin Messages
  /\ Messages \subseteq [type : {"I", "Q", "other"}, first_word : Int,
                         second_word : Int]
  /\ InitCapacity \in Nat \ {0} /\ MaxLoad \in Nat

VARIABLES
  ca,         (* the cursor                                                 *)
  sessions,   (* the sessions allocated, each named for its connection      *)
  next,       (* of a session: the one after it in the list                 *)
  prev,       (* the one before it                                          *)
  asset,      (* its prices, and the number there is room for               *)
  recv_qu,    (* its queue                                                  *)
  data,       (* the messages popped from a queue and not processed yet     *)
  sdqu,       (* the queue of units to be sent                              *)
  sent,       (* history: number of halves each peer has sent               *)
  given,      (* history: the units each peer has been sent                 *)
  cut         (* history: connections whose answers were not all sent       *)

listVars == <<ca, sessions, next, prev>>
meansVars == <<listVars, asset, recv_qu, data, sdqu, sent, given, cut>>
vars == <<socketVars, meansVars>>

(* asset_prices_init.                                                      *)
NoPrices == [prices |-> <<>>, capacity |-> InitCapacity]

Init ==
  /\ SocketsInit
  /\ ca = None /\ sessions = {}
  /\ next = [c \in Conns |-> None] /\ prev = [c \in Conns |-> None]
  /\ asset = [c \in Conns |-> NoPrices]
  /\ recv_qu = [c \in Conns |-> <<>>]
  /\ data = <<>> /\ sdqu = <<>>
  /\ sent = [c \in Conns |-> 0]
  /\ given = [c \in Conns |-> <<>>]
  /\ cut = {}

-----------------------------------------------------------------------------
(* client-session.c: the list.                                             *)

(* The sessions met from s on along one of the two links: those that are   *)
(* in every set with s that the link does not lead out of.                 *)
Chain(link, s) ==
  {t \in Conns : \A S \in SUBSET Conns :
     s \in S /\ (\A u \in S : link[u] \in S \union {None}) => t \in S}

GetBeg(s) == CHOOSE t \in Chain(prev, s) : prev[t] = None
GetEnd(s) == CHOOSE t \in Chain(next, s) : next[t] = None

Found(c) == ca # None /\ c \in Chain(next, GetBeg(ca))

(* clients_session_init.                                                   *)
SessionInit(c) ==
  /\ asset' = [asset EXCEPT ![c] = NoPrices]
  /\ recv_qu' = [recv_qu EXCEPT ![c] = <<>>]

(* Mutant: the session is put behind the cursor, wherever that is.         *)
AddAtCursor(c) ==
  /\ sessions' = sessions \union {c}
  /\ IF ca = None
       THEN ca' = c /\ UNCHANGED <<next, prev>>
       ELSE /\ next' = [next EXCEPT ![ca] = c]
            /\ prev' = [prev EXCEPT ![c] = ca]
            /\ UNCHANGED ca
  /\ SessionInit(c)

(* clients_session_add: behind the last, which the cursor is left at.      *)
Add(c) ==
  /\ sessions' = sessions \union {c}
  /\ IF ca = None
       THEN ca' = c /\ UNCHANGED <<next, prev>>
       ELSE /\ ca' = GetEnd(ca)
            /\ next' = [next EXCEPT ![GetEnd(ca)] = c]
            /\ prev' = [prev EXCEPT ![c] = GetEnd(ca)]
  /\ SessionInit(c)

(* clients_session_free: the neighbours are linked, and the cursor goes to *)
(* the one before, or else to the one after.                               *)
Free(c) ==
  /\ sessions' = sessions \ {c}
  /\ next' = [s \in Conns |-> IF s = c THEN None
                              ELSE IF s = prev[c] THEN next[c] ELSE next[s]]
  /\ prev' = [s \in Conns |-> IF s = c THEN None
                              ELSE IF s = next[c] THEN prev[c] ELSE prev[s]]
  /\ ca' = IF prev[c] # None THEN prev[c] ELSE next[c]

(* clients_session_remove.  A search in vain leaves the cursor at the      *)
(* beginning.                                                              *)
RemoveSession(c) ==
  IF Found(c) THEN Free(c)
  ELSE /\ ca' = IF ca = None THEN None ELSE GetBeg(ca)
       /\ UNCHANGED <<sessions, next, prev>>

(* clients_session_free_all: goes to the beginning, frees one session      *)
(* after the other.                                                        *)
FreeAll ==
  /\ sessions' = IF ca = None THEN sessions
                              ELSE sessions \ Chain(next, GetBeg(ca))
  /\ ca' = None

-----------------------------------------------------------------------------
(* asset-prices.c.                                                         *)

(* Mutant: the first price is not looked at.                               *)
DuplicateSkipsFirst(a, time) ==
  \E i \in DOMAIN a.prices \ {1} : a.prices[i].timestamp = time

Duplicate(a, time) ==
  \E i \in DOMAIN a.prices : a.prices[i].timestamp = time

(* Mutant: the array grows when it is full, one push too late.             *)
PushLate(a, entry) ==
  [prices |-> Append(a.prices, entry),
   capacity |-> IF Len(a.prices) > a.capacity THEN 2 * a.capacity
                                              ELSE a.capacity]

Push(a, entry) ==
  [prices |-> Append(a.prices, entry),
   capacity |-> IF Len(a.prices) + 1 >= a.capacity THEN 2 * a.capacity
                                                   ELSE a.capacity]

(* C's division.                                                           *)
Quotient(m, n) == IF m < 0 THEN -((-m) \div n) ELSE m \div n

(* Mutant: the later bound is taken to be exclusive.                       *)
QueryInclusive(a, mintime, maxtime) ==
  LET all == FoldLeft(LAMBDA m, e :
               IF mintime <= e.timestamp /\ e.timestamp < maxtime
                 THEN [mean |-> m.mean + e.price, num |-> m.num + 1] ELSE m,
               [mean |-> 0, num |-> 0], a.prices)
  IN IF all.num = 0 THEN 0 ELSE Quotient(all.mean, all.num)

(* The loop of asset_prices_query over all prices.                         *)
PricesQuery(a, mintime, maxtime) ==
  LET all == FoldLeft(LAMBDA m, e :
               IF mintime <= e.timestamp /\ e.timestamp <= maxtime
                 THEN [mean |-> m.mean + e.price, num |-> m.num + 1] ELSE m,
               [mean |-> 0, num |-> 0], a.prices)
  IN IF all.num = 0 THEN 0 ELSE Quotient(all.mean, all.num)

-----------------------------------------------------------------------------
(* Peers.                                                                  *)

Load ==
  FoldFunction(+, 0, sent) + 2 * Cardinality({c \in Conns : peer[c] # "none"})

PeerSends(c, m) ==
  /\ Load + 1 <= MaxLoad
  /\ Deliver(c, <<IF sent[c] % 2 = 0 THEN FirstHalf ELSE m>>)
  /\ sent' = [sent EXCEPT ![c] = @ + 1]
  /\ UNCHANGED <<listVars, asset, recv_qu, data, sdqu, given, cut>>

-----------------------------------------------------------------------------
(* The server.                                                             *)

Finish(r) == IF r = "again" THEN "Wait" ELSE "Close"

AcceptAndAdd ==
  /\ Accept /\ Add(Head(backlog))
  /\ UNCHANGED <<data, sdqu, sent, given, cut>>

(* Mutant: whatever has the size of a message at least is complete.        *)
CompleteIfEnough(qu) == Len(qu) >= 2

(* Mutant: only a single message is taken for complete.                    *)
CompleteIfOne(qu) == Len(qu) = 2

(* Whether main.c 138 takes the queue for complete requests.               *)
Complete(qu) == qu # <<>> /\ Len(qu) % 2 = 0

(* The session is asserted to be found.                                    *)
Recv ==
  /\ pc = "Recv"
  /\ Found(cur)
  /\ ca' = cur
  /\ Received
  /\ LET qu == recv_qu[cur] \o inbox[cur]
         pop == res' # "error" /\ Complete(qu)
     IN /\ data' = IF pop THEN qu ELSE <<>>
        /\ recv_qu' = [recv_qu EXCEPT ![cur] = IF pop THEN <<>> ELSE qu]
        /\ pc' = IF pop THEN "Parse" ELSE Finish(res')
  /\ KeepCur
  /\ UNCHANGED <<sessions, next, prev, asset, sdqu, sent, given, cut>>

(* message_parse, one message, as long as there are whole ones.            *)
Parse ==
  /\ pc = "Parse"
  /\ LET m == data[2]
         entry == [timestamp |-> m.first_word, price |-> m.second_word]
         mean == PricesQuery(asset[ca], m.first_word, m.second_word)
     IN /\ sdqu' = IF m.type = "Q" THEN sdqu \o <<mean, mean>> ELSE sdqu
        /\ asset' = IF m.type = "I" /\ ~Duplicate(asset[ca], m.first_word)
                      THEN [asset EXCEPT ![ca] = Push(@, entry)] ELSE asset
  /\ data' = IF Len(data) < 4 THEN <<>> ELSE SubSeq(data, 3, Len(data))
  /\ pc' = CASE data' # <<>> -> "Parse"
             [] data' = <<>> /\ sdqu' # <<>> -> "Send"
             [] data' = <<>> /\ sdqu' = <<>> -> Finish(res)
  /\ KeepCur
  /\ UNCHANGED <<res, startVars, netVars, listVars, recv_qu, sent,
                 given, cut>>

Send ==
  /\ pc = "Send"
  /\ \E o \in SendAll(Len(sdqu)) :
       /\ peer[cur] = "reset" => o = [sent |-> 0, failed |-> TRUE]
       /\ given' = [given EXCEPT ![cur] = @ \o SubSeq(sdqu, 1, o.sent)]
       /\ cut' = IF o.sent < Len(sdqu) THEN cut \union {cur} ELSE cut
       /\ pc' = IF o.failed THEN "Close" ELSE Finish(res)
  /\ sdqu' = <<>>
  /\ KeepCur
  /\ UNCHANGED <<res, startVars, netVars, listVars, asset, recv_qu, data, sent>>

KilledBySend == pc = "Send" /\ Killed /\ UNCHANGED meansVars

(* clients_session_remove and fd_poll_del_and_close.                       *)
RemoveAndClose ==
  /\ Close
  /\ RemoveSession(cur)
  /\ UNCHANGED <<asset, recv_qu, data, sdqu, sent, given, cut>>

(* epoll_wait has waited in vain: everything is closed and freed.          *)
Timeout ==
  /\ pc = "Wait" /\ ready = <<>>
  /\ pc' = "Done"
  /\ FreeAll
  /\ UNCHANGED <<cur, res, startVars, netVars, next, prev, asset, recv_qu, data,
                 sdqu, sent, given, cut>>

Rest == pc \in {"Exit", "Done"} /\ UNCHANGED vars

Server ==
  \/ (Start \/ Wait) /\ UNCHANGED meansVars
  \/ AcceptAndAdd \/ Recv \/ Parse \/ Send \/ RemoveAndClose

Environment ==
  \/ \E c \in Conns :
       \/ \E m \in Messages : PeerSends(c, m)
       \/ /\ \/ Load + 2 <= MaxLoad /\ Connect(c)
             \/ \E how \in {"shut", "reset"} : HangUp(c, how)
          /\ UNCHANGED meansVars
  \/ AcceptFails /\ UNCHANGED meansVars
  \/ Timeout \/ KilledBySend

Next == Server \/ Environment \/ Rest

Spec == Init /\ [][Next]_vars

-----------------------------------------------------------------------------
(* Properties.                                                             *)

TypeOK ==
  /\ SocketsType
  /\ ca \in Conns \union {None} /\ sessions \subseteq Conns
  /\ {next, prev} \subseteq [Conns -> Conns \union {None}]
  /\ sent \in [Conns -> Nat]
  /\ cut \subseteq Conns

(* The sessions are those of the open connections, linked both ways into   *)
(* one list, and the cursor is in it: so that the session of an event is   *)
(* found, no freed one is followed, and the server that times out has      *)
(* freed them all (client-session.c, main.c 91-118).                       *)
ListInv ==
  /\ TypeOK
  /\ pc = "Done" => sessions = {}
  /\ pc \notin {"Exit", "Done"} =>
       /\ pc = "Recv" => Found(cur)
       /\ sessions = open
       /\ (ca = None) = (sessions = {})
       /\ \A s, t \in Conns : next[s] = t <=> prev[t] = s
       /\ sessions # {} => Chain(next, GetBeg(ca)) = sessions

(* What is processed is whole messages, cut where the peer cut them,       *)
(* although data comes in pieces and the code goes by the number of bytes  *)
(* alone (main.c 136-150).                                                 *)
Framed ==
  \A i \in DOMAIN data : data[i] = FirstHalf <=> i % 2 = 1

(* Where a connection is.  One that is yet to be accepted has no events    *)
(* and an empty queue; the one being served is neither new nor closed.     *)
PlaceInv ==
  /\ ready \in Seq(Conns \union {Listener})
  /\ backlog \in Seq(Conns)
  /\ peer \in [Conns -> {"none", "open", "shut", "reset", "gone"}]
  /\ \A i, j \in DOMAIN backlog : i # j => backlog[i] # backlog[j]
  /\ \A c \in Conns :
       /\ peer[c] = "none" => c \notin Range(backlog)
       /\ peer[c] = "none" \/ c \in Range(backlog) =>
            c \notin open /\ c \notin Range(ready) /\ recv_qu[c] = <<>>
       /\ peer[c] \in {"none", "gone"} => inbox[c] = <<>>
  /\ pc = "Accept" => backlog # <<>>
  /\ pc \in {"Recv", "Parse", "Send", "Close"} =>
       cur \in Conns \ Range(backlog) /\ peer[cur] \notin {"none", "gone"}

(* First and second halves, of which n came before.                        *)
Half == Messages \union {FirstHalf}
Halves(s, n) ==
  /\ s \in Seq(Half)
  /\ \A i \in 1..Len(s) : s[i] = FirstHalf <=> (n + i) % 2 = 1

(* What has been received of a connection and not been processed begins    *)
(* with a first half, however it is divided.                               *)
PartsInv ==
  /\ sent \in [Conns -> Nat]
  /\ {inbox, recv_qu} \subseteq [Conns -> Seq(Half)]
  /\ \A c \in Conns : peer[c] # "gone" =>
       /\ Halves(recv_qu[c], 0) /\ Halves(inbox[c], Len(recv_qu[c]))
       /\ (sent[c] + Len(recv_qu[c]) + Len(inbox[c])) % 2 = 0
  /\ Halves(data, 0) /\ Len(data) % 2 = 0
  /\ pc = "Parse" => data # <<>>

(* The prices of a session lie in the array allocated for them             *)
(* (asset-prices.c 57-62).                                                 *)
PricesInv ==
  /\ asset \in [Conns -> [prices : Seq([timestamp : Int, price : Int]),
                          capacity : Nat]]
  /\ \A c \in Conns : Len(asset[c].prices) < asset[c].capacity

(* A queue that is kept ends in half a message, unless a receive failed.   *)
OddInv ==
  \A c \in Conns :
    \/ recv_qu[c] = <<>> \/ Len(recv_qu[c]) % 2 = 1
    \/ peer[c] = "gone" \/ (pc = "Close" /\ cur = c)

(* Connections are accepted in the order of their numbers, and closed only *)
(* after that.                                                             *)
OrderInv ==
  /\ \A i, j \in DOMAIN backlog : i < j => backlog[i] < backlog[j]
  /\ \A c \in open : \A i \in DOMAIN backlog : c < backlog[i]
  /\ \A c, d \in Conns : peer[c] # "none" /\ peer[d] = "none" => c < d
  /\ \A c \in open \union Range(backlog) : peer[c] # "gone"

(* So the list is in this order too: a session's neighbours are the next   *)
(* smaller and the next greater one, and the list has two ends.            *)
Adjacent(s, t) ==
  s < t /\ \A u \in sessions : u <= s \/ t <= u

LinkInv ==
  /\ ca \in sessions \union {None} /\ (ca = None) = (sessions = {})
  /\ \A s \in sessions :
       /\ \/ next[s] \in sessions /\ Adjacent(s, next[s])
          \/ next[s] = None /\ \A u \in sessions : u <= s
       /\ \/ prev[s] \in sessions /\ Adjacent(prev[s], s)
          \/ prev[s] = None /\ \A u \in sessions : s <= u
  /\ \A s \in Conns \ sessions : next[s] = None /\ prev[s] = None
  /\ sessions # {} => /\ \E s \in sessions : \A u \in sessions : s <= u
                     /\ \E s \in sessions : \A u \in sessions : u <= s

SessionsInv ==
  /\ pc = "Done" => sessions = {}
  /\ pc \notin {"Exit", "Done"} => sessions = open /\ LinkInv

(* Answers are queued only for the connection being served, whose session  *)
(* the cursor is at, and a list has one price for a time.                  *)
AnswersInv ==
  /\ pc \notin {"Parse", "Send", "Exit", "Done"} => sdqu = <<>>
  /\ pc = "Send" => sdqu # <<>>
  /\ pc = "Parse" => ca = cur
  /\ \A c \in Conns : \A i, j \in DOMAIN asset[c].prices :
       asset[c].prices[i].timestamp = asset[c].prices[j].timestamp => i = j

(* The inductive invariant of MeansServerProofs: prices fit and messages   *)
(* are framed because of where connections are and what they have sent;    *)
(* nothing is forgotten because events are kept; the list is in order; and *)
(* answers are of one session.                                             *)
MeansInv ==
  /\ TypeOK /\ OneSocket /\ PlaceInv /\ PartsInv /\ PricesInv
  /\ EventInv /\ OddInv /\ OrderInv /\ SessionsInv /\ AnswersInv

(* When the server has nothing more to do, a connection whose peer has not *)
(* sent half a message has no message waiting.  One that has may, however  *)
(* many whole ones came before it (main.c 138).                            *)
WholeIsProcessed ==
  (pc = "Wait" /\ ready = <<>>) =>
    \A c \in open : sent[c] % 2 = 0 => recv_qu[c] = <<>> /\ inbox[c] = <<>>

(* Each connection is served from a book of its own: what the list, its    *)
(* cursor and the shared send queue amount to is MeansService.             *)
served == IF pc \in {"Exit", "Done"} THEN {} ELSE sessions

Books ==
  [c \in Conns |-> IF c \in served THEN Range(asset[c].prices) ELSE {}]

Dues == [c \in Conns |-> IF c = cur /\ pc \in {"Parse", "Send"} THEN sdqu
                                                                ELSE <<>>]

Service == INSTANCE MeansService WITH
  live <- served, book <- Books, due <- Dues,
  Times <- {m.first_word : m \in Messages} \union
           {m.second_word : m \in {q \in Messages : q.type = "Q"}},
  Prices <- {m.second_word : m \in {i \in Messages : i.type = "I"}}

ImplementsMeansService == Service!Spec

(* The answer to a query is the mean over the prices, whatever their order,*)
(* rounded towards zero, for lists of up to three prices with different    *)
(* times (asset-prices.c 81-104).  It is about no state: one is enough.    *)
QueryByDefinition ==
  pc = "Resolve" =>
    \A times \in {<<>>, <<1>>, <<2, 1>>, <<1, 2, 3>>, <<3, 1, 2>>} :
      \A prices \in [DOMAIN times -> {-3, 0, 1, 4}], from, to \in 0..3 :
        LET entries == [i \in DOMAIN times |-> [timestamp |-> times[i],
                                                price |-> prices[i]]]
        IN PricesQuery([prices |-> entries, capacity |-> 4], from, to)
             = Service!Mean(Range(entries), from, to)
=============================================================================
