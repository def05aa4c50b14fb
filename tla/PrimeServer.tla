------------------------------ MODULE PrimeServer ------------------------------
(***************************************************************************)
(* The C prime-time server: c/source/prime-time/main.c and                 *)
(* is-prime-request.c.                                                     *)
(*                                                                         *)
(* One queue takes what all connections send, another what is to be sent.  *)
(* As soon as the first has a newline, all of it is cut into lines, and    *)
(* each line answered to the connection whose event is being handled.  A   *)
(* malformed line is the last to be answered.                              *)
(*                                                                         *)
(* A line is received in three pieces: the head and the rest of a JSON     *)
(* text, and the newline.  A reply is sent in two units.                   *)
(***************************************************************************)
EXTENDS CSockets, Integers, FiniteSets

CONSTANTS
  Requests,   (* the lines peers may send, as records                       *)
  MaxInt,     (* the largest number the program's integers hold             *)
  MaxPieces   (* bound: pieces the peers send, taken together               *)

ASSUME PrimeAssumption ==
  /\ Requests \subseteq [json : BOOLEAN,
                         method : {"absent", "number", "isPrime", "isPrimes",
                                   "other"},
                         type : {"absent", "string", "double", "int", "big"},
                         value : Int]
  /\ MaxInt \in Nat /\ MaxPieces \in Nat

VARIABLES
  rcqu,       (* the queue of received pieces                               *)
  sdqu,       (* the queue of units to be sent                              *)
  result,     (* handle_request returned a positive number                  *)
  ask,        (* history: the lines each peer has sent, but for the newline *)
  sent,       (* history: number of pieces each peer has sent               *)
  answers,    (* history: the units each peer has been sent                 *)
  cut,        (* history: connections whose replies were not all sent       *)
  failed,     (* history: a receive has failed and left data in the queue   *)
  torn        (* history: lines of several connections, or an unfinished    *)
              (* line, have been in the queue when it was processed         *)

primeVars == <<rcqu, sdqu, result, ask, sent, answers, cut, failed, torn>>
vars == <<socketVars, primeVars>>

Init ==
  /\ SocketsInit
  /\ rcqu = <<>> /\ sdqu = <<>>
  /\ result = TRUE
  /\ ask = [c \in Conns |-> <<>>]
  /\ sent = [c \in Conns |-> 0]
  /\ answers = [c \in Conns |-> <<>>]
  /\ cut = {} /\ failed = FALSE /\ torn = FALSE

-----------------------------------------------------------------------------
(* is-prime-request.c: one request.                                        *)

(* is_prime_request_malformed.  The method is compared up to the length of *)
(* "isPrime".                                                              *)
Malformed(req) ==
  \/ ~req.json
  \/ req.method \notin {"isPrime", "isPrimes"}
  \/ req.type \notin {"double", "int", "big"}

(* Mutant: a square is not divided by its root.                            *)
IsPrimeStrict(n) ==
  LET from[i \in Nat] ==
        IF i * i > MaxInt THEN BOOLEAN
        ELSE IF i * i >= n THEN {TRUE}
        ELSE IF n % i = 0 THEN {FALSE}
        ELSE from[i + 1]
  IN IF n <= 1 THEN {FALSE} ELSE from[2]

(* is_prime_f: what it may return.  An overflow of i * i is undefined.     *)
IsPrimeF(n) ==
  LET from[i \in Nat] ==
        IF i * i > MaxInt THEN BOOLEAN
        ELSE IF i * i > n THEN {TRUE}
        ELSE IF n % i = 0 THEN {FALSE}
        ELSE from[i + 1]
  IN IF n <= 1 THEN {FALSE} ELSE from[2]

Reply == {"true", "false", "malformed"}

(* The reply to a request.  A double is not prime; for an integer out of   *)
(* range it is up to json-c whether it reports an error.                   *)
Replies(req) ==
  IF Malformed(req) THEN {"malformed"}
  ELSE CASE req.type = "double" -> {"false"}
         [] req.type = "big" -> {"false", "malformed"}
         [] req.type = "int" ->
              {IF p THEN "true" ELSE "false" : p \in IsPrimeF(req.value)}

-----------------------------------------------------------------------------
(* is_prime_request_builder: a buffer of pieces.                           *)

Newline(piece) == piece.part = "end"

(* Mutant: the search leaves out the last byte.                            *)
HasNewlineBeforeLast(buf) == \E i \in DOMAIN buf : i < Len(buf) /\ Newline(buf[i])

HasNewline(buf) == \E i \in DOMAIN buf : Newline(buf[i])

(* Where the tokens of strtok_r begin: it skips empty lines.               *)
Starts(buf) ==
  {i \in DOMAIN buf : ~Newline(buf[i]) /\ (i = 1 \/ Newline(buf[i - 1]))}

(* The replies that the token at i may get.  json-c reads one text and     *)
(* ignores what follows it.  A token that does not begin with a whole line *)
(* may be anything; so may one that is not JSON but goes on with other     *)
(* data, be it what an earlier receive has left behind the buffer's end.   *)
TokenReplies(buf, i) ==
  LET req == ask[buf[i].conn][buf[i].line]
      whole == /\ i + 1 \in DOMAIN buf
               /\ buf[i].part = "head"
               /\ buf[i + 1] = [buf[i] EXCEPT !.part = "rest"]
      ended == i + 2 \in DOMAIN buf /\ Newline(buf[i + 2])
  IN IF whole /\ (ended \/ "malformed" \notin Replies(req))
       THEN Replies(req)
       ELSE Reply

(* How many tokens there are up to i.                                      *)
Place(buf, i) == Cardinality({j \in Starts(buf) : j <= i})

(* The replies to the tokens, in their order, up to a malformed one.       *)
BufferReplies(buf) ==
  LET n == Cardinality(Starts(buf)) IN
  {rs \in UNION {[1..m -> Reply] : m \in 0..n} :
     /\ \A i \in Starts(buf) :
          Place(buf, i) \in DOMAIN rs =>
            rs[Place(buf, i)] \in TokenReplies(buf, i)
     /\ \A i \in 1..(Len(rs) - 1) : rs[i] # "malformed"
     /\ Len(rs) = n \/ (rs # <<>> /\ Last(rs) = "malformed")}

Units(rs) == [i \in 1..(2 * Len(rs)) |-> rs[(i + 1) \div 2]]

-----------------------------------------------------------------------------
(* Peers.                                                                  *)

(* The n-th piece that c's peer sends.                                     *)
Piece(c, n) ==
  [conn |-> c, line |-> ((n - 1) \div 3) + 1,
   part |-> <<"head", "rest", "end">>[((n - 1) % 3) + 1]]

(* The next piece of a peer's lines.  The rest makes it the line it is.    *)
PeerSends(c, req) ==
  LET piece == Piece(c, sent[c] + 1) IN
  /\ FoldFunction(+, 0, sent) < MaxPieces
  /\ ask' = IF piece.part = "rest" THEN [ask EXCEPT ![c] = Append(@, req)]
                                   ELSE ask
  /\ Deliver(c, <<piece>>)
  /\ sent' = [sent EXCEPT ![c] = @ + 1]
  /\ UNCHANGED <<rcqu, sdqu, result, answers, cut, failed, torn>>

-----------------------------------------------------------------------------
(* The server.                                                             *)

Finish(r) == IF r = "again" THEN "Wait" ELSE "Close"

(* Mutant: the queue is processed only when it ends in a newline.          *)
RecvWantsEnd ==
  /\ pc = "Recv"
  /\ Received
  /\ rcqu' = rcqu \o inbox[cur]
  /\ pc' = CASE res' = "error" -> "Close"
             [] res' # "error" /\ rcqu' # <<>> /\ Newline(Last(rcqu')) -> "Handle"
             [] OTHER -> Finish(res')
  /\ failed' = (failed \/ (res' = "error" /\ rcqu' # <<>>))
  /\ torn' = (torn \/ \E i \in DOMAIN rcqu' : rcqu'[i].conn # cur)
  /\ KeepCur
  /\ UNCHANGED <<sdqu, result, ask, sent, answers, cut>>

(* An error leaves the queue as it is.  Otherwise all of it is processed   *)
(* if there is a newline anywhere in it.                                   *)
Recv ==
  /\ pc = "Recv"
  /\ Received
  /\ rcqu' = rcqu \o inbox[cur]
  /\ pc' = CASE res' = "error" -> "Close"
             [] res' # "error" /\ HasNewline(rcqu') -> "Handle"
             [] OTHER -> Finish(res')
  /\ failed' = (failed \/ (res' = "error" /\ rcqu' # <<>>))
  /\ torn' = \/ torn
             \/ \E i \in DOMAIN rcqu' : rcqu'[i].conn # cur
             \/ HasNewline(rcqu') /\ ~Newline(Last(rcqu'))
  /\ KeepCur
  /\ UNCHANGED <<sdqu, result, ask, sent, answers, cut>>

(* handle_request: no token is an error, a malformed one ends it.          *)
Handle ==
  /\ pc = "Handle"
  /\ \E rs \in BufferReplies(rcqu) :
       /\ sdqu' = sdqu \o Units(rs)
       /\ result' = (rs # <<>> /\ Last(rs) # "malformed")
       /\ pc' = CASE rs # <<>> -> "Send"
                  [] rs = <<>> -> "Close"
  /\ rcqu' = <<>>
  /\ UNCHANGED <<cur, res, startVars, netVars, ask, sent, answers, cut, failed,
                 torn>>

(* Mutant: the replies stay in their queue when sending fails.             *)
SendKeeps ==
  /\ pc = "Send"
  /\ \E o \in SendAll(Len(sdqu)) :
       /\ peer[cur] = "reset" => o = [sent |-> 0, failed |-> TRUE]
       /\ answers' = [answers EXCEPT ![cur] = @ \o SubSeq(sdqu, 1, o.sent)]
       /\ cut' = IF o.sent < Len(sdqu) THEN cut \union {cur} ELSE cut
       /\ pc' = IF result /\ ~o.failed THEN Finish(res) ELSE "Close"
       /\ sdqu' = IF o.failed THEN sdqu ELSE <<>>
  /\ KeepCur
  /\ UNCHANGED <<res, startVars, netVars, rcqu, result, ask, sent, failed, torn>>

(* Mutant: the connection stays open after a malformed request.            *)
SendStaysOpen ==
  /\ pc = "Send"
  /\ \E o \in SendAll(Len(sdqu)) :
       /\ peer[cur] = "reset" => o = [sent |-> 0, failed |-> TRUE]
       /\ answers' = [answers EXCEPT ![cur] = @ \o SubSeq(sdqu, 1, o.sent)]
       /\ cut' = IF o.sent < Len(sdqu) THEN cut \union {cur} ELSE cut
       /\ pc' = IF ~o.failed THEN Finish(res) ELSE "Close"
  /\ sdqu' = <<>>
  /\ KeepCur
  /\ UNCHANGED <<res, startVars, netVars, rcqu, result, ask, sent, failed, torn>>

(* The send queue is popped and goes to sendall.                           *)
Send ==
  /\ pc = "Send"
  /\ \E o \in SendAll(Len(sdqu)) :
       /\ peer[cur] = "reset" => o = [sent |-> 0, failed |-> TRUE]
       /\ answers' = [answers EXCEPT ![cur] = @ \o SubSeq(sdqu, 1, o.sent)]
       /\ cut' = IF o.sent < Len(sdqu) THEN cut \union {cur} ELSE cut
       /\ pc' = IF result /\ ~o.failed THEN Finish(res) ELSE "Close"
  /\ sdqu' = <<>>
  /\ KeepCur
  /\ UNCHANGED <<res, startVars, netVars, rcqu, result, ask, sent, failed, torn>>

KilledBySend == pc = "Send" /\ Killed /\ UNCHANGED primeVars

Rest ==
  /\ pc = "Exit" \/ (pc = "Wait" /\ ready = <<>>)
  /\ UNCHANGED vars

Server ==
  \/ (Start \/ Wait \/ Accept \/ Close) /\ UNCHANGED primeVars
  \/ Recv \/ Handle \/ Send

Environment ==
  \/ \E c \in Conns :
       \/ \E req \in Requests : PeerSends(c, req)
       \/ /\ Connect(c) \/ \E how \in {"shut", "reset"} : HangUp(c, how)
          /\ UNCHANGED primeVars
  \/ AcceptFails /\ UNCHANGED primeVars
  \/ KilledBySend

Next == Server \/ Environment \/ Rest

Spec == Init /\ [][Next]_vars

-----------------------------------------------------------------------------
(* Properties.                                                             *)

Pieces == [conn : Conns, line : Nat, part : {"head", "rest", "end"}]

TypeOK ==
  /\ SocketsType
  /\ inbox \in [Conns -> Seq(Pieces)]
  /\ rcqu \in Seq(Pieces) /\ sdqu \in Seq(Reply)
  /\ ask \in [Conns -> Seq(Requests)]
  /\ sent \in [Conns -> Nat]
  /\ answers \in [Conns -> Seq(Reply)]
  /\ cut \subseteq Conns
  /\ {result, failed, torn} \subseteq BOOLEAN

(* The replies a peer gets are those to its own lines, in their order and  *)
(* none left out, whatever pieces the lines come in and however many come  *)
(* at once: as long as the shared queue has not held data of another       *)
(* connection or an unfinished line when it was processed (main.c 119-173).*)
AnswersAreOwn ==
  ~torn =>
    \A c \in Conns \ cut : \A i \in DOMAIN answers[c] :
      /\ (i + 1) \div 2 \in DOMAIN ask[c]
      /\ answers[c][i] \in Replies(ask[c][(i + 1) \div 2])

(* The reply to a malformed request is the last thing that a peer is sent, *)
(* whatever has been in the queue (is-prime-request.c 59-63, main.c 157).  *)
MalformedEnds(units) ==
  \A i, j \in DOMAIN units :
    (i < j /\ units[i] = "malformed") => j = i + 1 /\ units[j] = "malformed"

MalformedIsLast == \A c \in Conns : MalformedEnds(answers[c])

(* While the server waits no reply is left to be sent, which would go to   *)
(* the next connection, and no complete request is left in the queue,      *)
(* unless a receive has failed: then it stays there for whichever          *)
(* connection is served next (main.c 127-148).                             *)
QueuesAreDone ==
  pc = "Wait" => sdqu = <<>> /\ (failed \/ ~HasNewline(rcqu))

(* When the server has nothing more to do, each peer has the replies to    *)
(* all lines it has completed, unless its connection has ended or its      *)
(* replies were cut off: no event is lost between the edge-triggered       *)
(* events of main.c 101-178, and none is spent on half of what is there.   *)
LinesAreAnswered ==
  (pc = "Wait" /\ ready = <<>> /\ ~torn) =>
    \A c \in Conns :
      \/ Len(answers[c]) >= 2 * (sent[c] \div 3)
      \/ peer[c] = "gone" \/ c \in cut

(* The event being handled is of a connection whose peer is there, and     *)
(* only such peers have sent anything that is yet to be received.          *)
CurInv ==
  /\ pc = "Accept" => backlog # <<>>
  /\ pc \in {"Recv", "Handle", "Send", "Close"} =>
       cur \in Conns /\ peer[cur] \in {"open", "shut", "reset"}
  /\ \A c \in Conns :
       /\ peer[c] \in {"none", "gone"} => inbox[c] = <<>>
       /\ peer[c] = "none" => sent[c] = 0

(* Replies are queued only to be sent, and a connection that has been sent *)
(* one to a malformed request is about to be closed.                       *)
ReplyInv ==
  /\ pc \notin {"Send", "Exit"} => sdqu = <<>>
  /\ pc = "Send" =>
       MalformedEnds(sdqu) /\ (result => "malformed" \notin Range(sdqu))
  /\ \A c \in Conns : "malformed" \in Range(answers[c]) =>
       peer[c] = "gone" \/ (pc = "Close" /\ cur = c)
  /\ MalformedIsLast

(* What the server has taken of a connection's pieces, and which of these  *)
(* are in the queue, as long as all that are there are of one connection.  *)
Taken(c) == sent[c] - Len(inbox[c])
Held(c) == IF rcqu # <<>> /\ rcqu[1].conn = c THEN Len(rcqu) ELSE 0
Done(c) == Taken(c) - Held(c)

(* What has been received is the last that was sent, what is in the queue  *)
(* the last that was taken, and what was taken before are whole lines.     *)
PieceInv ==
  \A c \in Conns :
    /\ Taken(c) >= 0 /\ Len(ask[c]) = (sent[c] + 1) \div 3
    /\ \A i \in DOMAIN inbox[c] : inbox[c][i] = Piece(c, Taken(c) + i)
    /\ ~torn /\ peer[c] # "gone" =>
         /\ Done(c) >= 0 /\ Done(c) % 3 = 0
         /\ Held(c) # 0 => \A i \in DOMAIN rcqu : rcqu[i] = Piece(c, Done(c) + i)

(* The queue is processed as soon as it has a line, and then is of whole   *)
(* lines of the connection being served, as long as it is not torn.        *)
LineInv ==
  /\ pc = "Handle" =>
       /\ HasNewline(rcqu)
       /\ ~torn => Newline(Last(rcqu)) /\ \A i \in DOMAIN rcqu : rcqu[i].conn = cur
  /\ ~failed /\ HasNewline(rcqu) => pc = "Handle"
  /\ ~torn /\ HasNewline(rcqu) =>
       \/ pc \in {"Handle", "Close"} /\ rcqu[1].conn = cur
       \/ peer[rcqu[1].conn] = "gone"

(* Each unit is of the reply to the line it stands for when n precede it.  *)
OwnUnits(units, c, n) ==
  \A i \in DOMAIN units :
    /\ (n + i + 1) \div 2 \in DOMAIN ask[c]
    /\ units[i] \in Replies(ask[c][(n + i + 1) \div 2])

(* As many lines are answered, or their replies about to be sent, as have  *)
(* left the queue, unless the connection is to be closed.                  *)
AnswerInv ==
  ~torn => \A c \in Conns \ cut :
    /\ OwnUnits(answers[c], c, 0)
    /\ (pc = "Send" /\ cur = c) =>
         /\ OwnUnits(sdqu, c, Len(answers[c]))
         /\ result => Len(answers[c]) + Len(sdqu) = 2 * (Done(c) \div 3)
    /\ ~(pc \in {"Send", "Close", "Exit"} /\ cur = c) /\ peer[c] # "gone" =>
         Len(answers[c]) = 2 * (Done(c) \div 3)

(* The inductive invariant of PrimeServerProofs: whose the queued data is, *)
(* how far each connection's lines have come, and that events are kept.    *)
PrimeInv ==
  /\ TypeOK /\ OneSocket /\ CurInv /\ EventInv /\ ReplyInv
  /\ PieceInv /\ LineInv /\ AnswerInv
  /\ QueuesAreDone

(* is_prime_f is the textbook definition of a prime, but for the primes    *)
(* that are so large that the next root to try has no square in range      *)
(* (is-prime-request.c 177).  It is about no state: one is enough.         *)
PrimeByDefinition ==
  pc = "Resolve" => \A n \in 0..MaxInt :
    LET prime == n > 1 /\ \A d \in 2..(n - 1) : n % d # 0
        next == \E r \in 1..n : r * r > n /\ r * r <= MaxInt
    IN IsPrimeF(n) = IF prime /\ ~next THEN BOOLEAN ELSE {prime}
=============================================================================
