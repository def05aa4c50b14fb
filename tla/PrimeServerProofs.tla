--------------------------- MODULE PrimeServerProofs ---------------------------
(***************************************************************************)
(* Proofs about PrimeServer for any connections, requests and bounds: its  *)
(* inductive invariant, conjunct by conjunct, from which replies go to the *)
(* lines they are for, a malformed line is the last, and none waits; and   *)
(* that its test for primes is the textbook's.                             *)
(***************************************************************************)
EXTENDS PrimeServer, FiniteSetTheorems, WellFoundedInduction, TLAPS

-----------------------------------------------------------------------------
(* The elements of a sequence when one comes or goes.                      *)

LEMMA AppendRange ==
  ASSUME NEW S, NEW s \in Seq(S), NEW e \in S
  PROVE  /\ Append(s, e) \in Seq(S) /\ Append(s, e) # <<>>
         /\ Range(Append(s, e)) = Range(s) \union {e}
<1>1. /\ Append(s, e) \in Seq(S) /\ Len(Append(s, e)) = Len(s) + 1
      /\ Len(s) \in Nat /\ DOMAIN s = 1..Len(s)
      /\ DOMAIN Append(s, e) = 1..(Len(s) + 1)
      /\ Append(s, e)[Len(s) + 1] = e
      /\ \A i \in 1..Len(s) : Append(s, e)[i] = s[i]
  OBVIOUS
<1>2. Append(s, e) # <<>>
  BY <1>1
<1>3. \A i : i \in 1..(Len(s) + 1) <=> i \in 1..Len(s) \/ i = Len(s) + 1
  BY <1>1
<1> QED
  BY <1>1, <1>2, <1>3, Zenon DEF Range

LEMMA TailRange ==
  ASSUME NEW S, NEW s \in Seq(S), s # <<>>
  PROVE  /\ Head(s) \in S /\ Head(s) \in Range(s)
         /\ Tail(s) \in Seq(S)
         /\ Range(Tail(s)) \subseteq Range(s)
         /\ \A i \in DOMAIN Tail(s) : i + 1 \in DOMAIN s /\ Tail(s)[i] = s[i + 1]
<1>1. 1 \in DOMAIN s /\ Head(s) = s[1] /\ Tail(s) \in Seq(S) /\ Head(s) \in S
  OBVIOUS
<1>2. \A i \in DOMAIN Tail(s) : i + 1 \in DOMAIN s /\ Tail(s)[i] = s[i + 1]
  OBVIOUS
<1> QED
  BY <1>1, <1>2 DEF Range

LEMMA RemoveAtRange ==
  ASSUME NEW S, NEW s \in Seq(S), NEW i \in DOMAIN s
  PROVE  /\ RemoveAt(s, i) \in Seq(S)
         /\ Range(RemoveAt(s, i)) \subseteq Range(s)
<1> DEFINE a == SubSeq(s, 1, i - 1)
           b == SubSeq(s, i + 1, Len(s))
<1>1. a \in Seq(S) /\ \A j \in DOMAIN a : j \in DOMAIN s /\ a[j] = s[j]
  OBVIOUS
<1>2. b \in Seq(S) /\ \A j \in DOMAIN b : i + j \in DOMAIN s /\ b[j] = s[i + j]
  OBVIOUS
<1>3. RemoveAt(s, i) = a \o b
  BY DEF RemoveAt
<1> HIDE DEF a, b
<1>4. a \o b \in Seq(S)
  BY <1>1, <1>2
<1>5. ASSUME NEW j \in DOMAIN (a \o b) PROVE (a \o b)[j] \in Range(s)
  <2>1. CASE j <= Len(a)
    <3>1. j \in DOMAIN a /\ (a \o b)[j] = a[j]
      BY <1>1, <1>2, <2>1
    <3> QED
      BY <1>1, <3>1 DEF Range
  <2>2. CASE j > Len(a)
    <3>1. j - Len(a) \in DOMAIN b /\ (a \o b)[j] = b[j - Len(a)]
      BY <1>1, <1>2, <2>2
    <3> QED
      BY <1>2, <3>1 DEF Range
  <2> QED
    BY <1>1, <1>4, <2>1, <2>2
<1> QED
  BY <1>3, <1>4, <1>5 DEF Range

-----------------------------------------------------------------------------
(* The types.                                                              *)

LEMMA NotifiedType ==
  ASSUME SocketsType, NEW fd
  PROVE  Notified(fd) \in Seq(Conns \union {Listener})
BY DEF SocketsType, Notified

(* What Received leaves.                                                   *)
LEMMA ReceivedFacts ==
  ASSUME CurInv, pc = "Recv", Received
  PROVE  /\ cur \in Conns
         /\ inbox' = [inbox EXCEPT ![cur] = <<>>]
         /\ res' \in {"again", "closed", "error"}
         /\ res' = "closed" => peer[cur] \in {"shut", "reset"}
         /\ res' = "error" => peer[cur] = "reset"
         /\ UNCHANGED <<startVars, ready, backlog, open, peer>>
BY DEF Received, CurInv

LEMMA SocketsTypeStep ==
  ASSUME TypeOK, CurInv, OneSocket,
         \/ Start \/ Wait \/ Accept \/ Close \/ AcceptFails
         \/ \E c \in Conns :
              Connect(c) \/ \E how \in {"shut", "reset"} : HangUp(c, how)
  PROVE  SocketsType' /\ inbox' \in [Conns -> Seq(Pieces)]
<1> USE SocketsAssumption DEF SocketsAssumption, TypeOK, SocketsType
<1>1. CASE Resolve
  BY <1>1 DEF Resolve, startVars, netVars
<1>2. CASE Socket
  <2>1. at' \in 1..(Addresses + 1) /\ sockets' \in 0..Addresses
    <3> HIDE DEF TypeOK
    <3>1. sockets = 0 /\ at \in 1..(Addresses + 1)
      BY <1>2 DEF TypeOK, Socket, OneSocket
    <3> QED
      BY <1>2, <3>1 DEF Socket, startVars
  <2> QED
    BY <1>2, <2>1 DEF Socket, netVars
<1>3. CASE Bind
  <2>1. at' \in 1..(Addresses + 1) /\ sockets' \in 0..Addresses
    <3> HIDE DEF TypeOK
    <3>1. sockets = 1 /\ at \in 1..(Addresses + 1) /\ at <= Addresses
      BY <1>3 DEF TypeOK, Bind, OneSocket
    <3> QED
      BY <1>3, <3>1 DEF Bind, startVars
  <2> QED
    BY <1>3, <2>1 DEF Bind, netVars
<1>4. CASE Listen
  BY <1>4 DEF Listen, netVars
<1>5. CASE Wait
  <2>1. /\ cur' \in Conns \union {Listener}
        /\ ready' \in Seq(Conns \union {Listener})
    <3>1. /\ Head(ready) \in Conns \union {Listener}
          /\ Tail(ready) \in Seq(Conns \union {Listener})
          /\ Append(Tail(ready), Head(ready)) \in Seq(Conns \union {Listener})
      BY <1>5 DEF Wait
    <3> QED
      BY <1>5, <3>1 DEF Wait
  <2> QED
    BY <1>5, <2>1 DEF Wait, startVars
<1>6. CASE Accept
  <2>1. /\ open' \subseteq Conns /\ backlog' \in Seq(Conns)
        /\ ready' \in Seq(Conns \union {Listener})
    <3>1. /\ Head(backlog) \in Conns /\ Tail(backlog) \in Seq(Conns)
          /\ Append(ready, Head(backlog)) \in Seq(Conns \union {Listener})
      BY <1>6 DEF Accept, CurInv
    <3> QED
      BY <1>6, <3>1 DEF Accept
  <2> QED
    BY <1>6, <2>1 DEF Accept, startVars
<1>7. CASE Close
  <2>1. ready' \in Seq(Conns \union {Listener})
    BY <1>7, RemoveAtRange DEF Close
  <2>2. cur \in Conns
    BY <1>7 DEF Close, CurInv
  <2>3. /\ cur' \in Conns \union {Listener} /\ open' \subseteq Conns
        /\ peer' \in [Conns -> {"none", "open", "shut", "reset", "gone"}]
        /\ inbox' \in [Conns -> Seq(Pieces)]
    BY <1>7, <2>2 DEF Close, KeepCur
  <2> QED
    BY <1>7, <2>1, <2>3 DEF Close, startVars
<1>8. ASSUME NEW c \in Conns, Connect(c)
      PROVE  SocketsType' /\ inbox' \in [Conns -> Seq(Pieces)]
  <2>1. /\ ready' \in Seq(Conns \union {Listener}) /\ backlog' \in Seq(Conns)
        /\ peer' \in [Conns -> {"none", "open", "shut", "reset", "gone"}]
    <3>1. Append(backlog, c) \in Seq(Conns)
      OBVIOUS
    <3>2. backlog' \in Seq(Conns) /\ ready' \in Seq(Conns \union {Listener})
      BY <1>8, <3>1, NotifiedType DEF Connect
    <3>3. peer' = [peer EXCEPT ![c] = "open"]
      BY <1>8 DEF Connect
    <3> QED
      BY <3>2, <3>3
  <2> QED
    BY <1>8, <2>1 DEF Connect, startVars
<1>9. ASSUME NEW c \in Conns, NEW how \in {"shut", "reset"}, HangUp(c, how)
      PROVE  SocketsType' /\ inbox' \in [Conns -> Seq(Pieces)]
  <2>1. /\ ready' \in Seq(Conns \union {Listener})
        /\ peer' \in [Conns -> {"none", "open", "shut", "reset", "gone"}]
    BY <1>9, NotifiedType DEF HangUp
  <2> QED
    BY <1>9, <2>1 DEF HangUp, startVars
<1>10. CASE AcceptFails
  BY <1>10 DEF AcceptFails, startVars, netVars
<1> QED
  BY <1>1, <1>2, <1>3, <1>4, <1>5, <1>6, <1>7, <1>8, <1>9, <1>10 DEF Start

(* Nothing of what PrimeServer adds changes.                               *)
LEMMA TypeFrame ==
  ASSUME TypeOK, UNCHANGED primeVars, SocketsType',
         inbox' \in [Conns -> Seq(Pieces)]
  PROVE  TypeOK'
BY DEF TypeOK, primeVars, Pieces

LEMMA PieceType ==
  ASSUME NEW c \in Conns, NEW n \in Nat \ {0}
  PROVE  /\ Piece(c, n) \in Pieces /\ Piece(c, n).conn = c
         /\ Piece(c, n).line = ((n - 1) \div 3) + 1
         /\ n % 3 = 1 => Piece(c, n).part = "head"
         /\ n % 3 = 2 => Piece(c, n).part = "rest"
         /\ n % 3 = 0 => Piece(c, n).part = "end"
<1>1. /\ (n - 1) \div 3 \in Nat /\ (n - 1) % 3 \in 0..2
      /\ n % 3 = 1 => (n - 1) % 3 = 0
      /\ n % 3 = 2 => (n - 1) % 3 = 1
      /\ n % 3 = 0 => (n - 1) % 3 = 2
  OBVIOUS
<1>2. PICK r \in 0..2 : r = (n - 1) % 3
  BY <1>1
<1>3. PICK q \in Nat : q = (n - 1) \div 3
  BY <1>1
<1>4. Piece(c, n) = [conn |-> c, line |-> q + 1,
                     part |-> <<"head", "rest", "end">>[r + 1]]
  BY <1>2, <1>3 DEF Piece
<1>5. /\ r = 0 => <<"head", "rest", "end">>[r + 1] = "head"
      /\ r = 1 => <<"head", "rest", "end">>[r + 1] = "rest"
      /\ r = 2 => <<"head", "rest", "end">>[r + 1] = "end"
  OBVIOUS
<1> QED
  BY <1>1, <1>2, <1>3, <1>4, <1>5 DEF Pieces

(* What sendall sends of the units is the first of them.                   *)
LEMMA SentPrefix ==
  ASSUME NEW o \in SendAll(Len(sdqu)), sdqu \in Seq(Reply)
  PROVE  /\ o.sent \in 0..Len(sdqu)
         /\ SubSeq(sdqu, 1, o.sent) \in Seq(Reply)
         /\ Len(SubSeq(sdqu, 1, o.sent)) = o.sent
         /\ \A i \in 1..o.sent : SubSeq(sdqu, 1, o.sent)[i] = sdqu[i]
<1>1. o.sent \in 0..Len(sdqu)
  <2>1. PICK n \in Nat : n = Len(sdqu)
    OBVIOUS
  <2>2. \/ o \in [sent : {k \in 0..n : k = 0 \/ k + 2 <= n}, failed : {TRUE}]
        \/ o \in [sent : {k \in 1..n : n <= 2 * k}, failed : {FALSE}]
    BY <2>1, Zenon DEF SendAll
  <2>3. \/ o.sent \in {k \in 0..n : k = 0 \/ k + 2 <= n}
        \/ o.sent \in {k \in 1..n : n <= 2 * k}
    BY <2>2
  <2> QED
    BY <2>1, <2>3
<1> QED
  BY <1>1

(* The units of a sequence of replies.                                     *)
LEMMA UnitsType ==
  ASSUME NEW rs \in Seq(Reply)
  PROVE  /\ Units(rs) \in Seq(Reply) /\ Len(Units(rs)) = 2 * Len(rs)
         /\ \A i \in 1..(2 * Len(rs)) :
              (i + 1) \div 2 \in 1..Len(rs) /\ Units(rs)[i] = rs[(i + 1) \div 2]
<1>1. Len(rs) \in Nat
  OBVIOUS
<1>2. \A n \in Nat, i \in Nat : i \in 1..(2 * n) => (i + 1) \div 2 \in 1..n
  OBVIOUS
<1>3. \A i \in 1..(2 * Len(rs)) : (i + 1) \div 2 \in 1..Len(rs)
  BY <1>1, <1>2
<1>4. \A j \in 1..Len(rs) : rs[j] \in Reply
  OBVIOUS
<1>5. 2 * Len(rs) \in Nat
  BY <1>1
<1> DEFINE n == 2 * Len(rs)
<1>6. \A i \in 1..n : Units(rs)[i] = rs[(i + 1) \div 2]
  BY DEF Units
<1>7. Units(rs) \in [1..n -> Reply]
  BY <1>3, <1>4 DEF Units
<1> HIDE DEF n
<1>8. n \in Nat
  BY <1>5 DEF n
<1>9. Units(rs) \in Seq(Reply) /\ Len(Units(rs)) = n
  BY <1>7, <1>8
<1> QED
  BY <1>3, <1>6, <1>9 DEF n

(* The replies to a buffer are a sequence.                                 *)
LEMMA RepliesType ==
  ASSUME NEW buf, NEW rs \in BufferReplies(buf)
  PROVE  rs \in Seq(Reply)
BY DEF BufferReplies

LEMMA TypeStep == PrimeInv /\ [Next]_vars => TypeOK'
<1> SUFFICES ASSUME PrimeInv, [Next]_vars PROVE TypeOK'
  OBVIOUS
<1>a. TypeOK /\ CurInv /\ OneSocket
  BY DEF PrimeInv
<1>1. ASSUME UNCHANGED primeVars,
             \/ Start \/ Wait \/ Accept \/ Close \/ AcceptFails
             \/ \E c \in Conns :
                  Connect(c) \/ \E how \in {"shut", "reset"} : HangUp(c, how)
      PROVE  TypeOK'
  BY <1>a, <1>1, SocketsTypeStep, TypeFrame
<1>2. CASE Recv
  <2>1. cur \in Conns /\ inbox[cur] \in Seq(Pieces) /\ <<>> \in Seq(Pieces)
    BY <1>a, <1>2 DEF Recv, CurInv, TypeOK
  <2>2. rcqu' \in Seq(Pieces)
    <3>1. rcqu \in Seq(Pieces) /\ rcqu' = rcqu \o inbox[cur]
      BY <1>a, <1>2 DEF Recv, TypeOK
    <3> QED
      BY <2>1, <3>1
  <2>3. /\ inbox' \in [Conns -> Seq(Pieces)] /\ res' \in {"again", "closed", "error"}
        /\ UNCHANGED <<startVars, ready, backlog, open, peer>>
    BY <1>a, <1>2, <2>1, ReceivedFacts DEF Recv, TypeOK
  <2>4. cur' \in Conns \union {Listener}
    BY <1>2, <2>1 DEF Recv, KeepCur
  <2>5. {failed', torn'} \subseteq BOOLEAN
    BY <1>a, <1>2 DEF Recv, TypeOK
  <2> QED
    BY <1>a, <1>2, <2>2, <2>3, <2>4, <2>5 DEF Recv, startVars, TypeOK, SocketsType
<1>3. CASE Handle
  <2>1. PICK rs \in BufferReplies(rcqu) : sdqu' = sdqu \o Units(rs)
    BY <1>3 DEF Handle
  <2>2. sdqu' \in Seq(Reply)
    <3>1. sdqu \in Seq(Reply) /\ Units(rs) \in Seq(Reply)
      BY <1>a, RepliesType, UnitsType DEF TypeOK
    <3> QED
      BY <2>1, <3>1
  <2>3. rcqu' \in Seq(Pieces) /\ result' \in BOOLEAN
    BY <1>3 DEF Handle
  <2> QED
    BY <1>a, <1>3, <2>2, <2>3 DEF Handle, startVars, netVars, TypeOK, SocketsType
<1>4. CASE Send
  <2>1. PICK o \in SendAll(Len(sdqu)) :
          /\ answers' = [answers EXCEPT ![cur] = @ \o SubSeq(sdqu, 1, o.sent)]
          /\ cut' = IF o.sent < Len(sdqu) THEN cut \union {cur} ELSE cut
    BY <1>4 DEF Send
  <2>2. cur \in Conns
    BY <1>a, <1>4 DEF Send, CurInv
  <2>3. answers' \in [Conns -> Seq(Reply)]
    <3>1. SubSeq(sdqu, 1, o.sent) \in Seq(Reply) /\ answers[cur] \in Seq(Reply)
      BY <1>a, <2>2, SentPrefix DEF TypeOK
    <3>2. answers[cur] \o SubSeq(sdqu, 1, o.sent) \in Seq(Reply)
      BY <3>1
    <3> QED
      BY <1>a, <2>1, <3>2 DEF TypeOK
  <2>4. cut' \subseteq Conns
    BY <1>a, <2>1, <2>2 DEF TypeOK
  <2>5. cur' \in Conns \union {Listener} /\ sdqu' \in Seq(Reply)
    BY <1>4, <2>2 DEF Send, KeepCur
  <2> QED
    BY <1>a, <1>4, <2>3, <2>4, <2>5 DEF Send, startVars, netVars, TypeOK, SocketsType
<1>5. ASSUME NEW c \in Conns, NEW req \in Requests, PeerSends(c, req) PROVE TypeOK'
  <2>1. ready' \in Seq(Conns \union {Listener})
    BY <1>a, <1>5, NotifiedType DEF PeerSends, Deliver, TypeOK
  <2>2. sent' \in [Conns -> Nat]
    <3>1. sent' = [sent EXCEPT ![c] = sent[c] + 1]
      BY <1>5 DEF PeerSends
    <3> QED
      BY <1>a, <3>1 DEF TypeOK
  <2>3. inbox' \in [Conns -> Seq(Pieces)]
    <3> DEFINE piece == Piece(c, sent[c] + 1)
    <3>1. piece \in Pieces
      BY <1>a, PieceType DEF TypeOK
    <3>2. inbox' = [inbox EXCEPT ![c] = inbox[c] \o <<piece>>]
      BY <1>5 DEF PeerSends, Deliver
    <3> HIDE DEF piece
    <3>3. inbox[c] \o <<piece>> \in Seq(Pieces)
      BY <1>a, <3>1 DEF TypeOK
    <3> QED
      BY <1>a, <3>2, <3>3 DEF TypeOK
  <2>4. ask' \in [Conns -> Seq(Requests)]
    <3>1. ask' = ask \/ ask' = [ask EXCEPT ![c] = Append(ask[c], req)]
      BY <1>5 DEF PeerSends
    <3>2. Append(ask[c], req) \in Seq(Requests)
      BY <1>a DEF TypeOK
    <3> QED
      BY <1>a, <3>1, <3>2 DEF TypeOK
  <2> QED
    BY <1>a, <1>5, <2>1, <2>2, <2>3, <2>4
       DEF PeerSends, Deliver, startVars, TypeOK, SocketsType
<1>6. CASE KilledBySend \/ UNCHANGED vars
  <2>1. SocketsType' /\ inbox' = inbox /\ UNCHANGED primeVars
    BY <1>a, <1>6 DEF KilledBySend, Killed, vars, socketVars, startVars, netVars,
                      TypeOK, SocketsType
  <2> QED
    BY <1>a, <2>1, TypeFrame DEF TypeOK
<1> QED
  BY <1>1, <1>2, <1>3, <1>4, <1>5, <1>6 DEF Next, Server, Environment, Rest

-----------------------------------------------------------------------------
(* Sockets, events and the connection that is served.                      *)

LEMMA SocketStep == PrimeInv /\ [Next]_vars => OneSocket'
<1> SUFFICES ASSUME PrimeInv, [Next]_vars PROVE OneSocket'
  OBVIOUS
<1>a. OneSocket /\ TypeOK
  BY DEF PrimeInv
<1> USE DEF OneSocket, Serving
<1>1. CASE Resolve
  BY <1>a, <1>1 DEF Resolve, startVars
<1>2. CASE Socket
  BY <1>a, <1>2 DEF Socket, startVars
<1>3. CASE Bind
  BY <1>a, <1>3 DEF Bind, startVars
<1>4. CASE Listen
  BY <1>a, <1>4 DEF Listen
<1>5. CASE Wait \/ Accept \/ Close
  BY <1>a, <1>5 DEF Wait, Accept, Close, startVars
<1>6. CASE Recv
  BY <1>a, <1>6 DEF Recv, Received, Finish, startVars
<1>7. CASE Handle \/ Send
  <2>1. /\ UNCHANGED startVars /\ pc \in {"Handle", "Send"}
        /\ pc' \in {"Send", "Close", "Wait"}
    BY <1>7 DEF Handle, Send, Finish
  <2> QED
    BY <1>a, <2>1 DEF startVars
<1>8. ASSUME NEW c \in Conns, NEW req \in Requests, PeerSends(c, req)
      PROVE  OneSocket'
  BY <1>a, <1>8 DEF PeerSends, Deliver, startVars
<1>9. ASSUME NEW c \in Conns, NEW how \in {"shut", "reset"},
             Connect(c) \/ HangUp(c, how)
      PROVE  OneSocket'
  BY <1>a, <1>9 DEF Connect, HangUp, startVars
<1>10. CASE AcceptFails \/ KilledBySend
  BY <1>a, <1>10 DEF AcceptFails, KilledBySend, Killed, startVars
<1>11. CASE UNCHANGED vars
  BY <1>a, <1>11 DEF vars, socketVars, startVars
<1> QED
  BY <1>1, <1>2, <1>3, <1>4, <1>5, <1>6, <1>7, <1>8, <1>9, <1>10, <1>11
     DEF Next, Server, Start, Environment, Rest

LEMMA CurStep == PrimeInv /\ [Next]_vars => CurInv'
<1> SUFFICES ASSUME PrimeInv, [Next]_vars PROVE CurInv'
  OBVIOUS
<1>a. CurInv /\ TypeOK
  BY DEF PrimeInv
<1>b. /\ peer \in [Conns -> {"none", "open", "shut", "reset", "gone"}]
      /\ inbox \in [Conns -> Seq(Pieces)] /\ sent \in [Conns -> Nat]
      /\ backlog \in Seq(Conns)
  BY <1>a DEF TypeOK, SocketsType
<1> USE DEF CurInv
<1>1. CASE Start /\ UNCHANGED primeVars
  BY <1>a, <1>1 DEF Start, Resolve, Socket, Bind, Listen, netVars, primeVars
<1>2. CASE Wait /\ UNCHANGED primeVars
  <2>1. ready # <<>> => Head(ready) \in Conns \union {Listener}
    BY <1>a DEF TypeOK, SocketsType
  <2>2. ASSUME pc' = "Recv"
        PROVE  cur' \in Conns /\ peer[cur'] \in {"open", "shut", "reset"}
    <3>1. cur' \in Conns /\ Readable(cur') /\ cur' # Listener
      BY <1>2, <2>1, <2>2 DEF Wait
    <3> QED
      BY <1>a, <1>b, <3>1 DEF Readable
  <2>3. pc' = "Accept" => backlog # <<>>
    BY <1>2 DEF Wait, Readable
  <2>4. /\ pc' \in {"Wait", "Accept", "Recv"}
        /\ UNCHANGED <<backlog, peer, inbox, sent>>
    BY <1>2 DEF Wait, primeVars
  <2> QED
    BY <1>a, <2>2, <2>3, <2>4
<1>3. CASE (Accept \/ AcceptFails) /\ UNCHANGED primeVars
  BY <1>a, <1>3 DEF Accept, AcceptFails, netVars, primeVars
<1>4. CASE Close /\ UNCHANGED primeVars
  <2>1. /\ pc' = "Wait" /\ sent' = sent
        /\ peer' = [peer EXCEPT ![cur] = "gone"]
        /\ inbox' = [inbox EXCEPT ![cur] = <<>>]
    BY <1>4 DEF Close, primeVars
  <2> QED
    BY <1>a, <1>b, <2>1
<1>5. CASE Recv
  <2>1. /\ pc' # "Wait" => cur' = cur
        /\ pc' \in {"Wait", "Handle", "Close"} /\ pc = "Recv"
        /\ UNCHANGED <<sent, peer>> /\ inbox' = [inbox EXCEPT ![cur] = <<>>]
    BY <1>5 DEF Recv, Finish, KeepCur, Received
  <2> QED
    BY <1>a, <1>b, <2>1
<1>6. CASE Handle \/ Send
  <2>1. /\ pc' # "Wait" => cur' = cur
        /\ pc' \in {"Wait", "Send", "Close"} /\ pc \in {"Handle", "Send"}
        /\ UNCHANGED <<sent, peer, inbox>>
    BY <1>6 DEF Handle, Send, Finish, KeepCur, netVars
  <2> QED
    BY <1>a, <2>1
<1>7. ASSUME NEW c \in Conns, NEW req \in Requests, PeerSends(c, req) PROVE CurInv'
  <2>1. /\ UNCHANGED <<pc, cur, peer, backlog>> /\ peer[c] = "open"
        /\ \A d \in Conns : d # c => inbox'[d] = inbox[d] /\ sent'[d] = sent[d]
    BY <1>b, <1>7 DEF PeerSends, Deliver
  <2> QED
    BY <1>a, <2>1
<1>8. ASSUME NEW c \in Conns, Connect(c), UNCHANGED primeVars PROVE CurInv'
  <2>1. /\ UNCHANGED <<pc, cur, inbox, sent>> /\ peer[c] = "none"
        /\ peer' = [peer EXCEPT ![c] = "open"] /\ backlog' = Append(backlog, c)
    BY <1>8 DEF Connect, primeVars
  <2>2. backlog' # <<>>
    BY <1>b, <2>1, AppendRange
  <2> QED
    BY <1>a, <1>b, <2>1, <2>2
<1>9. ASSUME NEW c \in Conns, NEW how \in {"shut", "reset"}, HangUp(c, how),
             UNCHANGED primeVars
      PROVE  CurInv'
  <2>1. /\ UNCHANGED <<pc, cur, inbox, sent, backlog>> /\ peer[c] # "none"
        /\ peer' = [peer EXCEPT ![c] = how]
    BY <1>9 DEF HangUp, primeVars
  <2> QED
    BY <1>a, <1>b, <2>1
<1>10. CASE KilledBySend \/ UNCHANGED vars
  BY <1>a, <1>10 DEF KilledBySend, Killed, vars, socketVars, netVars, primeVars
<1> QED
  BY <1>1, <1>2, <1>3, <1>4, <1>5, <1>6, <1>7, <1>8, <1>9, <1>10
     DEF Next, Server, Environment, Rest

(* What is kept when the first element of a sequence, or any, is removed.  *)
LEMMA TailKeeps ==
  ASSUME NEW S, NEW s \in Seq(S), s # <<>>
  PROVE  Range(s) \subseteq Range(Tail(s)) \union {Head(s)}
<1>1. /\ Head(s) = s[1] /\ DOMAIN s = 1..Len(s) /\ Len(s) \in Nat
      /\ DOMAIN Tail(s) = 1..(Len(s) - 1)
      /\ \A i \in 1..(Len(s) - 1) : Tail(s)[i] = s[i + 1]
  OBVIOUS
<1>2. ASSUME NEW i \in 1..Len(s)
      PROVE  s[i] = Head(s) \/ \E j \in DOMAIN Tail(s) : s[i] = Tail(s)[j]
  <2>1. CASE i = 1
    BY <1>1, <2>1
  <2>2. CASE i # 1
    <3>1. i - 1 \in DOMAIN Tail(s) /\ Tail(s)[i - 1] = s[i]
      BY <1>1, <2>2
    <3> QED
      BY <3>1
  <2> QED
    BY <2>1, <2>2
<1> QED
  BY <1>1, <1>2 DEF Range

LEMMA ConcatElements ==
  ASSUME NEW S, NEW s \in Seq(S), NEW t \in Seq(S)
  PROVE  /\ s \o t \in Seq(S) /\ Len(s \o t) = Len(s) + Len(t)
         /\ \A i \in 1..Len(s) : (s \o t)[i] = s[i]
         /\ \A i \in 1..Len(t) : (s \o t)[Len(s) + i] = t[i]
OBVIOUS

LEMMA RemoveAtKeeps ==
  ASSUME NEW S, NEW s \in Seq(S), NEW i \in DOMAIN s
  PROVE  Range(s) \subseteq Range(RemoveAt(s, i)) \union {s[i]}
<1> DEFINE a == SubSeq(s, 1, i - 1)
           b == SubSeq(s, i + 1, Len(s))
<1>1. /\ i \in 1..Len(s) /\ Len(s) \in Nat /\ DOMAIN s = 1..Len(s)
      /\ a \in Seq(S) /\ Len(a) = i - 1 /\ \A j \in 1..(i - 1) : a[j] = s[j]
  OBVIOUS
<1>2. /\ b \in Seq(S) /\ Len(b) = Len(s) - i
      /\ \A j \in 1..(Len(s) - i) : b[j] = s[i + j]
  OBVIOUS
<1>3. RemoveAt(s, i) = a \o b
  BY DEF RemoveAt
<1> HIDE DEF a, b
<1>4. /\ Len(a \o b) = Len(a) + Len(b) /\ a \o b \in Seq(S)
      /\ \A j \in 1..Len(a) : (a \o b)[j] = a[j]
      /\ \A j \in 1..Len(b) : (a \o b)[Len(a) + j] = b[j]
  <2>1. a \in Seq(S) /\ b \in Seq(S)
    BY <1>1, <1>2
  <2> QED
    BY ONLY <2>1, ConcatElements
<1>5. DOMAIN (a \o b) = 1..(Len(s) - 1)
  <2>1. DOMAIN (a \o b) = 1..Len(a \o b)
    BY <1>4
  <2> QED
    BY <1>1, <1>2, <1>4, <2>1
<1>6. ASSUME NEW j \in 1..Len(s), j # i
      PROVE  \E k \in DOMAIN (a \o b) : (a \o b)[k] = s[j]
  <2>1. CASE j < i
    <3>1. j \in 1..(i - 1) /\ j \in 1..(Len(s) - 1)
      BY <1>1, <2>1
    <3> QED
      BY <1>1, <1>4, <1>5, <3>1
  <2>2. CASE j > i
    <3>1. /\ j - i \in 1..(Len(s) - i) /\ (i - 1) + (j - i) \in 1..(Len(s) - 1)
          /\ i + (j - i) = j
      BY <1>1, <2>2
    <3>2. (a \o b)[(i - 1) + (j - i)] = s[j]
      BY <1>1, <1>2, <1>4, <3>1
    <3> QED
      BY <1>5, <3>1, <3>2
  <2> QED
    BY <1>1, <1>6, <2>1, <2>2
<1> QED
  BY <1>1, <1>3, <1>6 DEF Range

LEMMA NotifiedKeeps ==
  ASSUME SocketsType, NEW fd \in Conns \union {Listener}
  PROVE  /\ Range(ready) \subseteq Range(Notified(fd))
         /\ fd \in open \union {Listener} => fd \in Range(Notified(fd))
<1>1. ready \in Seq(Conns \union {Listener})
  BY DEF SocketsType
<1>2. Range(Append(ready, fd)) = Range(ready) \union {fd}
  BY <1>1, AppendRange
<1> QED
  BY <1>2 DEF Notified

(* No event is lost, and none is added to the backlog, received or closed. *)
LEMMA EventFrame ==
  ASSUME EventInv, UNCHANGED <<backlog, open, peer, inbox>>,
         Range(ready) \subseteq Range(ready'),
         pc = "Recv" => pc' = "Recv" /\ cur' = cur
  PROVE  EventInv'
BY DEF EventInv

LEMMA EventStep == PrimeInv /\ [Next]_vars => EventInv'
<1> SUFFICES ASSUME PrimeInv, [Next]_vars PROVE EventInv'
  OBVIOUS
<1>a. EventInv /\ CurInv /\ SocketsType
  BY DEF PrimeInv, TypeOK
<1>b. /\ ready \in Seq(Conns \union {Listener}) /\ backlog \in Seq(Conns)
      /\ peer \in [Conns -> {"none", "open", "shut", "reset", "gone"}]
      /\ inbox \in [Conns -> Seq(Pieces)] /\ Listener \notin Conns
  BY SocketsAssumption DEF PrimeInv, TypeOK, SocketsType, SocketsAssumption
<1>1. CASE Start \/ AcceptFails \/ Handle \/ Send \/ KilledBySend \/ UNCHANGED vars
  <2>1. /\ UNCHANGED <<ready, backlog, open, peer, inbox>>
        /\ pc = "Recv" => UNCHANGED <<pc, cur>>
    BY <1>1 DEF Start, Resolve, Socket, Bind, Listen, AcceptFails, Handle, Send,
                KilledBySend, Killed, vars, socketVars, netVars
  <2> QED
    BY <1>a, <2>1, EventFrame
<1>2. CASE Wait
  <2> DEFINE fd == Head(ready)
  <2>1. /\ pc = "Wait" /\ ready # <<>> /\ UNCHANGED <<backlog, open, peer, inbox>>
        /\ \/ ~Readable(fd) /\ ready' = Tail(ready)
           \/ fd = Listener /\ ready' = Append(Tail(ready), fd)
           \/ fd # Listener /\ ready' = Tail(ready) /\ pc' = "Recv" /\ cur' = fd
    BY <1>2 DEF Wait
  <2>2. /\ Range(ready) \subseteq Range(Tail(ready)) \union {fd}
        /\ Tail(ready) \in Seq(Conns \union {Listener})
        /\ fd \in Conns \union {Listener}
    BY <1>b, <2>1, TailKeeps
  <2>3. Range(Append(Tail(ready), fd)) = Range(Tail(ready)) \union {fd}
    <3> HIDE DEF fd
    <3>1. ASSUME NEW S, NEW t \in Seq(S), NEW e \in S
          PROVE  Range(Append(t, e)) = Range(t) \union {e}
      BY AppendRange
    <3>2. PICK S, t : S = Conns \union {Listener} /\ t = Tail(ready)
      OBVIOUS
    <3>3. t \in Seq(S) /\ fd \in S
      BY <2>2, <3>2
    <3>4. Range(Append(t, fd)) = Range(t) \union {fd}
      BY <3>1, <3>3
    <3> QED
      BY <3>2, <3>4
  <2>4. ~Readable(fd) => /\ fd = Listener => backlog = <<>>
                         /\ fd # Listener => inbox[fd] = <<>>
    BY DEF Readable
  <2> HIDE DEF fd
  <2> QED
    BY <1>a, <1>b, <2>1, <2>2, <2>3, <2>4 DEF EventInv
<1>3. CASE Accept
  <2> DEFINE c == Head(backlog)
  <2>1. /\ pc = "Accept" /\ backlog # <<>> /\ UNCHANGED <<peer, inbox>>
        /\ open' = open \union {c} /\ backlog' = Tail(backlog)
        /\ ready' = IF Readable(c) THEN Append(ready, c) ELSE ready
    BY <1>a, <1>3 DEF Accept, CurInv
  <2>2. c \in Conns /\ Range(backlog) \subseteq Range(backlog') \union {c}
    BY <1>b, <2>1, TailKeeps
  <2> HIDE DEF c
  <2>3. Range(Append(ready, c)) = Range(ready) \union {c}
    BY <1>b, <2>2, AppendRange, SMTT(30)
  <2>4. inbox[c] # <<>> => Readable(c)
    BY <1>b, <2>2 DEF Readable
  <2> QED
    BY <1>a, <2>1, <2>2, <2>3, <2>4 DEF EventInv
<1>4. CASE Close
  <2>1. /\ cur \in Conns /\ open' = open \ {cur} /\ backlog' = backlog
        /\ peer' = [peer EXCEPT ![cur] = "gone"]
        /\ inbox' = [inbox EXCEPT ![cur] = <<>>] /\ pc = "Close"
    BY <1>a, <1>4 DEF Close, CurInv
  <2>2. Range(ready) \subseteq Range(ready') \union {cur}
    BY <1>b, <1>4, RemoveAtKeeps DEF Close
  <2>3. \A d \in Conns : d # cur => peer'[d] = peer[d] /\ inbox'[d] = inbox[d]
    BY <1>b, <2>1
  <2>4. peer'[cur] = "gone"
    BY <1>b, <2>1
  <2> QED
    BY <1>a, <1>b, <2>1, <2>2, <2>3, <2>4 DEF EventInv
<1>5. CASE Recv
  <2>1. /\ UNCHANGED <<backlog, open, peer, ready>> /\ cur \in Conns
        /\ inbox' = [inbox EXCEPT ![cur] = <<>>]
    BY <1>a, <1>5 DEF Recv, Received, CurInv
  <2> QED
    BY <1>a, <1>b, <2>1 DEF EventInv
<1>6. ASSUME NEW c \in Conns, NEW req \in Requests, PeerSends(c, req)
      PROVE  EventInv'
  <2>1. /\ UNCHANGED <<pc, cur, backlog, open, peer>> /\ ready' = Notified(c)
        /\ \A d \in Conns : d # c => inbox'[d] = inbox[d]
    BY <1>b, <1>6 DEF PeerSends, Deliver
  <2>2. Range(ready) \subseteq Range(ready') /\ (c \in open => c \in Range(ready'))
    BY <1>a, <2>1, NotifiedKeeps
  <2> QED
    BY <1>a, <2>1, <2>2 DEF EventInv
<1>7. ASSUME NEW c \in Conns, Connect(c) PROVE EventInv'
  <2>1. /\ UNCHANGED <<pc, cur, open, inbox>> /\ ready' = Notified(Listener)
        /\ peer' = [peer EXCEPT ![c] = "open"] /\ backlog' = Append(backlog, c)
    BY <1>7 DEF Connect
  <2>2. Range(ready) \subseteq Range(ready') /\ Listener \in Range(ready')
    BY <1>a, <2>1, NotifiedKeeps
  <2>3. Range(backlog') = Range(backlog) \union {c}
    BY <1>b, <2>1, AppendRange
  <2> QED
    BY <1>a, <1>b, <2>1, <2>2, <2>3 DEF EventInv
<1>8. ASSUME NEW c \in Conns, NEW how \in {"shut", "reset"}, HangUp(c, how)
      PROVE  EventInv'
  <2>1. /\ UNCHANGED <<pc, cur, backlog, open, inbox>> /\ ready' = Notified(c)
        /\ peer' = [peer EXCEPT ![c] = how] /\ peer[c] \in {"open", "shut"}
    BY <1>8 DEF HangUp
  <2>2. Range(ready) \subseteq Range(ready')
    BY <1>a, <2>1, NotifiedKeeps
  <2> QED
    BY <1>a, <1>b, <2>1, <2>2 DEF EventInv
<1> QED
  BY <1>1, <1>2, <1>3, <1>4, <1>5, <1>6, <1>7, <1>8
     DEF Next, Server, Environment, Rest

-----------------------------------------------------------------------------
(* Replies to malformed requests.                                          *)

(* Of the replies to a buffer only the last is to a malformed request.     *)
LEMMA RepliesEnd ==
  ASSUME NEW buf, NEW rs \in BufferReplies(buf)
  PROVE  /\ MalformedEnds(Units(rs))
         /\ rs # <<>> /\ Last(rs) # "malformed" =>
              "malformed" \notin Range(Units(rs))
<1>1. rs \in Seq(Reply) /\ Len(rs) \in Nat
  BY RepliesType
<1>2. \A i \in 1..(Len(rs) - 1) : rs[i] # "malformed"
  BY DEF BufferReplies
<1>3. /\ Units(rs) \in Seq(Reply) /\ Len(Units(rs)) = 2 * Len(rs)
      /\ \A i \in 1..(2 * Len(rs)) :
           (i + 1) \div 2 \in 1..Len(rs) /\ Units(rs)[i] = rs[(i + 1) \div 2]
  BY <1>1, UnitsType
<1>4. DOMAIN Units(rs) = 1..(2 * Len(rs))
  BY <1>3
<1>5. \A i \in 1..(2 * Len(rs)) :
        Units(rs)[i] = "malformed" => (i + 1) \div 2 = Len(rs)
  <2>1. \A k \in 1..Len(rs) : rs[k] = "malformed" => k = Len(rs)
    BY <1>1, <1>2
  <2> QED
    BY <1>3, <2>1
<1>6. MalformedEnds(Units(rs))
  <2> SUFFICES ASSUME NEW i \in 1..(2 * Len(rs)), NEW j \in 1..(2 * Len(rs)),
                      i < j, Units(rs)[i] = "malformed"
               PROVE  j = i + 1 /\ Units(rs)[j] = "malformed"
    BY <1>4 DEF MalformedEnds
  <2>1. \A n \in Nat : \A k, l \in 1..(2 * n) :
          k < l /\ (k + 1) \div 2 = n => l = k + 1 /\ (l + 1) \div 2 = n
    OBVIOUS
  <2>2. (i + 1) \div 2 = Len(rs)
    BY <1>5
  <2>3. j = i + 1 /\ (j + 1) \div 2 = Len(rs)
    BY <1>1, <2>1, <2>2
  <2> QED
    BY <1>3, <2>2, <2>3
<1>7. Last(rs) # "malformed" => "malformed" \notin Range(Units(rs))
  BY <1>1, <1>3, <1>4, <1>5 DEF Last, Range
<1> QED
  BY <1>6, <1>7

(* A malformed line ends a sequence that goes on after one without.        *)
LEMMA MalformedConcat ==
  ASSUME NEW a \in Seq(Reply), NEW b \in Seq(Reply),
         "malformed" \notin Range(a), MalformedEnds(b)
  PROVE  /\ MalformedEnds(a \o b)
         /\ "malformed" \in Range(a \o b) => "malformed" \in Range(b)
<1>1. /\ a \o b \in Seq(Reply) /\ Len(a \o b) = Len(a) + Len(b)
      /\ \A i \in 1..Len(a) : (a \o b)[i] = a[i]
      /\ \A i \in 1..Len(b) : (a \o b)[Len(a) + i] = b[i]
  BY ConcatElements
<1>2. /\ Len(a) \in Nat /\ Len(b) \in Nat
      /\ DOMAIN a = 1..Len(a) /\ DOMAIN b = 1..Len(b)
      /\ DOMAIN (a \o b) = 1..(Len(a) + Len(b))
  BY <1>1
<1>3. ASSUME NEW i \in 1..(Len(a) + Len(b)), (a \o b)[i] = "malformed"
      PROVE  i - Len(a) \in 1..Len(b) /\ b[i - Len(a)] = "malformed"
  <2>1. i \notin 1..Len(a)
    BY <1>1, <1>2, <1>3 DEF Range
  <2>2. i - Len(a) \in 1..Len(b) /\ Len(a) + (i - Len(a)) = i
    BY <1>2, <2>1
  <2> QED
    BY <1>1, <1>3, <2>2
<1>4. MalformedEnds(a \o b)
  <2> SUFFICES ASSUME NEW i \in 1..(Len(a) + Len(b)),
                      NEW j \in 1..(Len(a) + Len(b)),
                      i < j, (a \o b)[i] = "malformed"
               PROVE  j = i + 1 /\ (a \o b)[j] = "malformed"
    BY <1>2 DEF MalformedEnds
  <2>1. i - Len(a) \in 1..Len(b) /\ b[i - Len(a)] = "malformed"
    BY <1>3
  <2>2. /\ j - Len(a) \in 1..Len(b) /\ i - Len(a) < j - Len(a)
        /\ Len(a) + (j - Len(a)) = j
    BY <1>2, <2>1
  <2>3. j - Len(a) = (i - Len(a)) + 1 /\ b[j - Len(a)] = "malformed"
    BY <1>2, <2>1, <2>2 DEF MalformedEnds
  <2> QED
    BY <1>1, <1>2, <2>2, <2>3
<1> QED
  BY <1>2, <1>3, <1>4 DEF Range

(* A step that neither queues nor sends a reply.                           *)
LEMMA ReplyFrame ==
  ASSUME ReplyInv, UNCHANGED <<sdqu, result, answers>>,
         \A c \in Conns : peer[c] = "gone" => peer'[c] = "gone",
         \/ UNCHANGED <<pc, cur>>
         \/ pc \notin {"Send", "Close", "Exit"} /\ pc' # "Send"
  PROVE  ReplyInv'
BY DEF ReplyInv, MalformedIsLast, MalformedEnds

LEMMA ReplyStep == PrimeInv /\ [Next]_vars => ReplyInv'
<1> SUFFICES ASSUME PrimeInv, [Next]_vars PROVE ReplyInv'
  OBVIOUS
<1>a. ReplyInv /\ CurInv
  BY DEF PrimeInv
<1>b. /\ sdqu \in Seq(Reply) /\ answers \in [Conns -> Seq(Reply)]
      /\ peer \in [Conns -> {"none", "open", "shut", "reset", "gone"}]
  BY DEF PrimeInv, TypeOK, SocketsType
<1>1. CASE /\ UNCHANGED primeVars
           /\ \/ Start \/ Wait \/ Accept \/ AcceptFails
              \/ \E c \in Conns :
                   Connect(c) \/ \E how \in {"shut", "reset"} : HangUp(c, how)
  <2>1. /\ UNCHANGED <<sdqu, result, answers>>
        /\ \/ UNCHANGED <<pc, cur>>
           \/ pc \notin {"Send", "Close", "Exit"} /\ pc' # "Send"
    BY <1>1 DEF Start, Resolve, Socket, Bind, Listen, Wait, Accept, AcceptFails,
                Connect, HangUp, primeVars
  <2>2. \A c \in Conns : peer[c] = "gone" => peer'[c] = "gone"
    BY <1>b, <1>1 DEF Start, Resolve, Socket, Bind, Listen, Wait, Accept,
                      AcceptFails, Connect, HangUp, netVars
  <2> QED
    BY <1>a, <2>1, <2>2, ReplyFrame
<1>2. CASE Close /\ UNCHANGED primeVars
  <2>1. /\ UNCHANGED <<sdqu, answers>> /\ pc = "Close" /\ pc' = "Wait"
        /\ cur \in Conns /\ peer' = [peer EXCEPT ![cur] = "gone"]
    BY <1>a, <1>2 DEF Close, CurInv, primeVars
  <2> QED
    BY <1>a, <1>b, <2>1 DEF ReplyInv, MalformedIsLast, MalformedEnds
<1>3. CASE Recv
  <2>1. /\ UNCHANGED <<sdqu, result, answers, peer>> /\ pc = "Recv" /\ pc' # "Send"
    BY <1>3 DEF Recv, Received, Finish
  <2> QED
    BY <1>a, <2>1, ReplyFrame
<1>4. CASE Handle
  <2>1. PICK rs \in BufferReplies(rcqu) :
          /\ sdqu' = sdqu \o Units(rs)
          /\ result' = (rs # <<>> /\ Last(rs) # "malformed")
          /\ pc' = CASE rs # <<>> -> "Send" [] rs = <<>> -> "Close"
    BY <1>4 DEF Handle
  <2>2. /\ Units(rs) \in Seq(Reply) /\ Len(Units(rs)) = 2 * Len(rs)
        /\ rs \in Seq(Reply)
    BY RepliesType, UnitsType
  <2>3. sdqu' = Units(rs)
    <3>1. sdqu = <<>>
      BY <1>a, <1>4 DEF Handle, ReplyInv
    <3> QED
      BY <2>1, <2>2, <3>1
  <2>4. rs = <<>> => sdqu' = <<>>
    <3>1. rs = <<>> => Len(Units(rs)) = 0
      BY <2>2
    <3> QED
      BY <2>2, <2>3, <3>1
  <2>5. MalformedEnds(sdqu)' /\ (result' => "malformed" \notin Range(sdqu'))
    <3>1. MalformedEnds(Units(rs)) /\ (result' => "malformed" \notin Range(sdqu'))
      BY <2>1, <2>3, RepliesEnd
    <3> QED
      BY <2>3, <3>1 DEF MalformedEnds
  <2>6. UNCHANGED <<answers, peer>> /\ pc = "Handle"
    BY <1>4 DEF Handle, netVars
  <2>7. pc' = "Send" \/ (pc' = "Close" /\ rs = <<>>)
    BY <2>1
  <2> QED
    BY <1>a, <2>4, <2>5, <2>6, <2>7 DEF ReplyInv, MalformedIsLast, MalformedEnds
<1>5. CASE Send
  <2>1. PICK o \in SendAll(Len(sdqu)) :
          /\ answers' = [answers EXCEPT ![cur] = @ \o SubSeq(sdqu, 1, o.sent)]
          /\ pc' = IF result /\ ~o.failed THEN Finish(res) ELSE "Close"
    BY <1>5 DEF Send
  <2>2. /\ pc = "Send" /\ peer' = peer /\ sdqu' = <<>>
        /\ pc' # "Wait" => cur' = cur
    BY <1>5 DEF Send, netVars, KeepCur
  <2>3. pc' \in {"Wait", "Close"} /\ (~result => pc' = "Close")
    BY <2>1 DEF Finish
  <2>4. cur \in Conns /\ "malformed" \notin Range(answers[cur])
    BY <1>a, <2>2 DEF CurInv, ReplyInv
  <2> DEFINE b == SubSeq(sdqu, 1, o.sent)
             a == answers[cur] \o b
  <2>5. /\ b \in Seq(Reply) /\ MalformedEnds(b)
        /\ "malformed" \in Range(b) => ~result
    <3>1. /\ o.sent \in 0..Len(sdqu) /\ b \in Seq(Reply) /\ Len(b) = o.sent
          /\ \A i \in 1..o.sent : b[i] = sdqu[i]
      BY <1>b, SentPrefix
    <3>2. /\ DOMAIN b = 1..o.sent /\ DOMAIN sdqu = 1..Len(sdqu)
          /\ \A i \in 1..o.sent : i \in DOMAIN sdqu
      BY <1>b, <3>1
    <3>3. MalformedEnds(sdqu) /\ (result => "malformed" \notin Range(sdqu))
      BY <1>a, <2>2 DEF ReplyInv
    <3> HIDE DEF b
    <3> QED
      BY <3>1, <3>2, <3>3 DEF MalformedEnds, Range
  <2>6. MalformedEnds(a) /\ ("malformed" \in Range(a) => ~result)
    BY <1>b, <2>4, <2>5, MalformedConcat
  <2>7. answers'[cur] = a /\ \A c \in Conns : c # cur => answers'[c] = answers[c]
    BY <1>b, <2>1, <2>4
  <2> HIDE DEF a, b
  <2>8. "malformed" \in Range(answers'[cur]) => pc' = "Close" /\ cur' = cur
    BY <2>2, <2>3, <2>6, <2>7
  <2>9. MalformedIsLast'
    BY <1>a, <2>6, <2>7 DEF ReplyInv, MalformedIsLast, MalformedEnds
  <2> QED
    BY <1>a, <2>2, <2>3, <2>7, <2>8, <2>9 DEF ReplyInv
<1>6. ASSUME NEW c \in Conns, NEW req \in Requests, PeerSends(c, req)
      PROVE  ReplyInv'
  BY <1>a, <1>6, ReplyFrame DEF PeerSends, Deliver
<1>7. CASE KilledBySend
  BY <1>a, <1>7 DEF KilledBySend, Killed, primeVars, netVars, ReplyInv,
                    MalformedIsLast, MalformedEnds
<1>8. CASE UNCHANGED vars
  BY <1>a, <1>8, ReplyFrame DEF vars, socketVars, netVars, primeVars
<1> QED
  BY <1>1, <1>2, <1>3, <1>4, <1>5, <1>6, <1>7, <1>8
     DEF Next, Server, Environment, Rest

-----------------------------------------------------------------------------
(* The pieces that have been received, and those in the queue.             *)

LEMMA TakenType ==
  ASSUME TypeOK, PieceInv, NEW c \in Conns
  PROVE  /\ sent[c] \in Nat /\ Len(inbox[c]) \in Nat /\ Len(rcqu) \in Nat
         /\ Taken(c) \in Nat /\ Held(c) \in Nat /\ Done(c) \in Int
         /\ Taken(c) = sent[c] - Len(inbox[c]) /\ Done(c) = Taken(c) - Held(c)
<1>1. sent[c] \in Nat /\ Len(inbox[c]) \in Nat /\ Len(rcqu) \in Nat
  BY DEF TypeOK
<1>2. Taken(c) >= 0
  BY DEF PieceInv
<1> QED
  BY <1>1, <1>2 DEF Taken, Held, Done

(* What is received of a connection leaves the number of pieces done with. *)
LEMMA RecvKeeps ==
  ASSUME TypeOK, PieceInv, CurInv, Recv, ~torn', NEW c \in Conns
  PROVE  /\ Done(c)' = Done(c)
         /\ c # cur => Held(c)' = 0 /\ Held(c) = 0 /\ Taken(c)' = Taken(c)
         /\ c = cur => /\ Held(c)' = Len(rcqu') /\ Held(c) = Len(rcqu)
                       /\ Taken(c)' = sent[c]
<1>1. /\ pc = "Recv" /\ rcqu' = rcqu \o inbox[cur] /\ sent' = sent
      /\ inbox' = [inbox EXCEPT ![cur] = <<>>]
      /\ \A i \in DOMAIN rcqu' : rcqu'[i].conn = cur
  BY DEF Recv, Received
<1>2. cur \in Conns
  BY <1>1 DEF CurInv
<1>3. /\ rcqu \in Seq(Pieces) /\ inbox[cur] \in Seq(Pieces)
      /\ rcqu' \in Seq(Pieces) /\ Len(rcqu') = Len(rcqu) + Len(inbox[cur])
      /\ \A i \in 1..Len(rcqu) : rcqu'[i] = rcqu[i]
  <2>1. rcqu \in Seq(Pieces) /\ inbox[cur] \in Seq(Pieces)
    BY <1>2 DEF TypeOK
  <2> QED
    BY <1>1, <2>1, ConcatElements
<1>4. rcqu # <<>> => 1 \in DOMAIN rcqu' /\ rcqu[1].conn = cur /\ Len(rcqu) # 0
  <2>1. rcqu # <<>> => 1 \in 1..Len(rcqu) /\ 1 \in DOMAIN rcqu'
    BY <1>3
  <2> QED
    BY <1>1, <1>3, <2>1
<1>5. rcqu' # <<>> => rcqu'[1].conn = cur
  BY <1>1, <1>3
<1>6. (rcqu = <<>> => Len(rcqu) = 0) /\ (rcqu' = <<>> => Len(rcqu') = 0)
  OBVIOUS
<1>7. /\ c = cur => Held(c)' = Len(rcqu') /\ Held(c) = Len(rcqu)
      /\ c # cur => Held(c)' = 0 /\ Held(c) = 0
  BY <1>4, <1>5, <1>6 DEF Held
<1>8. /\ c = cur => Taken(c)' = sent[c] /\ Taken(c) = sent[c] - Len(inbox[c])
      /\ c # cur => Taken(c)' = Taken(c)
  <2>1. inbox'[cur] = <<>> /\ (c # cur => inbox'[c] = inbox[c])
    BY <1>1, <1>2 DEF TypeOK
  <2>2. Len(<<>>) = 0 /\ sent[cur] \in Nat
    BY <1>2 DEF TypeOK
  <2> QED
    BY <1>1, <2>1, <2>2 DEF Taken
<1>9. Done(c)' = Done(c)
  <2>1. CASE c = cur
    <3>1. /\ sent[cur] \in Nat /\ Len(inbox[cur]) \in Nat /\ Len(rcqu) \in Nat
      BY <1>2, <1>3 DEF TypeOK
    <3>2. sent[cur] - (Len(rcqu) + Len(inbox[cur]))
            = sent[cur] - Len(inbox[cur]) - Len(rcqu)
      BY <3>1
    <3> QED
      BY <1>3, <1>7, <1>8, <2>1, <3>2 DEF Done
  <2>2. CASE c # cur
    BY <1>7, <1>8, <2>2 DEF Done
  <2> QED
    BY <2>1, <2>2
<1> QED
  BY <1>7, <1>8, <1>9

(* A peer's next piece leaves what was taken.                              *)
LEMMA SendsKeeps ==
  ASSUME TypeOK, NEW d \in Conns, NEW req \in Requests, PeerSends(d, req)
  PROVE  /\ \A c \in Conns : Taken(c)' = Taken(c) /\ Held(c)' = Held(c)
         /\ \A c \in Conns : Done(c)' = Done(c)
         /\ Len(inbox'[d]) = Len(inbox[d]) + 1
         /\ \A i \in 1..Len(inbox[d]) : inbox'[d][i] = inbox[d][i]
         /\ inbox'[d][Len(inbox[d]) + 1] = Piece(d, sent[d] + 1)
<1> DEFINE piece == Piece(d, sent[d] + 1)
<1>1. /\ sent[d] \in Nat /\ inbox[d] \in Seq(Pieces) /\ piece \in Pieces
      /\ <<piece>> \in Seq(Pieces)
  BY PieceType DEF TypeOK
<1>2. /\ inbox' = [inbox EXCEPT ![d] = inbox[d] \o <<piece>>]
      /\ sent' = [sent EXCEPT ![d] = sent[d] + 1] /\ rcqu' = rcqu
  BY DEF PeerSends, Deliver
<1> HIDE DEF piece
<1>3. /\ inbox'[d] = inbox[d] \o <<piece>> /\ sent'[d] = sent[d] + 1
      /\ \A c \in Conns : c # d => inbox'[c] = inbox[c] /\ sent'[c] = sent[c]
  BY <1>2 DEF TypeOK
<1>4. /\ Len(<<piece>>) = 1 /\ <<piece>>[1] = piece /\ Len(inbox[d]) \in Nat
      /\ 1 \in 1..Len(<<piece>>)
  BY <1>1
<1>5. /\ Len(inbox'[d]) = Len(inbox[d]) + 1
      /\ \A i \in 1..Len(inbox[d]) : inbox'[d][i] = inbox[d][i]
      /\ inbox'[d][Len(inbox[d]) + 1] = piece
  BY <1>1, <1>3, <1>4, ConcatElements
<1>6. \A c \in Conns : Taken(c)' = Taken(c)
  <2>1. (sent[d] + 1) - (Len(inbox[d]) + 1) = sent[d] - Len(inbox[d])
    BY <1>1, <1>4
  <2> QED
    BY <1>3, <1>5, <2>1 DEF Taken
<1>7. \A c \in Conns : Held(c)' = Held(c)
  BY <1>2 DEF Held
<1> QED
  BY <1>5, <1>6, <1>7 DEF Done, piece

(* A step that neither sends, takes nor processes pieces.                  *)
LEMMA PieceFrame ==
  ASSUME PieceInv, UNCHANGED <<inbox, sent, ask, rcqu, torn>>,
         \A c \in Conns : peer[c] = "gone" => peer'[c] = "gone"
  PROVE  PieceInv'
BY DEF PieceInv, Taken, Held, Done

(* The queue that is processed ends where a line ends.                     *)
LEMMA HandleEnds ==
  ASSUME TypeOK, CurInv, PieceInv, LineInv, pc = "Handle", ~torn,
         NEW c \in Conns, peer[c] # "gone"
  PROVE  /\ Taken(c) % 3 = 0
         /\ c = cur => Held(c) = Len(rcqu) /\ Len(rcqu) # 0
         /\ c # cur => Held(c) = 0
<1>1. /\ HasNewline(rcqu) /\ Newline(Last(rcqu))
      /\ \A i \in DOMAIN rcqu : rcqu[i].conn = cur
  BY DEF LineInv
<1>2. /\ rcqu \in Seq(Pieces) /\ Len(rcqu) \in Nat /\ Len(rcqu) # 0
      /\ DOMAIN rcqu = 1..Len(rcqu) /\ rcqu # <<>>
  BY <1>1 DEF TypeOK, HasNewline
<1>3. rcqu[1].conn = cur
  BY <1>1, <1>2
<1>4. /\ c = cur => Held(c) = Len(rcqu) /\ Len(rcqu) # 0
      /\ c # cur => Held(c) = 0
  BY <1>2, <1>3 DEF Held
<1>5. Taken(c) % 3 = 0
  <2>1. CASE c = cur
    <3>1. /\ Done(c) >= 0 /\ Taken(c) \in Nat /\ Done(c) = Taken(c) - Len(rcqu)
          /\ Done(c) \in Int
      BY <1>4, <2>1, TakenType DEF PieceInv
    <3>2. rcqu[Len(rcqu)] = Piece(c, Done(c) + Len(rcqu))
      BY <1>2, <1>4, <2>1 DEF PieceInv
    <3>3. Done(c) + Len(rcqu) = Taken(c) /\ Taken(c) \in Nat \ {0}
      BY <1>2, <3>1
    <3>4. Piece(c, Taken(c)).part = "end"
      BY <1>1, <3>2, <3>3 DEF Newline, Last
    <3>5. Taken(c) % 3 \in 0..2
      BY <3>3
    <3> QED
      BY <3>3, <3>4, <3>5, PieceType
  <2>2. CASE c # cur
    <3>1. Done(c) % 3 = 0 /\ Done(c) = Taken(c) /\ Taken(c) \in Nat
      <4>1. Done(c) = Taken(c) - 0 /\ Taken(c) \in Nat
        BY <1>4, <2>2, TakenType
      <4> QED
        BY <4>1 DEF PieceInv
    <3> QED
      BY <3>1
  <2> QED
    BY <2>1, <2>2
<1> QED
  BY <1>4, <1>5

LEMMA PieceStep == PrimeInv /\ [Next]_vars => PieceInv'
<1> SUFFICES ASSUME PrimeInv, [Next]_vars PROVE PieceInv'
  OBVIOUS
<1>a. TypeOK /\ CurInv /\ PieceInv /\ LineInv
  BY DEF PrimeInv
<1>b. /\ peer \in [Conns -> {"none", "open", "shut", "reset", "gone"}]
      /\ inbox \in [Conns -> Seq(Pieces)] /\ sent \in [Conns -> Nat]
      /\ rcqu \in Seq(Pieces) /\ ask \in [Conns -> Seq(Requests)]
  BY <1>a DEF TypeOK, SocketsType
<1>1. CASE \/ /\ UNCHANGED primeVars
              /\ \/ Start \/ Wait \/ Accept \/ AcceptFails
                 \/ \E c \in Conns :
                      Connect(c) \/ \E how \in {"shut", "reset"} : HangUp(c, how)
           \/ Send \/ KilledBySend \/ UNCHANGED vars
  <2>1. UNCHANGED <<inbox, sent, ask, rcqu, torn>>
    BY <1>1 DEF Start, Resolve, Socket, Bind, Listen, Wait, Accept, AcceptFails,
                Connect, HangUp, Send, KilledBySend, Killed, vars, socketVars,
                netVars, primeVars
  <2>2. \A c \in Conns : peer[c] = "gone" => peer'[c] = "gone"
    BY <1>b, <1>1 DEF Start, Resolve, Socket, Bind, Listen, Wait, Accept,
                      AcceptFails, Connect, HangUp, Send, KilledBySend, Killed,
                      vars, socketVars, netVars
  <2> QED
    BY <1>a, <2>1, <2>2, PieceFrame
<1>2. CASE Close /\ UNCHANGED primeVars
  <2>1. /\ UNCHANGED <<sent, ask, rcqu, torn>> /\ cur \in Conns
        /\ inbox' = [inbox EXCEPT ![cur] = <<>>]
        /\ peer' = [peer EXCEPT ![cur] = "gone"]
    BY <1>a, <1>2 DEF Close, CurInv, primeVars
  <2>2. ASSUME NEW c \in Conns, c = cur
        PROVE  /\ Taken(c)' >= 0 /\ inbox'[c] = <<>> /\ peer'[c] = "gone"
    <3>1. inbox'[c] = <<>> /\ Len(<<>>) = 0 /\ sent[c] \in Nat /\ sent'[c] = sent[c]
      BY <1>b, <2>1, <2>2
    <3> QED
      BY <1>b, <2>1, <2>2, <3>1 DEF Taken
  <2>3. ASSUME NEW c \in Conns, c # cur
        PROVE  /\ inbox'[c] = inbox[c] /\ peer'[c] = peer[c]
               /\ Taken(c)' = Taken(c) /\ Done(c)' = Done(c) /\ Held(c)' = Held(c)
    <3>1. inbox'[c] = inbox[c] /\ peer'[c] = peer[c]
      BY <1>b, <2>1, <2>3
    <3> QED
      BY <2>1, <3>1 DEF Taken, Done, Held
  <2>4. ASSUME NEW c \in Conns
        PROVE  /\ Taken(c)' >= 0 /\ Len(ask'[c]) = (sent'[c] + 1) \div 3
               /\ \A i \in DOMAIN inbox'[c] : inbox'[c][i] = Piece(c, Taken(c)' + i)
               /\ ~torn' /\ peer'[c] # "gone" =>
                    /\ Done(c)' >= 0 /\ Done(c)' % 3 = 0
                    /\ Held(c)' # 0 =>
                         \A i \in DOMAIN rcqu' : rcqu'[i] = Piece(c, Done(c)' + i)
    <3>1. CASE c = cur
      BY <1>a, <2>1, <2>2, <3>1 DEF PieceInv
    <3>2. CASE c # cur
      BY <1>a, <2>1, <2>3, <3>2 DEF PieceInv
    <3> QED
      BY <3>1, <3>2
  <2> QED
    BY <2>4 DEF PieceInv
<1>3. CASE Recv
  <2>1. /\ UNCHANGED <<sent, ask, peer>> /\ cur \in Conns /\ (torn => torn')
        /\ inbox' = [inbox EXCEPT ![cur] = <<>>] /\ rcqu' = rcqu \o inbox[cur]
    BY <1>a, <1>3 DEF Recv, Received, CurInv
  <2>2. ASSUME NEW c \in Conns
        PROVE  /\ Taken(c)' >= 0
               /\ \A i \in DOMAIN inbox'[c] : inbox'[c][i] = Piece(c, Taken(c)' + i)
    <3>1. CASE c = cur
      <4>1. inbox'[c] = <<>> /\ Len(<<>>) = 0 /\ sent[c] \in Nat /\ sent'[c] = sent[c]
        BY <1>b, <2>1, <3>1
      <4> QED
        BY <4>1 DEF Taken
    <3>2. CASE c # cur
      <4>1. inbox'[c] = inbox[c] /\ sent'[c] = sent[c]
        BY <1>b, <2>1, <3>2
      <4>2. Taken(c)' = Taken(c)
        BY <4>1 DEF Taken
      <4> QED
        BY <1>a, <4>1, <4>2 DEF PieceInv
    <3> QED
      BY <3>1, <3>2
  <2>3. ASSUME NEW c \in Conns, ~torn', peer'[c] # "gone"
        PROVE  /\ Done(c)' >= 0 /\ Done(c)' % 3 = 0
               /\ Held(c)' # 0 =>
                    \A i \in DOMAIN rcqu' : rcqu'[i] = Piece(c, Done(c)' + i)
    <3>1. /\ Done(c)' = Done(c) /\ (c # cur => Held(c)' = 0)
          /\ c = cur => Held(c) = Len(rcqu)
      BY <1>a, <1>3, <2>3, RecvKeeps
    <3>2. /\ Done(c) >= 0 /\ Done(c) % 3 = 0 /\ ~torn
          /\ Held(c) # 0 => \A i \in DOMAIN rcqu : rcqu[i] = Piece(c, Done(c) + i)
      BY <1>a, <2>1, <2>3 DEF PieceInv
    <3>3. ASSUME c = cur, NEW i \in DOMAIN rcqu'
          PROVE  rcqu'[i] = Piece(c, Done(c) + i)
      <4>1. /\ rcqu \in Seq(Pieces) /\ inbox[c] \in Seq(Pieces)
            /\ Len(rcqu) \in Nat /\ Len(inbox[c]) \in Nat
        BY <1>b
      <4>2. rcqu' = rcqu \o inbox[c]
        BY <2>1, <3>3
      <4>3. /\ Len(rcqu') = Len(rcqu) + Len(inbox[c]) /\ rcqu' \in Seq(Pieces)
            /\ \A j \in 1..Len(rcqu) : rcqu'[j] = rcqu[j]
            /\ \A j \in 1..Len(inbox[c]) : rcqu'[Len(rcqu) + j] = inbox[c][j]
        BY <4>1, <4>2, ConcatElements
      <4>4. i \in 1..(Len(rcqu) + Len(inbox[c]))
        <5>1. DOMAIN rcqu' = 1..Len(rcqu')
          BY <4>3
        <5> QED
          BY <3>3, <4>3, <5>1
      <4>5. CASE i \in 1..Len(rcqu)
        <5>1. Held(c) # 0 /\ i \in DOMAIN rcqu
          BY <3>1, <3>3, <4>1, <4>5
        <5> QED
          BY <3>2, <4>3, <4>5, <5>1
      <4>6. CASE i \notin 1..Len(rcqu)
        <5>1. i - Len(rcqu) \in 1..Len(inbox[c]) /\ Len(rcqu) + (i - Len(rcqu)) = i
          BY <4>1, <4>4, <4>6
        <5>2. rcqu'[i] = inbox[c][i - Len(rcqu)]
          BY <4>3, <5>1
        <5>3. inbox[c][i - Len(rcqu)] = Piece(c, Taken(c) + (i - Len(rcqu)))
          BY <1>a, <4>1, <5>1 DEF PieceInv
        <5>4. Done(c) = Taken(c) - Len(rcqu) /\ Taken(c) \in Nat
          BY <1>a, <3>1, <3>3, TakenType
        <5>5. Taken(c) + (i - Len(rcqu)) = Done(c) + i
          BY <4>1, <4>4, <5>4
        <5> QED
          BY <5>2, <5>3, <5>5
      <4> QED
        BY <4>5, <4>6
    <3> QED
      BY <3>1, <3>2, <3>3
  <2> QED
    BY <1>a, <2>1, <2>2, <2>3 DEF PieceInv
<1>4. CASE Handle
  <2>1. /\ UNCHANGED <<inbox, sent, ask, peer, torn>> /\ rcqu' = <<>>
        /\ pc = "Handle"
    BY <1>4 DEF Handle, netVars
  <2>2. \A c \in Conns : Taken(c)' = Taken(c) /\ Held(c)' = 0
    BY <2>1 DEF Taken, Held
  <2>3. ASSUME NEW c \in Conns, ~torn, peer[c] # "gone"
        PROVE  Done(c)' >= 0 /\ Done(c)' % 3 = 0
    <3>1. Taken(c) \in Nat /\ Taken(c) % 3 = 0
      BY <1>a, <2>1, <2>3, TakenType, HandleEnds
    <3>2. Done(c)' = Taken(c) - 0
      BY <2>2 DEF Done
    <3>3. Done(c)' = Taken(c)
      BY <3>1, <3>2
    <3> QED
      BY <3>1, <3>3
  <2> QED
    BY <1>a, <2>1, <2>2, <2>3 DEF PieceInv
<1>5. ASSUME NEW d \in Conns, NEW req \in Requests, PeerSends(d, req)
      PROVE  PieceInv'
  <2>1. /\ UNCHANGED <<rcqu, peer, torn>>
        /\ sent' = [sent EXCEPT ![d] = sent[d] + 1]
        /\ ask' = IF Piece(d, sent[d] + 1).part = "rest"
                    THEN [ask EXCEPT ![d] = Append(@, req)] ELSE ask
        /\ \A c \in Conns : c # d => inbox'[c] = inbox[c]
    BY <1>b, <1>5 DEF PeerSends, Deliver
  <2>2. /\ \A c \in Conns : /\ Taken(c)' = Taken(c) /\ Held(c)' = Held(c)
                            /\ Done(c)' = Done(c)
        /\ Len(inbox'[d]) = Len(inbox[d]) + 1
        /\ \A i \in 1..Len(inbox[d]) : inbox'[d][i] = inbox[d][i]
        /\ inbox'[d][Len(inbox[d]) + 1] = Piece(d, sent[d] + 1)
    BY <1>a, <1>5, SendsKeeps
  <2>3. sent[d] \in Nat /\ sent'[d] = sent[d] + 1
        /\ \A c \in Conns : c # d => sent'[c] = sent[c]
    BY <1>b, <2>1
  <2>4. Len(ask'[d]) = (sent[d] + 2) \div 3
    <3>1. /\ Len(ask[d]) = (sent[d] + 1) \div 3 /\ ask[d] \in Seq(Requests)
      BY <1>a, <1>b DEF PieceInv
    <3>2. /\ (sent[d] + 1) % 3 \in 0..2
          /\ (sent[d] + 1) % 3 = 2 => (sent[d] + 2) \div 3 = (sent[d] + 1) \div 3 + 1
          /\ (sent[d] + 1) % 3 # 2 => (sent[d] + 2) \div 3 = (sent[d] + 1) \div 3
      BY <2>3
    <3>3. Piece(d, sent[d] + 1).part = "rest" <=> (sent[d] + 1) % 3 = 2
      <4>1. sent[d] + 1 \in Nat \ {0}
        BY <2>3
      <4>2. /\ (sent[d] + 1) % 3 = 1 => Piece(d, sent[d] + 1).part = "head"
            /\ (sent[d] + 1) % 3 = 2 => Piece(d, sent[d] + 1).part = "rest"
            /\ (sent[d] + 1) % 3 = 0 => Piece(d, sent[d] + 1).part = "end"
        BY <4>1, PieceType
      <4> QED
        BY <3>2, <4>2
    <3>4. Len(Append(ask[d], req)) = Len(ask[d]) + 1
      BY <3>1
    <3>5. ask'[d] = IF (sent[d] + 1) % 3 = 2 THEN Append(ask[d], req) ELSE ask[d]
      BY <1>b, <2>1, <3>3
    <3> QED
      BY <3>1, <3>2, <3>4, <3>5
  <2>5. \A c \in Conns : c # d => ask'[c] = ask[c]
    BY <1>b, <2>1
  <2>6. \A i \in DOMAIN inbox'[d] : inbox'[d][i] = Piece(d, Taken(d)' + i)
    <3>1. /\ inbox[d] \in Seq(Pieces) /\ Len(inbox[d]) \in Nat
          /\ inbox'[d] \in Seq(Pieces)
      <4>1. Piece(d, sent[d] + 1) \in Pieces
        BY <2>3, PieceType
      <4>2. inbox' = [inbox EXCEPT ![d] = inbox[d] \o <<Piece(d, sent[d] + 1)>>]
        BY <1>5 DEF PeerSends, Deliver
      <4>3. inbox'[d] = inbox[d] \o <<Piece(d, sent[d] + 1)>>
        BY <1>b, <4>2
      <4> QED
        BY <1>b, <4>1, <4>3
    <3>2. DOMAIN inbox'[d] = 1..(Len(inbox[d]) + 1)
      BY <2>2, <3>1
    <3>3. Taken(d) = sent[d] - Len(inbox[d])
      BY DEF Taken
    <3>4. Taken(d) + (Len(inbox[d]) + 1) = sent[d] + 1
      BY <2>3, <3>1, <3>3
    <3>5. \A i \in 1..Len(inbox[d]) : inbox[d][i] = Piece(d, Taken(d) + i)
      BY <1>a, <3>1 DEF PieceInv
    <3>6. \A i \in 1..(Len(inbox[d]) + 1) :
            i \in 1..Len(inbox[d]) \/ i = Len(inbox[d]) + 1
      BY <3>1
    <3> QED
      BY <2>2, <3>2, <3>4, <3>5, <3>6
  <2>7. (sent'[d] + 1) \div 3 = (sent[d] + 2) \div 3
    BY <2>3
  <2>8. ASSUME NEW c \in Conns
        PROVE  /\ Taken(c)' >= 0 /\ Len(ask'[c]) = (sent'[c] + 1) \div 3
               /\ \A i \in DOMAIN inbox'[c] : inbox'[c][i] = Piece(c, Taken(c)' + i)
    <3>1. CASE c = d
      BY <1>a, <2>2, <2>4, <2>6, <2>7, <3>1 DEF PieceInv
    <3>2. CASE c # d
      BY <1>a, <2>1, <2>2, <2>3, <2>5, <3>2 DEF PieceInv
    <3> QED
      BY <3>1, <3>2
  <2> QED
    BY <1>a, <2>1, <2>2, <2>8 DEF PieceInv
<1> QED
  BY <1>1, <1>2, <1>3, <1>4, <1>5 DEF Next, Server, Environment, Rest

(* A step that processes nothing and leaves the queue as it is.            *)
LEMMA LineFrame ==
  ASSUME LineInv, UNCHANGED <<rcqu, torn, failed>>, TypeOK,
         ~torn /\ HasNewline(rcqu) /\ peer[rcqu[1].conn] = "gone" =>
           peer'[rcqu[1].conn] = "gone",
         \/ UNCHANGED <<pc, cur>>
         \/ pc \notin {"Handle", "Close"} /\ pc' # "Handle"
  PROVE  LineInv'
BY DEF LineInv, HasNewline, Newline, Last

LEMMA LineStep == PrimeInv /\ [Next]_vars => LineInv'
<1> SUFFICES ASSUME PrimeInv, [Next]_vars PROVE LineInv'
  OBVIOUS
<1>a. TypeOK /\ CurInv /\ LineInv
  BY DEF PrimeInv
<1>b. /\ peer \in [Conns -> {"none", "open", "shut", "reset", "gone"}]
      /\ rcqu \in Seq(Pieces)
  BY <1>a DEF TypeOK, SocketsType
<1>c. HasNewline(rcqu) => rcqu[1].conn \in Conns
  <2>1. HasNewline(rcqu) => 1 \in DOMAIN rcqu
    BY <1>b DEF HasNewline
  <2>2. 1 \in DOMAIN rcqu => rcqu[1] \in Pieces
    BY <1>b
  <2> QED
    BY <2>1, <2>2 DEF Pieces
<1>1. CASE \/ /\ UNCHANGED primeVars
              /\ \/ Start \/ Wait \/ Accept \/ AcceptFails
                 \/ \E c \in Conns :
                      Connect(c) \/ \E how \in {"shut", "reset"} : HangUp(c, how)
           \/ \E c \in Conns : \E req \in Requests : PeerSends(c, req)
           \/ Send \/ KilledBySend \/ UNCHANGED vars
  <2>1. UNCHANGED <<rcqu, torn, failed>>
    BY <1>1 DEF PeerSends, Send, KilledBySend, vars, primeVars
  <2>2. \A c \in Conns : peer[c] = "gone" => peer'[c] = "gone"
    BY <1>b, <1>1 DEF Start, Resolve, Socket, Bind, Listen, Wait, Accept,
                      AcceptFails, Connect, HangUp, Send, KilledBySend, Killed,
                      PeerSends, Deliver, vars, socketVars, netVars
  <2>3. \/ UNCHANGED <<pc, cur>>
        \/ pc \notin {"Handle", "Close"} /\ pc' # "Handle"
    BY <1>1 DEF Start, Resolve, Socket, Bind, Listen, Wait, Accept, AcceptFails,
                Connect, HangUp, Send, Finish, KilledBySend, Killed, PeerSends,
                Deliver, vars, socketVars
  <2> QED
    BY <1>a, <1>c, <2>1, <2>2, <2>3, LineFrame
<1>2. CASE Close /\ UNCHANGED primeVars
  <2>1. /\ UNCHANGED <<rcqu, torn, failed>> /\ cur \in Conns
        /\ pc = "Close" /\ pc' = "Wait" /\ peer' = [peer EXCEPT ![cur] = "gone"]
    BY <1>a, <1>2 DEF Close, CurInv, primeVars
  <2>2. HasNewline(rcqu)' <=> HasNewline(rcqu)
    BY <2>1 DEF HasNewline, Newline
  <2> QED
    BY <1>a, <1>b, <1>c, <2>1, <2>2 DEF LineInv
<1>3. CASE Recv
  <2>1. /\ pc = "Recv" /\ peer' = peer
        /\ res' = "error" => pc' = "Close" /\ (rcqu' # <<>> => failed')
        /\ res' # "error" /\ HasNewline(rcqu') => pc' = "Handle"
        /\ pc' = "Handle" => HasNewline(rcqu')
        /\ ~torn' => /\ \A i \in DOMAIN rcqu' : rcqu'[i].conn = cur
                     /\ HasNewline(rcqu') => Newline(Last(rcqu'))
        /\ pc' # "Wait" => cur' = cur
    BY <1>3 DEF Recv, Received, Finish, KeepCur
  <2>2. HasNewline(rcqu)' <=> HasNewline(rcqu')
    BY DEF HasNewline, Newline
  <2>3. HasNewline(rcqu') => rcqu' # <<>> /\ 1 \in DOMAIN rcqu'
    <3>1. rcqu' \in Seq(Pieces)
      BY TypeStep DEF TypeOK
    <3> QED
      BY <3>1 DEF HasNewline
  <2>4. Newline(Last(rcqu))' <=> Newline(Last(rcqu'))
    BY DEF Newline, Last
  <2> QED
    BY <2>1, <2>2, <2>3, <2>4 DEF LineInv
<1>4. CASE Handle
  <2>1. rcqu' = <<>> /\ pc' # "Handle"
    BY <1>4 DEF Handle
  <2>2. ~HasNewline(rcqu)'
    BY <2>1 DEF HasNewline
  <2> QED
    BY <2>1, <2>2 DEF LineInv
<1> QED
  BY <1>1, <1>2, <1>3, <1>4 DEF Next, Server, Environment, Rest

-----------------------------------------------------------------------------
(* Whose lines are answered.                                               *)

(* The buffer is m lines of c, of which d come before.                     *)
WholeLines(buf, c, d, m) ==
  Len(buf) = 3 * m /\ \A i \in 1..(3 * m) : buf[i] = Piece(c, 3 * d + i)

(* Whole lines are told apart by their newlines: line k of them begins     *)
(* with piece 3 * k - 2.                                                   *)
LEMMA StartsOfLines ==
  ASSUME NEW c \in Conns, NEW d \in Nat, NEW m \in Nat,
         NEW buf \in Seq(Pieces), WholeLines(buf, c, d, m)
  PROVE  /\ Starts(buf) = {3 * k - 2 : k \in 1..m}
         /\ \A k \in 1..m :
              /\ buf[3 * k - 2] = [conn |-> c, line |-> d + k, part |-> "head"]
              /\ buf[3 * k - 1] = [conn |-> c, line |-> d + k, part |-> "rest"]
              /\ Newline(buf[3 * k])
<1> USE DEF WholeLines
<1>1. DOMAIN buf = 1..(3 * m)
  OBVIOUS
<1>2. ASSUME NEW i \in 1..(3 * m)
      PROVE  /\ buf[i].part = "head" <=> i % 3 = 1
             /\ buf[i].part = "end" <=> i % 3 = 0
             /\ i % 3 = 2 => buf[i].part = "rest"
             /\ buf[i] \in Pieces /\ buf[i].conn = c
             /\ buf[i].line = ((3 * d + i - 1) \div 3) + 1
  <2>1. /\ 3 * d + i \in Nat \ {0} /\ (3 * d + i) % 3 = i % 3 /\ i % 3 \in 0..2
    OBVIOUS
  <2>2. PICK n \in Nat \ {0} : n = 3 * d + i
    BY <2>1
  <2>3. /\ Piece(c, n) \in Pieces /\ Piece(c, n).conn = c
        /\ Piece(c, n).line = ((n - 1) \div 3) + 1
        /\ n % 3 = 1 => Piece(c, n).part = "head"
        /\ n % 3 = 2 => Piece(c, n).part = "rest"
        /\ n % 3 = 0 => Piece(c, n).part = "end"
    BY PieceType
  <2>4. buf[i] = Piece(c, n)
    BY <2>2
  <2>5. n % 3 = i % 3 /\ n - 1 = 3 * d + i - 1
    BY <2>1, <2>2
  <2>6. PICK r \in 0..2 : r = i % 3
    BY <2>1
  <2>7. /\ buf[i] \in Pieces /\ buf[i].conn = c
        /\ buf[i].line = ((3 * d + i - 1) \div 3) + 1
    BY <2>3, <2>4, <2>5
  <2>8. /\ r = 1 => buf[i].part = "head"
        /\ r = 2 => buf[i].part = "rest"
        /\ r = 0 => buf[i].part = "end"
    BY <2>3, <2>4, <2>5, <2>6
  <2>9. /\ buf[i].part = "head" <=> r = 1
        /\ buf[i].part = "end" <=> r = 0
    <3>1. r = 0 \/ r = 1 \/ r = 2
      OBVIOUS
    <3> QED
      BY <2>8, <3>1
  <2> QED
    BY <2>6, <2>7, <2>8, <2>9
<1>3. ASSUME NEW k \in 1..m
      PROVE  /\ 3 * k - 2 \in 1..(3 * m) /\ (3 * k - 2) % 3 = 1
             /\ 3 * k - 1 \in 1..(3 * m) /\ (3 * k - 1) % 3 = 2
             /\ 3 * k \in 1..(3 * m) /\ (3 * k) % 3 = 0
             /\ ((3 * d + (3 * k - 2) - 1) \div 3) + 1 = d + k
             /\ ((3 * d + (3 * k - 1) - 1) \div 3) + 1 = d + k
  OBVIOUS
<1>4. ASSUME NEW k \in 1..m
      PROVE  /\ buf[3 * k - 2] = [conn |-> c, line |-> d + k, part |-> "head"]
             /\ buf[3 * k - 1] = [conn |-> c, line |-> d + k, part |-> "rest"]
             /\ Newline(buf[3 * k])
  <2>1. PICK i \in 1..(3 * m) : i = 3 * k - 2
    BY <1>3
  <2>2. PICK j \in 1..(3 * m) : j = 3 * k - 1
    BY <1>3
  <2>3. PICK l \in 1..(3 * m) : l = 3 * k
    BY <1>3
  <2>4. /\ buf[i] \in Pieces /\ buf[i].conn = c /\ buf[i].line = d + k
        /\ buf[i].part = "head"
    BY <1>2, <1>3, <2>1
  <2>5. /\ buf[j] \in Pieces /\ buf[j].conn = c /\ buf[j].line = d + k
        /\ buf[j].part = "rest"
    BY <1>2, <1>3, <2>2
  <2>6. buf[l].part = "end"
    BY <1>2, <1>3, <2>3
  <2> QED
    BY <2>1, <2>2, <2>3, <2>4, <2>5, <2>6 DEF Pieces, Newline
<1>5. ASSUME NEW i \in 1..(3 * m) PROVE i \in Starts(buf) <=> i % 3 = 1
  <2>1. CASE i = 1
    <3>1. i % 3 = 1 /\ ~(i % 3 = 0)
      BY <2>1
    <3>2. ~Newline(buf[i])
      BY <1>2, <3>1 DEF Newline
    <3> QED
      BY <1>1, <2>1, <3>1, <3>2 DEF Starts
  <2>2. CASE i # 1
    <3>1. /\ i - 1 \in 1..(3 * m) /\ ((i - 1) % 3 = 0 <=> i % 3 = 1)
          /\ ~(i % 3 = 0 /\ i % 3 = 1)
      BY <2>2
    <3>2. buf[i - 1].part = "end" <=> (i - 1) % 3 = 0
      BY <1>2, <3>1
    <3> QED
      BY <1>1, <1>2, <2>2, <3>1, <3>2 DEF Starts, Newline
  <2> QED
    BY <2>1, <2>2
<1>6. \A i \in 1..(3 * m) : i % 3 = 1 => \E k \in 1..m : i = 3 * k - 2
  <2> SUFFICES ASSUME NEW i \in 1..(3 * m), i % 3 = 1
               PROVE  \E k \in 1..m : i = 3 * k - 2
    OBVIOUS
  <2>1. (i \div 3) + 1 \in 1..m /\ i = 3 * ((i \div 3) + 1) - 2
    OBVIOUS
  <2> QED
    BY <2>1
<1>7. Starts(buf) \subseteq 1..(3 * m)
  BY <1>1 DEF Starts
<1> QED
  BY <1>3, <1>4, <1>5, <1>6, <1>7

(* The tokens are numbered as the lines are.                               *)
LEMMA PlaceOfLine ==
  ASSUME NEW m \in Nat, NEW buf, Starts(buf) = {3 * k - 2 : k \in 1..m}
  PROVE  /\ Cardinality(Starts(buf)) = m
         /\ \A k \in 1..m : Place(buf, 3 * k - 2) = k
<1>1. ASSUME NEW k \in Nat PROVE Cardinality({3 * j - 2 : j \in 1..k}) = k
  <2> DEFINE f == [j \in 1..k |-> 3 * j - 2]
             T == {3 * j - 2 : j \in 1..k}
  <2>1. f \in Bijection(1..k, T)
    <3>1. f \in [1..k -> T]
      OBVIOUS
    <3>2. \A i, j \in 1..k : f[i] = f[j] => i = j
      OBVIOUS
    <3>3. \A t \in T : \E j \in 1..k : f[j] = t
      OBVIOUS
    <3> QED
      BY <3>1, <3>2, <3>3 DEF Bijection, Injection, Surjection, IsInjective
  <2>2. ExistsBijection(1..k, T)
    BY <2>1 DEF ExistsBijection
  <2>3. IsFiniteSet(1..k) /\ Cardinality(1..k) = k
    BY FS_Interval
  <2> HIDE DEF T
  <2> QED
    BY <2>2, <2>3, FS_Bijection DEF T
<1>2. ASSUME NEW k \in 1..m PROVE Place(buf, 3 * k - 2) = k
  <2>1. {j \in Starts(buf) : j <= 3 * k - 2} = {3 * j - 2 : j \in 1..k}
    OBVIOUS
  <2> QED
    BY <1>1, <2>1 DEF Place
<1> QED
  BY <1>1, <1>2

(* Each line of the buffer gets the reply to it.                           *)
LEMMA TokensAreLines ==
  ASSUME NEW c \in Conns, NEW d \in Nat, NEW m \in Nat,
         NEW buf \in Seq(Pieces), WholeLines(buf, c, d, m),
         NEW rs \in BufferReplies(buf)
  PROVE  /\ Len(rs) <= m
         /\ \A k \in 1..Len(rs) : rs[k] \in Replies(ask[c][d + k])
         /\ rs # <<>> /\ Last(rs) # "malformed" => Len(rs) = m
<1>1. /\ Starts(buf) = {3 * k - 2 : k \in 1..m}
      /\ \A k \in 1..m :
           /\ buf[3 * k - 2] = [conn |-> c, line |-> d + k, part |-> "head"]
           /\ buf[3 * k - 1] = [conn |-> c, line |-> d + k, part |-> "rest"]
           /\ Newline(buf[3 * k])
  BY StartsOfLines
<1>2. Cardinality(Starts(buf)) = m /\ \A k \in 1..m : Place(buf, 3 * k - 2) = k
  BY <1>1, PlaceOfLine
<1>3. /\ rs \in Seq(Reply) /\ Len(rs) \in 0..m /\ DOMAIN rs = 1..Len(rs)
      /\ \A i \in Starts(buf) :
           Place(buf, i) \in DOMAIN rs => rs[Place(buf, i)] \in TokenReplies(buf, i)
      /\ Len(rs) = m \/ (rs # <<>> /\ Last(rs) = "malformed")
  <2>1. /\ rs \in UNION {[1..n -> Reply] : n \in 0..m}
        /\ \A i \in Starts(buf) :
             Place(buf, i) \in DOMAIN rs => rs[Place(buf, i)] \in TokenReplies(buf, i)
        /\ Len(rs) = m \/ (rs # <<>> /\ Last(rs) = "malformed")
    BY <1>2 DEF BufferReplies
  <2>2. PICK n \in 0..m : rs \in [1..n -> Reply]
    BY <2>1
  <2> QED
    BY <2>1, <2>2
<1>4. Len(rs) \in 0..m
  BY <1>3, Zenon
<1>5. Len(rs) <= m /\ 1..Len(rs) \subseteq 1..m
  BY ONLY <1>4, m \in Nat
<1>6. ASSUME NEW k \in 1..Len(rs) PROVE rs[k] \in Replies(ask[c][d + k])
  <2>1. k \in 1..m /\ 3 * k - 2 \in Starts(buf) /\ Place(buf, 3 * k - 2) = k
    <3>1. k \in 1..m
      BY <1>5, Zenon
    <3> QED
      BY <1>1, <1>2, <3>1, Zenon
  <2>2. rs[k] \in TokenReplies(buf, 3 * k - 2)
    BY <1>3, <2>1
  <2>3. /\ (3 * k - 2) + 1 = 3 * k - 1 /\ (3 * k - 2) + 2 = 3 * k
        /\ 3 * k - 1 \in 1..(3 * m) /\ 3 * k \in 1..(3 * m)
        /\ DOMAIN buf = 1..(3 * m)
    BY <2>1 DEF WholeLines
  <2>4. PICK i, j, l : i = 3 * k - 2 /\ j = 3 * k - 1 /\ l = 3 * k
    OBVIOUS
  <2>5. /\ i + 1 = j /\ i + 2 = l /\ j \in DOMAIN buf /\ l \in DOMAIN buf
        /\ Newline(buf[l]) /\ buf[i].part = "head"
        /\ buf[j] = [buf[i] EXCEPT !.part = "rest"]
        /\ buf[i].conn = c /\ buf[i].line = d + k
    <3>1. /\ buf[i] = [conn |-> c, line |-> d + k, part |-> "head"]
          /\ buf[j] = [conn |-> c, line |-> d + k, part |-> "rest"]
          /\ Newline(buf[l])
      BY <1>1, <2>1, <2>4
    <3>2. i + 1 = j /\ i + 2 = l /\ j \in DOMAIN buf /\ l \in DOMAIN buf
      BY <2>3, <2>4
    <3> QED
      BY <3>1, <3>2
  <2>6. TokenReplies(buf, i) = Replies(ask[c][d + k])
    BY <2>5 DEF TokenReplies
  <2> QED
    BY <2>2, <2>4, <2>6
<1> QED
  <2>1. Len(rs) <= m /\ (rs # <<>> /\ Last(rs) # "malformed" => Len(rs) = m)
    BY <1>3, <1>5, Zenon
  <2> QED
    BY <1>6, <2>1

(* What is processed is answered line by line, from where the answers have *)
(* come.                                                                   *)
LEMMA HandleOwn ==
  ASSUME TypeOK, CurInv, PieceInv, LineInv, pc = "Handle", ~torn,
         NEW c \in Conns, c = cur, NEW rs \in BufferReplies(rcqu)
  PROVE  /\ OwnUnits(Units(rs), c, 2 * (Done(c) \div 3))
         /\ rs # <<>> /\ Last(rs) # "malformed" =>
              2 * (Done(c) \div 3) + Len(Units(rs)) = 2 * (Taken(c) \div 3)
<1>1. peer[c] # "gone"
  BY DEF CurInv
<1>2. /\ Taken(c) % 3 = 0 /\ Held(c) = Len(rcqu) /\ Held(c) # 0
      /\ Done(c) \in Int /\ Done(c) >= 0 /\ Done(c) % 3 = 0
      /\ Taken(c) \in Nat /\ Len(rcqu) \in Nat /\ Done(c) = Taken(c) - Len(rcqu)
      /\ sent[c] \in Nat /\ Taken(c) <= sent[c]
  <2>1. Taken(c) % 3 = 0 /\ Held(c) = Len(rcqu) /\ Held(c) # 0
    BY <1>1, HandleEnds
  <2>2. Done(c) >= 0 /\ Done(c) % 3 = 0
    BY <1>1 DEF PieceInv
  <2>3. /\ sent[c] \in Nat /\ Len(inbox[c]) \in Nat /\ Len(rcqu) \in Nat
        /\ Taken(c) \in Nat /\ Done(c) \in Int
        /\ Taken(c) = sent[c] - Len(inbox[c]) /\ Done(c) = Taken(c) - Held(c)
    BY TakenType
  <2> QED
    BY <2>1, <2>2, <2>3
<1>3. PICK d \in Nat : d = Done(c) \div 3 /\ Done(c) = 3 * d
  <2>1. \A n \in Int : n >= 0 /\ n % 3 = 0 => n \div 3 \in Nat /\ n = 3 * (n \div 3)
    OBVIOUS
  <2> QED
    BY <1>2, <2>1
<1>4. PICK m \in Nat : Len(rcqu) = 3 * m /\ Taken(c) \div 3 = d + m
  <2>1. \A n, t \in Nat : \A e \in Nat : t % 3 = 0 /\ 3 * e = t - n =>
          n \div 3 \in Nat /\ n = 3 * (n \div 3) /\ t \div 3 = e + n \div 3
    OBVIOUS
  <2>2. PICK n \in Nat, t \in Nat : n = Len(rcqu) /\ t = Taken(c)
    BY <1>2
  <2>3. t % 3 = 0 /\ 3 * d = t - n
    BY <1>2, <1>3, <2>2
  <2>4. n \div 3 \in Nat /\ n = 3 * (n \div 3) /\ t \div 3 = d + n \div 3
    BY <2>1, <2>3
  <2> QED
    BY <2>2, <2>4
<1>5. /\ Len(rs) <= m
      /\ \A k \in 1..Len(rs) : rs[k] \in Replies(ask[c][d + k])
      /\ rs # <<>> /\ Last(rs) # "malformed" => Len(rs) = m
  <2>1. \A i \in 1..(3 * m) : rcqu[i] = Piece(c, 3 * d + i)
    <3>1. rcqu \in Seq(Pieces) /\ DOMAIN rcqu = 1..(3 * m)
      BY <1>4 DEF TypeOK
    <3> QED
      BY <1>1, <1>2, <1>3, <3>1 DEF PieceInv
  <2>2. rcqu \in Seq(Pieces)
    BY DEF TypeOK
  <2>3. WholeLines(rcqu, c, d, m)
    BY <1>4, <2>1 DEF WholeLines
  <2> QED
    BY <2>2, <2>3, TokensAreLines
<1>6. /\ rs \in Seq(Reply) /\ Len(rs) \in Nat /\ Len(Units(rs)) = 2 * Len(rs)
      /\ DOMAIN Units(rs) = 1..(2 * Len(rs))
      /\ \A i \in 1..(2 * Len(rs)) :
           (i + 1) \div 2 \in 1..Len(rs) /\ Units(rs)[i] = rs[(i + 1) \div 2]
  BY RepliesType, UnitsType
<1>7. \A k \in 1..Len(rs) : d + k \in DOMAIN ask[c]
  <2>1. ask[c] \in Seq(Requests) /\ Len(ask[c]) = (sent[c] + 1) \div 3
    BY DEF TypeOK, PieceInv
  <2>2. \A t, n \in Nat : t <= n => t \div 3 <= (n + 1) \div 3
    OBVIOUS
  <2>3. d + m <= Len(ask[c]) /\ Len(ask[c]) \in Nat
    BY <1>2, <1>4, <2>1, <2>2, SMTT(30)
  <2>4. DOMAIN ask[c] = 1..Len(ask[c])
    BY <2>1
  <2> QED
    BY <1>5, <1>6, <2>3, <2>4
<1>8. OwnUnits(Units(rs), c, 2 * d)
  <2> SUFFICES ASSUME NEW i \in 1..(2 * Len(rs))
               PROVE  /\ (2 * d + i + 1) \div 2 \in DOMAIN ask[c]
                      /\ Units(rs)[i] \in Replies(ask[c][(2 * d + i + 1) \div 2])
    BY <1>6, Zenon DEF OwnUnits
  <2>1. (2 * d + i + 1) \div 2 = d + (i + 1) \div 2
    <3>1. i \in Nat
      BY <1>6
    <3>2. \A e, j \in Nat : (2 * e + j + 1) \div 2 = e + (j + 1) \div 2
      OBVIOUS
    <3> QED
      BY <3>1, <3>2
  <2> QED
    BY <1>5, <1>6, <1>7, <2>1
<1>9. rs # <<>> /\ Last(rs) # "malformed" =>
        2 * d + Len(Units(rs)) = 2 * (Taken(c) \div 3)
  <2>1. 2 * d + 2 * m = 2 * (d + m)
    OBVIOUS
  <2> QED
    BY <1>4, <1>5, <1>6, <2>1
<1> QED
  BY <1>3, <1>8, <1>9

(* A step that neither queues nor sends a reply to c, and processes none   *)
(* of its lines.                                                           *)
LEMMA AnswerFrame ==
  ASSUME AnswerInv, ~torn, NEW c \in Conns \ cut,
         UNCHANGED <<answers[c], sdqu, result>>,
         \A k \in DOMAIN ask[c] : k \in DOMAIN ask'[c] /\ ask'[c][k] = ask[c][k],
         peer'[c] # "gone" => Done(c)' = Done(c) /\ peer[c] # "gone",
         pc' = "Send" /\ cur' = c =>
           pc = "Send" /\ cur = c /\ peer'[c] # "gone",
         pc \in {"Send", "Close", "Exit"} /\ cur = c =>
           (pc' \in {"Send", "Close", "Exit"} /\ cur' = c) \/ peer'[c] = "gone"
  PROVE  /\ OwnUnits(answers[c], c, 0)'
         /\ pc' = "Send" /\ cur' = c =>
              /\ OwnUnits(sdqu, c, Len(answers[c]))'
              /\ result' => Len(answers'[c]) + Len(sdqu') = 2 * (Done(c)' \div 3)
         /\ ~(pc' \in {"Send", "Close", "Exit"} /\ cur' = c) /\ peer'[c] # "gone" =>
              Len(answers'[c]) = 2 * (Done(c)' \div 3)
<1>1. /\ OwnUnits(answers[c], c, 0)
      /\ (pc = "Send" /\ cur = c) =>
           /\ OwnUnits(sdqu, c, Len(answers[c]))
           /\ result => Len(answers[c]) + Len(sdqu) = 2 * (Done(c) \div 3)
      /\ ~(pc \in {"Send", "Close", "Exit"} /\ cur = c) /\ peer[c] # "gone" =>
           Len(answers[c]) = 2 * (Done(c) \div 3)
  BY DEF AnswerInv
<1>2. OwnUnits(answers[c], c, 0)'
  BY <1>1 DEF OwnUnits
<1>3. OwnUnits(sdqu, c, Len(answers[c])) => OwnUnits(sdqu, c, Len(answers[c]))'
  BY DEF OwnUnits
<1> QED
  BY <1>1, <1>2, <1>3

LEMMA AnswerStep == PrimeInv /\ [Next]_vars => AnswerInv'
<1> SUFFICES ASSUME PrimeInv, [Next]_vars, ~torn', NEW c \in Conns \ cut'
             PROVE  /\ OwnUnits(answers[c], c, 0)'
                    /\ pc' = "Send" /\ cur' = c =>
                         /\ OwnUnits(sdqu, c, Len(answers[c]))'
                         /\ result' => Len(answers'[c]) + Len(sdqu')
                                         = 2 * (Done(c)' \div 3)
                    /\ ~(pc' \in {"Send", "Close", "Exit"} /\ cur' = c)
                         /\ peer'[c] # "gone" =>
                         Len(answers'[c]) = 2 * (Done(c)' \div 3)
  BY DEF AnswerInv
<1>a. TypeOK /\ CurInv /\ PieceInv /\ LineInv /\ AnswerInv /\ ReplyInv
  BY DEF PrimeInv
<1>b. /\ peer \in [Conns -> {"none", "open", "shut", "reset", "gone"}]
      /\ ask \in [Conns -> Seq(Requests)] /\ sdqu \in Seq(Reply)
      /\ answers \in [Conns -> Seq(Reply)]
  BY <1>a DEF TypeOK, SocketsType
<1>c. Listener \notin Conns
  BY SocketsAssumption DEF SocketsAssumption
<1>1. CASE \/ /\ UNCHANGED primeVars
              /\ \/ Start \/ Wait \/ Accept \/ AcceptFails
                 \/ \E d \in Conns :
                      Connect(d) \/ \E how \in {"shut", "reset"} : HangUp(d, how)
           \/ KilledBySend \/ UNCHANGED vars
  <2>1. UNCHANGED <<inbox, sent, rcqu, ask, torn, cut, answers, sdqu, result>>
    BY <1>1 DEF Start, Resolve, Socket, Bind, Listen, Wait, Accept, AcceptFails,
                Connect, HangUp, KilledBySend, Killed, vars, socketVars,
                netVars, primeVars
  <2>2. peer[c] = "gone" <=> peer'[c] = "gone"
    BY <1>b, <1>1 DEF Start, Resolve, Socket, Bind, Listen, Wait, Accept,
                      AcceptFails, Connect, HangUp, KilledBySend, Killed,
                      vars, socketVars, netVars
  <2>3. \/ UNCHANGED <<pc, cur>>
        \/ pc \notin {"Send", "Close", "Exit"} /\ pc' # "Send"
        \/ pc = "Send" /\ pc' = "Exit" /\ cur' = cur
    BY <1>1 DEF Start, Resolve, Socket, Bind, Listen, Wait, Accept, AcceptFails,
                Connect, HangUp, KilledBySend, Killed, vars, socketVars
  <2>4. Done(c)' = Done(c)
    BY <2>1 DEF Done, Taken, Held
  <2>5. pc = "Send" /\ cur = c => peer[c] # "gone"
    BY <1>a DEF CurInv
  <2> QED
    BY <1>a, <2>1, <2>2, <2>3, <2>4, <2>5, AnswerFrame
<1>2. CASE Close /\ UNCHANGED primeVars
  <2>1. /\ UNCHANGED <<sent, rcqu, ask, torn, cut, answers, sdqu, result>>
        /\ inbox' = [inbox EXCEPT ![cur] = <<>>] /\ cur \in Conns
        /\ peer' = [peer EXCEPT ![cur] = "gone"] /\ pc = "Close" /\ pc' = "Wait"
    BY <1>a, <1>2 DEF Close, CurInv, primeVars
  <2>2. c = cur => peer'[c] = "gone"
    BY <1>b, <2>1
  <2>3. c # cur => peer'[c] = peer[c] /\ Done(c)' = Done(c)
    <3>1. c # cur => peer'[c] = peer[c] /\ inbox'[c] = inbox[c]
      BY <1>a, <1>b, <2>1 DEF TypeOK
    <3> QED
      BY <2>1, <3>1 DEF Done, Taken, Held
  <2> QED
    BY <1>a, <2>1, <2>2, <2>3, AnswerFrame
<1>3. CASE Recv
  <2>1. /\ UNCHANGED <<ask, cut, answers, sdqu, result, peer>> /\ ~torn
        /\ pc = "Recv" /\ pc' # "Send"
    BY <1>3 DEF Recv, Received, Finish
  <2>2. Done(c)' = Done(c)
    BY <1>a, <1>3, RecvKeeps
  <2> QED
    BY <1>a, <2>1, <2>2, AnswerFrame
<1>4. CASE Handle
  <2>1. /\ UNCHANGED <<inbox, sent, ask, cut, answers, peer, torn, cur>>
        /\ pc = "Handle" /\ rcqu' = <<>>
    BY <1>4 DEF Handle, netVars
  <2>2. PICK rs \in BufferReplies(rcqu) :
          /\ sdqu' = sdqu \o Units(rs)
          /\ result' = (rs # <<>> /\ Last(rs) # "malformed")
          /\ pc' = CASE rs # <<>> -> "Send" [] rs = <<>> -> "Close"
    BY <1>4 DEF Handle
  <2>3. pc' \in {"Send", "Close"}
    BY <2>2
  <2>4. sdqu' = Units(rs)
    <3>1. sdqu = <<>> /\ Units(rs) \in Seq(Reply)
      BY <1>a, <2>1, RepliesType, UnitsType DEF ReplyInv
    <3> QED
      BY <2>2, <3>1
  <2>5. /\ OwnUnits(answers[c], c, 0)
        /\ peer[c] # "gone" => Len(answers[c]) = 2 * (Done(c) \div 3)
    BY <1>a, <2>1 DEF AnswerInv
  <2>6. Taken(c)' = Taken(c) /\ Held(c)' = 0
    BY <2>1 DEF Taken, Held
  <2>7. Done(c)' = Taken(c)
    <3>1. Taken(c) \in Nat
      BY <1>a, TakenType
    <3>2. Done(c)' = Taken(c) - 0
      BY <2>6 DEF Done
    <3> QED
      BY <3>1, <3>2
  <2>8. CASE c = cur
    <3>1. peer[c] # "gone"
      BY <1>a, <2>1, <2>8 DEF CurInv
    <3>2. /\ OwnUnits(Units(rs), c, Len(answers[c]))
          /\ result' => Len(answers[c]) + Len(Units(rs)) = 2 * (Taken(c) \div 3)
      BY <1>a, <2>1, <2>2, <2>5, <2>8, <3>1, HandleOwn
    <3>3. OwnUnits(sdqu, c, Len(answers[c]))'
      BY <2>1, <2>4, <3>2 DEF OwnUnits
    <3>4. OwnUnits(answers[c], c, 0)'
      BY <2>1, <2>5 DEF OwnUnits
    <3> QED
      BY <2>1, <2>3, <2>4, <2>7, <2>8, <3>2, <3>3, <3>4
  <2>9. CASE c # cur
    <3>1. peer[c] # "gone" => Done(c)' = Done(c)
      <4>1. peer[c] # "gone" => Held(c) = 0
        BY <1>a, <2>1, <2>9, HandleEnds
      <4> QED
        BY <1>a, <2>7, <4>1, TakenType
    <3>2. OwnUnits(answers[c], c, 0)'
      BY <2>1, <2>5 DEF OwnUnits
    <3> QED
      BY <2>1, <2>5, <2>9, <3>1, <3>2
  <2> QED
    BY <2>8, <2>9
<1>5. CASE Send
  <2>1. PICK o \in SendAll(Len(sdqu)) :
          /\ answers' = [answers EXCEPT ![cur] = @ \o SubSeq(sdqu, 1, o.sent)]
          /\ cut' = IF o.sent < Len(sdqu) THEN cut \union {cur} ELSE cut
          /\ pc' = IF result /\ ~o.failed THEN Finish(res) ELSE "Close"
    BY <1>5 DEF Send
  <2>2. /\ UNCHANGED <<inbox, sent, ask, peer, torn, rcqu>> /\ pc = "Send"
        /\ cur' = IF pc' = "Wait" THEN Listener ELSE cur
    BY <1>5 DEF Send, netVars, KeepCur
  <2>3. pc' \in {"Wait", "Close"} /\ (pc' = "Wait" => result) /\ cur \in Conns
    BY <1>a, <2>1, <2>2 DEF Finish, CurInv
  <2>4. Done(c)' = Done(c)
    BY <2>2 DEF Done, Taken, Held
  <2>5. c \notin cut
    BY <2>1
  <2>6. OwnUnits(answers[c], c, 0)
    BY <1>a, <2>2, <2>5 DEF AnswerInv
  <2>7. CASE c # cur
    <3>1. answers'[c] = answers[c]
      BY <1>b, <2>1, <2>7
    <3>2. OwnUnits(answers[c], c, 0)'
      BY <2>2, <2>6, <3>1 DEF OwnUnits
    <3>3. peer[c] # "gone" => Len(answers[c]) = 2 * (Done(c) \div 3)
      BY <1>a, <2>2, <2>5, <2>7 DEF AnswerInv
    <3> QED
      BY <1>c, <2>2, <2>3, <2>4, <2>7, <3>1, <3>2, <3>3
  <2>8. CASE c = cur
    <3>1. /\ OwnUnits(sdqu, c, Len(answers[c]))
          /\ result => Len(answers[c]) + Len(sdqu) = 2 * (Done(c) \div 3)
      BY <1>a, <2>2, <2>5, <2>8 DEF AnswerInv
    <3> DEFINE b == SubSeq(sdqu, 1, o.sent)
    <3>2. /\ o.sent \in 0..Len(sdqu) /\ b \in Seq(Reply) /\ Len(b) = o.sent
          /\ \A i \in 1..o.sent : b[i] = sdqu[i]
      BY <1>b, SentPrefix
    <3>3. o.sent = Len(sdqu)
      <4>1. ~(o.sent < Len(sdqu))
        BY <2>1, <2>8
      <4> QED
        BY <1>b, <3>2, <4>1
    <3>4. answers'[c] = answers[c] \o b
      BY <1>b, <2>1, <2>8
    <3> HIDE DEF b
    <3>5. /\ Len(answers'[c]) = Len(answers[c]) + Len(sdqu)
          /\ answers'[c] \in Seq(Reply)
          /\ \A i \in 1..Len(answers[c]) : answers'[c][i] = answers[c][i]
          /\ \A i \in 1..Len(sdqu) : answers'[c][Len(answers[c]) + i] = sdqu[i]
      <4>1. answers[c] \in Seq(Reply) /\ b \in Seq(Reply)
        BY <1>b, <3>2
      <4>2. /\ answers[c] \o b \in Seq(Reply)
            /\ Len(answers[c] \o b) = Len(answers[c]) + Len(b)
            /\ \A i \in 1..Len(answers[c]) : (answers[c] \o b)[i] = answers[c][i]
            /\ \A i \in 1..Len(b) : (answers[c] \o b)[Len(answers[c]) + i] = b[i]
        BY <4>1, ConcatElements
      <4> QED
        BY <3>2, <3>3, <3>4, <4>2
    <3>6. OwnUnits(answers[c], c, 0)'
      <4>1. /\ Len(answers[c]) \in Nat /\ Len(sdqu) \in Nat
            /\ DOMAIN answers[c] = 1..Len(answers[c]) /\ DOMAIN sdqu = 1..Len(sdqu)
            /\ DOMAIN answers'[c] = 1..(Len(answers[c]) + Len(sdqu))
        BY <1>b, <3>5
      <4>2. ASSUME NEW i \in 1..(Len(answers[c]) + Len(sdqu))
            PROVE  /\ (0 + i + 1) \div 2 \in DOMAIN ask[c]
                   /\ answers'[c][i] \in Replies(ask[c][(0 + i + 1) \div 2])
        <5>1. CASE i \in 1..Len(answers[c])
          BY <2>6, <3>5, <4>1, <5>1 DEF OwnUnits
        <5>2. CASE i \notin 1..Len(answers[c])
          <6>1. PICK j \in 1..Len(sdqu) : i = Len(answers[c]) + j
            <7>1. i - Len(answers[c]) \in 1..Len(sdqu)
              BY <4>1, <5>2
            <7>2. i = Len(answers[c]) + (i - Len(answers[c]))
              BY <4>1
            <7> QED
              BY <7>1, <7>2
          <6>2. /\ (Len(answers[c]) + j + 1) \div 2 \in DOMAIN ask[c]
                /\ sdqu[j] \in Replies(ask[c][(Len(answers[c]) + j + 1) \div 2])
            BY <3>1, <4>1 DEF OwnUnits
          <6>3. 0 + i + 1 = Len(answers[c]) + j + 1 /\ answers'[c][i] = sdqu[j]
            BY <3>5, <4>1, <6>1
          <6> QED
            BY <6>2, <6>3
        <5> QED
          BY <5>1, <5>2
      <4> QED
        BY <2>2, <4>1, <4>2 DEF OwnUnits
    <3> QED
      BY <2>2, <2>3, <2>4, <2>8, <3>1, <3>5, <3>6
  <2> QED
    BY <2>7, <2>8
<1>6. ASSUME NEW d \in Conns, NEW req \in Requests, PeerSends(d, req)
      PROVE  /\ OwnUnits(answers[c], c, 0)'
             /\ pc' = "Send" /\ cur' = c =>
                  /\ OwnUnits(sdqu, c, Len(answers[c]))'
                  /\ result' => Len(answers'[c]) + Len(sdqu')
                                  = 2 * (Done(c)' \div 3)
             /\ ~(pc' \in {"Send", "Close", "Exit"} /\ cur' = c)
                  /\ peer'[c] # "gone" =>
                  Len(answers'[c]) = 2 * (Done(c)' \div 3)
  <2>1. /\ UNCHANGED <<pc, cur, peer, cut, answers, sdqu, result, torn>>
        /\ ask' = ask \/ ask' = [ask EXCEPT ![d] = Append(@, req)]
    BY <1>6 DEF PeerSends, Deliver
  <2>2. \A k \in DOMAIN ask[c] : k \in DOMAIN ask'[c] /\ ask'[c][k] = ask[c][k]
    <3>1. ask'[c] = ask[c] \/ ask'[c] = Append(ask[c], req)
      BY <1>b, <2>1
    <3>2. \A k \in DOMAIN ask[c] : /\ k \in DOMAIN Append(ask[c], req)
                                  /\ Append(ask[c], req)[k] = ask[c][k]
      BY <1>b
    <3> QED
      BY <3>1, <3>2
  <2>3. Done(c)' = Done(c)
    BY <1>a, <1>6, SendsKeeps
  <2>4. pc = "Send" /\ cur = c => peer[c] # "gone"
    BY <1>a DEF CurInv
  <2> QED
    BY <1>a, <2>1, <2>2, <2>3, <2>4, AnswerFrame
<1> QED
  BY <1>1, <1>2, <1>3, <1>4, <1>5, <1>6 DEF Next, Server, Environment, Rest

-----------------------------------------------------------------------------
(* The invariant and what follows from it.                                 *)

LEMMA PrimeInit == Init => PrimeInv
<1> SUFFICES ASSUME Init PROVE PrimeInv
  OBVIOUS
<1> USE DEF Init, SocketsInit
<1>1. \A c \in Conns : Taken(c) = 0 /\ Held(c) = 0 /\ Done(c) = 0
  <2>1. Len(<<>>) = 0
    OBVIOUS
  <2> QED
    BY <2>1 DEF Taken, Held, Done
<1>2. TypeOK
  <2>1. at \in 1..(Addresses + 1) /\ sockets \in 0..Addresses
    BY SocketsAssumption DEF SocketsAssumption
  <2>2. ready \in Seq(Conns \union {Listener}) /\ backlog \in Seq(Conns)
    OBVIOUS
  <2>3. peer \in [Conns -> {"none", "open", "shut", "reset", "gone"}]
    OBVIOUS
  <2>4. SocketsType
    BY <2>1, <2>2, <2>3 DEF SocketsType
  <2>5. rcqu \in Seq(Pieces) /\ sdqu \in Seq(Reply)
    OBVIOUS
  <2>6. /\ inbox \in [Conns -> Seq(Pieces)]
        /\ ask \in [Conns -> Seq(Requests)]
        /\ answers \in [Conns -> Seq(Reply)]
    OBVIOUS
  <2>7. sent \in [Conns -> Nat]
    OBVIOUS
  <2>8. cut \subseteq Conns /\ {result, failed, torn} \subseteq BOOLEAN
    OBVIOUS
  <2> QED
    BY <2>4, <2>5, <2>6, <2>7, <2>8 DEF TypeOK
<1>3. OneSocket /\ CurInv /\ QueuesAreDone
  BY DEF OneSocket, Serving, CurInv, QueuesAreDone
<1>4. EventInv
  BY DEF EventInv
<1>5. ReplyInv
  BY DEF ReplyInv, MalformedIsLast, MalformedEnds, Range
<1>6. PieceInv
  <2>1. Len(<<>>) = 0 /\ (0 + 1) \div 3 = 0 /\ 0 % 3 = 0
    OBVIOUS
  <2> QED
    BY <1>1, <2>1 DEF PieceInv
<1>7. LineInv
  BY DEF LineInv, HasNewline
<1>8. AnswerInv
  <2>1. Len(<<>>) = 0 /\ 2 * (0 \div 3) = 0
    OBVIOUS
  <2> QED
    BY <1>1, <2>1 DEF AnswerInv, OwnUnits
<1> QED
  BY <1>2, <1>3, <1>4, <1>5, <1>6, <1>7, <1>8 DEF PrimeInv

(* Whatever connections, requests and addresses there are, the parts of    *)
(* the invariant hold together: in particular no reply is left to be sent  *)
(* and no complete request is left in the queue while the server waits,    *)
(* unless a receive has failed (main.c 101-178).                           *)
THEOREM PrimeInvariant == Spec => []PrimeInv
<1>1. PrimeInv /\ [Next]_vars => PrimeInv'
  <2> SUFFICES ASSUME PrimeInv, [Next]_vars PROVE PrimeInv'
    OBVIOUS
  <2>1. ReplyInv' /\ LineInv'
    BY ReplyStep, LineStep
  <2>2. QueuesAreDone'
    BY <2>1 DEF ReplyInv, LineInv, QueuesAreDone
  <2> QED
    BY <2>1, <2>2, TypeStep, SocketStep, CurStep, EventStep, PieceStep, AnswerStep
       DEF PrimeInv
<1> QED
  BY <1>1, PrimeInit, PTL DEF Spec

(* The replies a peer gets are those to its own lines, in their order and  *)
(* none left out, as long as the shared queue has not held data of another *)
(* connection or an unfinished line (main.c 119-173).                      *)
THEOREM OwnAnswers == Spec => []AnswersAreOwn
<1>1. PrimeInv => AnswersAreOwn
  <2> SUFFICES ASSUME PrimeInv, ~torn, NEW c \in Conns \ cut,
                      NEW i \in DOMAIN answers[c]
               PROVE  /\ (i + 1) \div 2 \in DOMAIN ask[c]
                      /\ answers[c][i] \in Replies(ask[c][(i + 1) \div 2])
    BY DEF AnswersAreOwn
  <2>1. /\ (0 + i + 1) \div 2 \in DOMAIN ask[c]
        /\ answers[c][i] \in Replies(ask[c][(0 + i + 1) \div 2])
    BY DEF PrimeInv, AnswerInv, OwnUnits
  <2>2. 0 + i + 1 = i + 1
    <3>1. answers[c] \in Seq(Reply)
      BY DEF PrimeInv, TypeOK
    <3> QED
      BY <3>1
  <2> QED
    BY <2>1, <2>2
<1> QED
  BY <1>1, PrimeInvariant, PTL

(* The reply to a malformed request is the last thing that a peer is sent, *)
(* whatever has been in the queue (is-prime-request.c 59-63, main.c 157).  *)
THEOREM MalformedCloses == Spec => []MalformedIsLast
<1>1. PrimeInv => MalformedIsLast
  BY DEF PrimeInv, ReplyInv
<1> QED
  BY <1>1, PrimeInvariant, PTL

(* When the server has nothing more to do, each peer has the replies to    *)
(* all lines it has completed, unless its connection has ended or its      *)
(* replies were cut off: no edge-triggered event is lost, and none is      *)
(* spent on half of what is there (main.c 101-178).                        *)
THEOREM LinesGetAnswers == Spec => []LinesAreAnswered
<1>1. PrimeInv => LinesAreAnswered
  <2> SUFFICES ASSUME PrimeInv, pc = "Wait", ready = <<>>, ~torn,
                      NEW c \in Conns, peer[c] # "gone", c \notin cut
               PROVE  Len(answers[c]) >= 2 * (sent[c] \div 3)
    BY DEF LinesAreAnswered
  <2>a. TypeOK /\ CurInv /\ EventInv /\ PieceInv /\ LineInv /\ AnswerInv
    BY DEF PrimeInv
  <2>1. /\ sent[c] \in Nat /\ Len(inbox[c]) \in Nat /\ Len(rcqu) \in Nat
        /\ Done(c) \in Int /\ Done(c) = Taken(c) - Held(c)
        /\ Taken(c) = sent[c] - Len(inbox[c])
    BY <2>a, TakenType
  <2>2. CASE peer[c] = "none"
    <3>1. sent[c] = 0 /\ Len(answers[c]) \in Nat
      BY <2>a, <2>2 DEF CurInv, TypeOK
    <3> QED
      BY <3>1
  <2>3. CASE peer[c] # "none"
    <3>1. peer[c] \in {"open", "shut", "reset"}
      BY <2>a, <2>3 DEF TypeOK, SocketsType
    <3>2. Range(ready) = {}
      BY DEF Range
    <3>3. backlog = <<>>
      BY <2>a, <3>2 DEF EventInv
    <3>4. Range(backlog) = {}
      BY <3>3 DEF Range
    <3>5. inbox[c] = <<>>
      BY <2>a, <3>1, <3>2, <3>4 DEF EventInv
    <3>6. Taken(c) = sent[c]
      <4>1. Len(inbox[c]) = 0
        BY <3>5
      <4> QED
        BY <2>1, <4>1
    <3>7. /\ Len(answers[c]) = 2 * (Done(c) \div 3)
          /\ Done(c) >= 0 /\ Done(c) % 3 = 0
      BY <2>a DEF AnswerInv, PieceInv
    <3>8. Held(c) \in 0..2
      <4>1. CASE Held(c) = 0
        BY <4>1
      <4>2. CASE Held(c) # 0
        <5>1. Held(c) = Len(rcqu) /\ rcqu[1].conn = c
          BY <4>2 DEF Held
        <5>2. ~HasNewline(rcqu)
          BY <2>a, <5>1 DEF LineInv
        <5>3. \A i \in DOMAIN rcqu : rcqu[i] = Piece(c, Done(c) + i)
          BY <2>a, <4>2 DEF PieceInv
        <5>4. ASSUME Len(rcqu) >= 3 PROVE FALSE
          <6>1. 3 \in DOMAIN rcqu
            BY <2>a, <2>1, <5>4 DEF TypeOK
          <6>2. Done(c) + 3 \in Nat \ {0} /\ (Done(c) + 3) % 3 = 0
            BY <2>1, <3>7
          <6>3. Piece(c, Done(c) + 3).part = "end"
            BY <6>2, PieceType
          <6> QED
            BY <5>2, <5>3, <6>1, <6>3 DEF HasNewline, Newline
        <5> QED
          BY <2>1, <5>1, <5>4
      <4> QED
        BY <4>1, <4>2
    <3>9. \A n, s \in Nat : \A h \in 0..2 :
            n % 3 = 0 /\ n = s - h => 2 * (n \div 3) >= 2 * (s \div 3)
      OBVIOUS
    <3>10. PICK n \in Nat, s \in Nat : n = Done(c) /\ s = sent[c]
      BY <2>1, <3>7
    <3>11. PICK h \in 0..2 : h = Held(c)
      BY <3>8
    <3>12. n % 3 = 0 /\ n = s - h
      BY <2>1, <3>6, <3>7, <3>10, <3>11
    <3>13. 2 * (n \div 3) >= 2 * (s \div 3)
      BY <3>9, <3>12
    <3> QED
      BY <3>7, <3>10, <3>13
  <2> QED
    BY <2>2, <2>3
<1> QED
  BY <1>1, PrimeInvariant, PTL

-----------------------------------------------------------------------------
(* The test for primes.  A set of numbers has a least one: what stands in  *)
(* for induction along the divisors that are tried.                        *)

LEMMA LeastNumber ==
  ASSUME NEW S \in SUBSET Nat, S # {}
  PROVE  \E m \in S : \A n \in S : m <= n
<1> DEFINE R == OpToRel(<, Nat)
<1>1. IsWellFoundedOn(R, Nat)
  BY NatLessThanWellFounded
<1>2. \A x, y \in Nat : <<x, y>> \in R <=> x < y
  BY DEF OpToRel
<1> HIDE DEF R
<1>3. PICK m \in S : \A n \in S : <<n, m>> \notin R
  BY <1>1, WFMin
<1>4. ASSUME NEW n \in S PROVE m <= n
  <2>1. ~(n < m)
    BY <1>2, <1>3, Zenon
  <2> QED
    BY <2>1
<1> QED
  BY <1>4

(* Products and divisors.                                                  *)
LEMMA Products ==
  /\ \A a, b, c, d \in Nat : a <= c /\ b <= d => a * b <= c * d
  /\ \A a \in Nat : a <= a * a
  /\ \A a \in Nat : a >= 2 => a < a * a
<1>1. ASSUME NEW a \in Nat, NEW b \in Nat, NEW c \in Nat, NEW d \in Nat,
             a <= c, b <= d
      PROVE  a * b <= c * d
  <2>1. PICK x \in Nat : c = a + x
    <3>1. c - a \in Nat /\ c = a + (c - a)
      BY <1>1
    <3> QED
      BY <3>1
  <2>2. PICK y \in Nat : d = b + y
    <3>1. d - b \in Nat /\ d = b + (d - b)
      BY <1>1
    <3> QED
      BY <3>1
  <2>3. (a + x) * (b + y) = a * b + a * y + x * b + x * y
    OBVIOUS
  <2>4. a * y \in Nat /\ x * b \in Nat /\ x * y \in Nat /\ a * b \in Nat
    OBVIOUS
  <2> QED
    BY <2>1, <2>2, <2>3, <2>4
<1>2. ASSUME NEW a \in Nat PROVE a <= a * a /\ (a >= 2 => a < a * a)
  <2>1. CASE a = 0
    BY <2>1
  <2>2. CASE a = 1
    BY <2>2
  <2>3. CASE a >= 2
    <3>1. 2 * a <= a * a
      BY <1>1, <2>3
    <3> QED
      BY <2>3, <3>1
  <2> QED
    BY <2>1, <2>2, <2>3
<1> QED
  BY <1>1, <1>2

LEMMA Quotients ==
  ASSUME NEW n \in Nat, NEW d \in Nat, d > 0
  PROVE  /\ n \div d \in Nat /\ n % d \in 0..(d - 1)
         /\ n % d = n - d * (n \div d)
<1>1. n \div d \in Int
  OBVIOUS
<1>2. n % d \in 0..(d - 1)
  OBVIOUS
<1>3. n % d = n - d * (n \div d)
  OBVIOUS
<1>4. n \div d >= 0
  OBVIOUS
<1> QED
  BY <1>1, <1>2, <1>3, <1>4

LEMMA Divides ==
  ASSUME NEW q \in Nat, NEW d \in Nat, q > 0
  PROVE  (q * d) % q = 0
<1> DEFINE n == q * d
           k == n \div q
           r == n % q
<1>1. n \in Nat
  OBVIOUS
<1> HIDE DEF n
<1>2. k \in Nat /\ r \in 0..(q - 1) /\ r = n - q * k
  BY <1>1, Quotients
<1> HIDE DEF k, r
<1>3. q * d = q * k + r
  <2> DEFINE p == q * k
  <2>1. p \in Nat
    BY <1>2
  <2>2. r = n - p
    BY <1>2
  <2> HIDE DEF p
  <2>3. n = p + r
    BY <1>1, <2>1, <2>2
  <2> QED
    BY <2>3 DEF p, n
<1>4. CASE d > k
  <2>1. q * (k + 1) <= q * d
    BY <1>2, <1>4, Products
  <2>2. q * (k + 1) = q * k + q /\ q * k \in Nat
    BY <1>2
  <2> QED
    BY <1>2, <1>3, <2>1, <2>2
<1>5. CASE k > d
  <2>1. q * (d + 1) <= q * k
    BY <1>2, <1>5, Products
  <2>2. q * (d + 1) = q * d + q /\ q * d \in Nat
    OBVIOUS
  <2> QED
    BY <1>2, <1>3, <2>1, <2>2
<1>6. CASE d = k
  <2>1. q * d \in Nat
    OBVIOUS
  <2> QED
    BY <1>2, <1>3, <1>6, <2>1 DEF n, r
<1> QED
  BY <1>2, <1>4, <1>5, <1>6

(* What is_prime_f returns is the textbook definition of a prime, but for  *)
(* primes so large that the next root to try has no square in range.       *)
LEMMA PrimeIsByDefinition ==
  ASSUME NEW n \in Nat, n <= MaxInt, MaxInt \in Nat
  PROVE  LET prime == n > 1 /\ \A d \in 2..(n - 1) : n % d # 0
             next == \E r \in 1..n : r * r > n /\ r * r <= MaxInt
         IN IsPrimeF(n) = IF prime /\ ~next THEN BOOLEAN ELSE {prime}
<1> DEFINE prime == n > 1 /\ \A d \in 2..(n - 1) : n % d # 0
           next == \E r \in 1..n : r * r > n /\ r * r <= MaxInt
           Stop(i) == i * i > MaxInt \/ i * i > n \/ n % i = 0
           Value(i) == IF i * i > MaxInt THEN BOOLEAN
                       ELSE IF i * i > n THEN {TRUE} ELSE {FALSE}
           IsFirst(j, i) == /\ i <= j /\ Stop(j)
                            /\ \A k \in Nat : i <= k /\ Stop(k) => j <= k
           First(i) == CHOOSE j \in Nat : IsFirst(j, i)
           Def(g) == g = [i \in Nat |->
                            IF i * i > MaxInt THEN BOOLEAN
                            ELSE IF i * i > n THEN {TRUE}
                            ELSE IF n % i = 0 THEN {FALSE} ELSE g[i + 1]]
           f == [i \in Nat |-> Value(First(i))]
           from == CHOOSE g : Def(g)
           Textbook == IsPrimeF(n) = IF prime /\ ~next THEN BOOLEAN ELSE {prime}
<1>1. ASSUME NEW i \in Nat PROVE First(i) \in Nat /\ IsFirst(First(i), i)
  <2> DEFINE stops == {j \in Nat : i <= j /\ Stop(j)}
  <2>1. i + n + 1 \in stops
    <3> DEFINE j == i + n + 1
    <3>1. j \in Nat /\ i <= j /\ j > n
      OBVIOUS
    <3> HIDE DEF j
    <3>2. j <= j * j /\ j * j \in Nat
      BY <3>1, Products
    <3>3. j * j > n
      BY <3>1, <3>2
    <3>4. j \in stops
      BY <3>1, <3>3
    <3> QED
      BY <3>4 DEF j
  <2> HIDE DEF Stop
  <2>2. PICK j \in stops : \A k \in stops : j <= k
    BY <2>1, LeastNumber
  <2>3. j \in Nat /\ IsFirst(j, i)
    BY <2>2
  <2> HIDE DEF IsFirst
  <2> QED
    BY <2>3
<1> HIDE DEF First
<1>2. ASSUME NEW i \in Nat, NEW j \in Nat, IsFirst(j, i) PROVE First(i) = j
  <2> HIDE DEF Stop
  <2> QED
    BY <1>1, <1>2
<1>3. Def(f)
  <2> SUFFICES ASSUME NEW i \in Nat
               PROVE  f[i] = IF i * i > MaxInt THEN BOOLEAN
                             ELSE IF i * i > n THEN {TRUE}
                             ELSE IF n % i = 0 THEN {FALSE} ELSE f[i + 1]
    OBVIOUS
  <2>1. CASE Stop(i)
    <3>1. IsFirst(i, i)
      BY <2>1
    <3>2. First(i) = i
      <4> HIDE DEF IsFirst
      <4> QED
        BY <1>2, <3>1
    <3>3. f[i] = Value(i)
      BY <3>2
    <3> QED
      BY <2>1, <3>3
  <2>2. CASE ~Stop(i)
    <3> DEFINE j == First(i + 1)
    <3>1. j \in Nat /\ IsFirst(j, i + 1)
      <4> HIDE DEF IsFirst
      <4> QED
        BY <1>1
    <3>2. IsFirst(j, i)
      <4> HIDE DEF Stop, j
      <4>1. i <= j
        BY <3>1
      <4>2. ASSUME NEW k \in Nat, i <= k, Stop(k) PROVE j <= k
        <5>1. k # i
          BY <2>2, <4>2
        <5>2. i + 1 <= k
          BY <4>2, <5>1
        <5> QED
          BY <3>1, <4>2, <5>2
      <4> QED
        BY <3>1, <4>1, <4>2
    <3>3. First(i) = j
      <4> HIDE DEF IsFirst, j
      <4> QED
        BY <1>2, <3>1, <3>2
    <3>4. f[i] = f[i + 1]
      <4> HIDE DEF Value
      <4> QED
        BY <3>3
    <3> HIDE DEF f
    <3> QED
      BY <2>2, <3>4
  <2> QED
    BY <2>1, <2>2
<1>4. Def(from)
  <2> HIDE DEF Def
  <2> QED
    BY <1>3
<1> HIDE DEF f, from
<1>5. IsPrimeF(n) = IF n <= 1 THEN {FALSE} ELSE from[2]
  BY DEF IsPrimeF, from
<1>6. ASSUME n <= 1 PROVE Textbook
  <2>1. prime = FALSE
    BY <1>6
  <2> QED
    BY <1>5, <1>6, <2>1
<1>7. ASSUME n > 1 PROVE Textbook
  <2> DEFINE J == First(2)
  <2>1. J \in Nat /\ 2 <= J /\ Stop(J)
    BY <1>1
  <2>2. ASSUME NEW k \in Nat, 2 <= k, k < J PROVE ~Stop(k)
    <3> HIDE DEF Stop
    <3>1. IsFirst(J, 2)
      BY <1>1
    <3> HIDE DEF J
    <3> QED
      BY <2>1, <2>2, <3>1
  <2> HIDE DEF J
  <2>3. from[2] = Value(J)
    <3> DEFINE bad == {d \in Nat : d <= J - 2 /\ from[J - d] # Value(J)}
    <3>1. from[J] = Value(J)
      BY <1>4, <2>1
    <3>2. ASSUME NEW k \in Nat, 2 <= k, k < J PROVE from[k] = from[k + 1]
      BY <1>4, <2>2, <3>2
    <3> HIDE DEF Value
    <3>3. bad = {}
      <4> SUFFICES ASSUME bad # {} PROVE FALSE
        OBVIOUS
      <4>1. PICK d \in bad : \A e \in bad : d <= e
        BY LeastNumber
      <4>2. d \in Nat /\ d <= J - 2 /\ from[J - d] # Value(J)
        OBVIOUS
      <4>3. d # 0
        <5>1. J - 0 = J
          BY <2>1
        <5> QED
          BY <3>1, <4>2, <5>1
      <4>4. d - 1 \in Nat /\ d - 1 \notin bad /\ d - 1 <= J - 2
        BY <2>1, <4>1, <4>2, <4>3
      <4>5. from[J - (d - 1)] = Value(J)
        BY <4>4
      <4>6. from[J - d] = from[(J - d) + 1]
        BY <2>1, <3>2, <4>2, <4>3
      <4>7. (J - d) + 1 = J - (d - 1)
        BY <2>1, <4>2
      <4> QED
        BY <4>2, <4>5, <4>6, <4>7
    <3>4. J - 2 \in Nat /\ J - (J - 2) = 2
      BY <2>1
    <3> QED
      BY <3>3, <3>4
  <2>4. J * J \in Nat /\ J < J * J
    BY <2>1, Products
  <2>5. CASE J * J > n
    <3>1. ASSUME NEW d \in 2..(n - 1), n % d = 0 PROVE FALSE
      <4> DEFINE q == n \div d
      <4>1. d \in Nat /\ d > 0
        OBVIOUS
      <4>2. q \in Nat /\ n = d * q
        <5>1. q \in Nat /\ 0 = n - d * q
          BY <3>1, <4>1, Quotients
        <5> HIDE DEF q
        <5> DEFINE p == d * q
        <5>2. p \in Nat /\ 0 = n - p
          BY <4>1, <5>1
        <5> HIDE DEF p
        <5>3. n = p
          BY <5>2
        <5> QED
          BY <5>1, <5>3 DEF p
      <4> HIDE DEF q
      <4>3. q >= 2
        <5>1. q # 0
          BY <1>7, <4>1, <4>2
        <5>2. q # 1
          BY <4>1, <4>2
        <5> QED
          BY <4>2, <5>1, <5>2
      <4>4. n % q = 0
        <5>1. n = q * d
          BY <4>1, <4>2
        <5> QED
          BY <4>1, <4>2, <4>3, <5>1, Divides
      <4>5. J <= d
        <5>1. d >= 2 /\ Stop(d)
          BY <3>1
        <5> HIDE DEF Stop
        <5> QED
          BY <2>1, <2>2, <4>1, <5>1
      <4>6. J <= q
        BY <2>1, <2>2, <4>2, <4>3, <4>4
      <4>7. J * J <= d * q
        BY <2>1, <4>1, <4>2, <4>5, <4>6, Products
      <4> QED
        BY <2>4, <2>5, <4>2, <4>7
    <3>2. prime = TRUE
      BY <1>7, <3>1
    <3>3. CASE next
      <4>1. PICK r \in 1..n : r * r > n /\ r * r <= MaxInt
        BY <3>3
      <4>2. r \in Nat /\ r >= 2
        <5>1. r # 1
          BY <1>7, <4>1
        <5> QED
          BY <5>1
      <4>3. J <= r
        BY <2>1, <2>2, <4>1, <4>2
      <4>4. J * J <= r * r
        BY <2>1, <4>2, <4>3, Products
      <4>5. r * r \in Nat
        BY <4>2
      <4>6. ~(J * J > MaxInt)
        BY <2>4, <4>1, <4>4, <4>5
      <4>7. from[2] = {TRUE}
        BY <2>3, <2>5, <4>6
      <4>8. IsPrimeF(n) = {TRUE}
        <5>1. ~(n <= 1)
          BY <1>7
        <5> QED
          BY <1>5, <4>7, <5>1, Zenon
      <4> HIDE DEF prime, next
      <4>9. {TRUE} = {prime}
        BY <3>2, Zenon
      <4> QED
        BY <3>3, <4>8, <4>9, Zenon
    <3>4. CASE ~next
      <4>1. n < n * n /\ n * n \in Nat
        BY <1>7, Products
      <4>2. J <= n
        BY <1>7, <2>1, <2>2, <4>1
      <4>3. J * J > MaxInt
        BY <2>1, <2>4, <2>5, <3>4, <4>2
      <4>4. from[2] = BOOLEAN
        BY <2>3, <4>3
      <4> QED
        BY <1>5, <1>7, <3>2, <3>4, <4>4
    <3> QED
      BY <3>3, <3>4
  <2>6. CASE ~(J * J > n)
    <3>1. ~(J * J > MaxInt) /\ n % J = 0
      BY <2>1, <2>4, <2>6
    <3>2. J \in 2..(n - 1)
      BY <2>1, <2>4, <2>6
    <3>3. prime = FALSE
      BY <3>1, <3>2
    <3>4. from[2] = {FALSE}
      BY <2>3, <2>6, <3>1
    <3> QED
      BY <1>5, <1>7, <3>3, <3>4
  <2> QED
    BY <2>5, <2>6
<1>8. Textbook
  <2> HIDE DEF Textbook
  <2> QED
    BY <1>6, <1>7
<1> QED
  BY <1>8

(* is_prime_f recognises primes, for every number in range, but for those  *)
(* whose loop runs into an overflow (is-prime-request.c 172-183).          *)
THEOREM PrimesByDefinition == Spec => []PrimeByDefinition
<1>1. PrimeByDefinition
  <2> SUFFICES ASSUME NEW n \in 0..MaxInt
               PROVE  LET prime == n > 1 /\ \A d \in 2..(n - 1) : n % d # 0
                          next == \E r \in 1..n : r * r > n /\ r * r <= MaxInt
                      IN IsPrimeF(n) = IF prime /\ ~next THEN BOOLEAN ELSE {prime}
    BY DEF PrimeByDefinition
  <2>1. n \in Nat /\ n <= MaxInt /\ MaxInt \in Nat
    BY PrimeAssumption DEF PrimeAssumption
  <2> QED
    BY <2>1, PrimeIsByDefinition
<1> QED
  BY <1>1, PTL
=============================================================================
