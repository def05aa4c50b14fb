--------------------------- MODULE EchoServerProofs ---------------------------
(***************************************************************************)
(* Proofs about EchoServer for any connections, buffer and number of       *)
(* addresses and of bytes: its inductive invariant, conjunct by conjunct,  *)
(* and the order and completeness of the echo.                             *)
(***************************************************************************)
EXTENDS EchoServer, TLAPS

(* What is left of a sequence when an element is removed.                  *)
LEMMA RemoveAtType ==
  ASSUME NEW S, NEW s \in Seq(S), NEW i \in DOMAIN s
  PROVE  RemoveAt(s, i) \in Seq(S)
BY DEF RemoveAt

(* The elements of a sequence with one appended, and of two put together.  *)
LEMMA AppendElements ==
  ASSUME NEW S, NEW s \in Seq(S), NEW e \in S
  PROVE  /\ Len(Append(s, e)) = Len(s) + 1
         /\ \A i \in 1..Len(s) : Append(s, e)[i] = s[i]
         /\ Append(s, e)[Len(s) + 1] = e
OBVIOUS

LEMMA ConcatElements ==
  ASSUME NEW S, NEW s \in Seq(S), NEW t \in Seq(S)
  PROVE  /\ Len(s \o t) = Len(s) + Len(t)
         /\ \A i \in 1..Len(s) : (s \o t)[i] = s[i]
         /\ \A i \in 1..Len(t) : (s \o t)[Len(s) + i] = t[i]
OBVIOUS

-----------------------------------------------------------------------------
(* The invariant's parts.                                                  *)

LEMMA NotifiedType ==
  ASSUME SocketsType, NEW fd
  PROVE  Notified(fd) \in Seq(Conns \union {Listener})
BY DEF SocketsType, Notified

(* What Received leaves.                                                   *)
LEMMA ReceivedFacts ==
  ASSUME TypeOK, CurInv, pc = "Recv", Received
  PROVE  /\ cur \in Conns
         /\ inbox' = [inbox EXCEPT ![cur] = <<>>]
         /\ res' \in {"again", "closed", "error"}
         /\ res' = "closed" => peer[cur] \in {"shut", "reset"}
         /\ res' = "error" => peer[cur] = "reset"
         /\ UNCHANGED <<startVars, ready, backlog, open, peer>>
BY DEF Received, CurInv

(* Steps that change nothing of EchoServer's own.                          *)
LEMMA TypeFrame ==
  ASSUME TypeOK, UNCHANGED echoVars, SocketsType',
         inbox' \in [Conns -> Seq(Byte)]
  PROVE  TypeOK'
BY DEF TypeOK, echoVars, Byte

LEMMA SocketsTypeStep ==
  ASSUME TypeOK, CurInv, OneSocket,
         \/ Start \/ Wait \/ Accept \/ Close \/ AcceptFails
         \/ \E c \in Conns :
              Connect(c) \/ \E how \in {"shut", "reset"} : HangUp(c, how)
  PROVE  SocketsType' /\ inbox' \in [Conns -> Seq(Byte)]
<1> USE SocketsAssumption DEF SocketsAssumption, TypeOK, SocketsType
<1>1. CASE Resolve
  BY <1>1 DEF Resolve, startVars, netVars
<1>2. CASE Socket
  <2>1. at' \in 1..(Addresses + 1) /\ sockets' \in 0..Addresses
    <3> HIDE DEF TypeOK
    <3>1. sockets = 0 /\ at \in 1..(Addresses + 1)
      BY <1>2 DEF TypeOK, Socket, OneSocket
    <3> QED
      BY <1>2, <3>1 DEF Socket, startVars
  <2> QED
    BY <1>2, <2>1 DEF Socket, netVars
<1>3. CASE Bind
  <2>1. at' \in 1..(Addresses + 1) /\ sockets' \in 0..Addresses
    <3> HIDE DEF TypeOK
    <3>1. sockets = 1 /\ at \in 1..(Addresses + 1) /\ at <= Addresses
      BY <1>3 DEF TypeOK, Bind, OneSocket
    <3> QED
      BY <1>3, <3>1 DEF Bind, startVars
  <2> QED
    BY <1>3, <2>1 DEF Bind, netVars
<1>4. CASE Listen
  BY <1>4 DEF Listen, netVars
<1>5. CASE Wait
  <2>1. /\ cur' \in Conns \union {Listener}
        /\ ready' \in Seq(Conns \union {Listener})
    <3>1. /\ Head(ready) \in Conns \union {Listener}
          /\ Tail(ready) \in Seq(Conns \union {Listener})
          /\ Append(Tail(ready), Head(ready)) \in Seq(Conns \union {Listener})
      BY <1>5 DEF Wait
    <3> QED
      BY <1>5, <3>1 DEF Wait
  <2> QED
    BY <1>5, <2>1 DEF Wait, startVars
<1>6. CASE Accept
  <2>1. /\ open' \subseteq Conns /\ backlog' \in Seq(Conns)
        /\ ready' \in Seq(Conns \union {Listener})
    <3>1. /\ Head(backlog) \in Conns /\ Tail(backlog) \in Seq(Conns)
          /\ Append(ready, Head(backlog)) \in Seq(Conns \union {Listener})
      BY <1>6 DEF Accept, CurInv
    <3> QED
      BY <1>6, <3>1 DEF Accept
  <2> QED
    BY <1>6, <2>1 DEF Accept, startVars
<1>7. CASE Close
  <2>1. ready' \in Seq(Conns \union {Listener})
    BY <1>7, RemoveAtType DEF Close
  <2>2. cur \in Conns
    BY <1>7 DEF Close, CurInv
  <2>3. /\ cur' \in Conns \union {Listener} /\ open' \subseteq Conns
        /\ peer' \in [Conns -> {"none", "open", "shut", "reset", "gone"}]
        /\ inbox' \in [Conns -> Seq(Byte)]
    BY <1>7, <2>2 DEF Close, KeepCur
  <2> QED
    BY <1>7, <2>1, <2>3 DEF Close, startVars
<1>8. ASSUME NEW c \in Conns, Connect(c)
      PROVE  SocketsType' /\ inbox' \in [Conns -> Seq(Byte)]
  <2>1. /\ ready' \in Seq(Conns \union {Listener}) /\ backlog' \in Seq(Conns)
        /\ peer' \in [Conns -> {"none", "open", "shut", "reset", "gone"}]
    <3>1. Append(backlog, c) \in Seq(Conns)
      OBVIOUS
    <3>2. backlog' \in Seq(Conns) /\ ready' \in Seq(Conns \union {Listener})
      BY <1>8, <3>1, NotifiedType DEF Connect
    <3>3. peer' = [peer EXCEPT ![c] = "open"]
      BY <1>8 DEF Connect
    <3> QED
      BY <3>2, <3>3
  <2> QED
    BY <1>8, <2>1 DEF Connect, startVars
<1>9. ASSUME NEW c \in Conns, NEW how \in {"shut", "reset"}, HangUp(c, how)
      PROVE  SocketsType' /\ inbox' \in [Conns -> Seq(Byte)]
  <2>1. /\ ready' \in Seq(Conns \union {Listener})
        /\ peer' \in [Conns -> {"none", "open", "shut", "reset", "gone"}]
    BY <1>9, NotifiedType DEF HangUp
  <2> QED
    BY <1>9, <2>1 DEF HangUp, startVars
<1>10. CASE AcceptFails
  BY <1>10 DEF AcceptFails, startVars, netVars
<1> QED
  BY <1>1, <1>2, <1>3, <1>4, <1>5, <1>6, <1>7, <1>8, <1>9, <1>10 DEF Start

LEMMA TypeStep == EchoInv /\ [Next]_vars => TypeOK'
<1> SUFFICES ASSUME EchoInv, [Next]_vars PROVE TypeOK'
  OBVIOUS
<1>a. TypeOK /\ CurInv /\ OneSocket
  BY DEF EchoInv
<1> USE EchoAssumption DEF EchoAssumption
<1>1. ASSUME UNCHANGED echoVars,
             \/ Start \/ Wait \/ Accept \/ Close \/ AcceptFails
             \/ \E c \in Conns :
                  Connect(c) \/ \E how \in {"shut", "reset"} : HangUp(c, how)
      PROVE  TypeOK'
  BY <1>a, <1>1, SocketsTypeStep, TypeFrame
<1>2. CASE Recv
  <2>1. /\ cur' \in Conns \union {Listener} /\ data' \in Seq(Byte)
        /\ inbox' \in [Conns -> Seq(Byte)]
    <3>1. /\ inbox[cur] \in Seq(Byte) /\ <<>> \in Seq(Byte)
          /\ qu \o inbox[cur] = inbox[cur]
      BY <1>a, <1>2, ReceivedFacts DEF Recv, TypeOK
    <3>2. data' \in Seq(Byte)
      BY <1>2, <3>1 DEF Recv
    <3>3. inbox' \in [Conns -> Seq(Byte)]
      BY <1>a, <1>2, <3>1, ReceivedFacts DEF Recv, TypeOK
    <3>4. cur' \in Conns \union {Listener}
      BY <1>a, <1>2 DEF Recv, KeepCur, TypeOK, SocketsType
    <3> QED
      BY <3>2, <3>3, <3>4
  <2>2. SocketsType'
    BY <1>a, <1>2, <2>1, ReceivedFacts DEF Recv, startVars, TypeOK, SocketsType
  <2> QED
    BY <1>a, <1>2, <2>1, <2>2 DEF Recv, TypeOK
<1>3. ASSUME NEW k \in 1..SndBuf, Send(k) PROVE TypeOK'
  <2>1. /\ cur \in Conns /\ k \in Nat /\ k <= Len(data) /\ data \in Seq(Byte)
        /\ Len(data) - k \in Nat
    BY <1>a, <1>3 DEF Send, CurInv, TypeOK
  <2>2. SocketsType' /\ inbox' = inbox
    BY <1>a, <1>3 DEF Send, KeepCur, startVars, netVars, TypeOK, SocketsType
  <2>3. echoed' \in [Conns -> Seq(Byte)]
    BY <1>a, <1>3, <2>1 DEF Send, TypeOK
  <2>4. unread' \in [Conns -> 0..SndBuf]
    BY <1>a, <1>3, <2>1 DEF Send, TypeOK
  <2>5. data' \in Seq(Byte)
    <3>1. SubSeq(data, k + 1, Len(data)) \in Seq(Byte)
      BY <2>1
    <3> QED
      <4>1. data' = SubSeq(data, k + 1, Len(data)) \/ data' = <<>>
        BY <1>3 DEF Send
      <4>2. <<>> \in Seq(Byte)
        OBVIOUS
      <4> QED
        BY <3>1, <4>1, <4>2
  <2>6. total_sent' \in Nat
    BY <1>a, <1>3, <2>1 DEF Send, TypeOK
  <2>7. cut' \subseteq Conns /\ leaked' \subseteq cut'
    BY <1>a, <1>3, <2>1 DEF Send, TypeOK
  <2> QED
    BY <1>a, <1>3, <2>2, <2>3, <2>4, <2>5, <2>6, <2>7 DEF Send, TypeOK
<1>4. CASE SendFails
  <2>1. SocketsType' /\ inbox' = inbox
    BY <1>a, <1>4 DEF SendFails, KeepCur, startVars, netVars, TypeOK, SocketsType
  <2> QED
    BY <1>a, <1>4, <2>1 DEF SendFails, CurInv, TypeOK
<1>5. ASSUME NEW c \in Conns, PeerSends(c) PROVE TypeOK'
  <2>1. ready' \in Seq(Conns \union {Listener})
    BY <1>a, <1>5, NotifiedType DEF PeerSends, Deliver, TypeOK
  <2>2. inbox' \in [Conns -> Seq(Byte)] /\ sent' \in [Conns -> Nat]
    <3>1. <<<<c, sent[c] + 1>>>> \in Seq(Byte) /\ inbox[c] \in Seq(Byte)
      BY <1>a DEF TypeOK, Byte
    <3>2. inbox[c] \o <<<<c, sent[c] + 1>>>> \in Seq(Byte)
      BY <3>1
    <3> QED
      <4>1. inbox' = [inbox EXCEPT ![c] = inbox[c] \o <<<<c, sent[c] + 1>>>>]
        BY <1>5 DEF PeerSends, Deliver
      <4>2. sent' = [sent EXCEPT ![c] = sent[c] + 1]
        BY <1>5 DEF PeerSends
      <4> QED
        BY <1>a, <3>2, <4>1, <4>2 DEF TypeOK
  <2>3. SocketsType'
    BY <1>a, <1>5, <2>1 DEF PeerSends, Deliver, startVars, TypeOK, SocketsType
  <2> QED
    BY <1>a, <1>5, <2>2, <2>3 DEF PeerSends, TypeOK
<1>6. ASSUME NEW c \in Conns, PeerReads(c) PROVE TypeOK'
  <2>1. SocketsType' /\ inbox' = inbox
    BY <1>a, <1>6
       DEF PeerReads, socketVars, startVars, netVars, TypeOK, SocketsType
  <2> QED
    BY <1>a, <1>6, <2>1 DEF PeerReads, TypeOK
<1>7. CASE KilledBySend
  <2>1. SocketsType' /\ inbox' = inbox /\ UNCHANGED echoVars
    BY <1>a, <1>7
       DEF KilledBySend, Killed, startVars, netVars, TypeOK, SocketsType
  <2> QED
    BY <1>a, <2>1, TypeFrame DEF TypeOK
<1>8. CASE UNCHANGED vars
  <2>1. SocketsType' /\ inbox' = inbox /\ UNCHANGED echoVars
    BY <1>a, <1>8
       DEF vars, socketVars, startVars, netVars, TypeOK, SocketsType
  <2> QED
    BY <1>a, <2>1, TypeFrame DEF TypeOK
<1> QED
  BY <1>1, <1>2, <1>3, <1>4, <1>5, <1>6, <1>7, <1>8
     DEF Next, Server, Environment, Rest

-----------------------------------------------------------------------------
LEMMA SocketStep == EchoInv /\ [Next]_vars => OneSocket'
<1> SUFFICES ASSUME EchoInv, [Next]_vars PROVE OneSocket'
  OBVIOUS
<1>a. OneSocket /\ TypeOK
  BY DEF EchoInv
<1> USE DEF OneSocket, Serving
<1>1. CASE Resolve
  BY <1>a, <1>1 DEF Resolve, startVars
<1>2. CASE Socket
  BY <1>a, <1>2 DEF Socket, startVars
<1>3. CASE Bind
  BY <1>a, <1>3 DEF Bind, startVars
<1>4. CASE Listen
  BY <1>a, <1>4 DEF Listen
<1>5. CASE Wait \/ Accept \/ Close
  BY <1>a, <1>5 DEF Wait, Accept, Close, startVars
<1>6. CASE Recv
  BY <1>a, <1>6 DEF Recv, Received, Finish, startVars
<1>7. ASSUME NEW k \in 1..SndBuf, Send(k) PROVE OneSocket'
  BY <1>a, <1>7 DEF Send, Finish, startVars
<1>8. CASE SendFails
  BY <1>a, <1>8 DEF SendFails, startVars
<1>9. ASSUME NEW c \in Conns, PeerSends(c) \/ PeerReads(c) PROVE OneSocket'
  BY <1>a, <1>9 DEF PeerSends, PeerReads, Deliver, socketVars, startVars
<1>10. ASSUME NEW c \in Conns, NEW how \in {"shut", "reset"},
              Connect(c) \/ HangUp(c, how)
       PROVE  OneSocket'
  BY <1>a, <1>10 DEF Connect, HangUp, startVars
<1>11. CASE AcceptFails \/ KilledBySend
  BY <1>a, <1>11 DEF AcceptFails, KilledBySend, Killed, startVars
<1>12. CASE UNCHANGED vars
  BY <1>a, <1>12 DEF vars, socketVars, startVars
<1> QED
  BY <1>1, <1>2, <1>3, <1>4, <1>5, <1>6, <1>7, <1>8, <1>9, <1>10, <1>11, <1>12
     DEF Next, Server, Start, Environment, Rest

LEMMA CurStep == EchoInv /\ [Next]_vars => CurInv'
<1> SUFFICES ASSUME EchoInv, [Next]_vars PROVE CurInv'
  OBVIOUS
<1>a. CurInv /\ TypeOK /\ InboxInv
  BY DEF EchoInv
<1> USE DEF CurInv
<1>1. CASE Start
  BY <1>a, <1>1 DEF Start, Resolve, Socket, Bind, Listen
<1>2. CASE Wait
  <2>1. ready # <<>> => Head(ready) \in Conns \union {Listener}
    BY <1>a DEF TypeOK, SocketsType
  <2>2. ASSUME pc' = "Recv"
        PROVE  cur' \in Conns /\ peer[cur'] \in {"open", "shut", "reset"}
    <3>1. cur' \in Conns /\ Readable(cur') /\ cur' # Listener
      BY <1>2, <2>1, <2>2 DEF Wait
    <3> QED
      BY <1>a, <3>1 DEF Readable, InboxInv, TypeOK, SocketsType
  <2>3. pc' = "Accept" => backlog # <<>>
    BY <1>2 DEF Wait, Readable
  <2>4. pc' \in {"Wait", "Accept", "Recv"} /\ UNCHANGED <<backlog, peer>>
    BY <1>2 DEF Wait
  <2> QED
    BY <2>2, <2>3, <2>4
<1>3. CASE Accept \/ Close \/ SendFails \/ AcceptFails \/ KilledBySend
  BY <1>a, <1>3 DEF Accept, Close, SendFails, AcceptFails, KilledBySend, Killed
<1>4. CASE Recv
  <2>1. pc' # "Wait" => cur' = cur
    BY <1>4 DEF Recv, KeepCur
  <2>2. /\ pc' \in {"Wait", "Send", "Close"}
        /\ pc' = "Close" => res' # "again"
        /\ pc' = "Send" => res' # "error"
    BY <1>4 DEF Recv, Finish
  <2>3. /\ inbox'[cur] = <<>> /\ UNCHANGED <<peer, backlog>>
        /\ peer[cur] \in {"open", "shut", "reset"}
    BY <1>a, <1>4, ReceivedFacts DEF Recv, TypeOK
  <2> QED
    BY <1>a, <1>4, <2>1, <2>2, <2>3, ReceivedFacts DEF Recv
<1>5. ASSUME NEW k \in 1..SndBuf, Send(k) PROVE CurInv'
  <2>1. /\ pc' \in {"Wait", "Send", "Close"} /\ (pc' # "Wait" => cur' = cur)
        /\ pc' = "Close" => res # "again"
        /\ UNCHANGED <<res, peer, inbox, backlog>>
    BY <1>5 DEF Send, KeepCur, Finish, netVars
  <2> QED
    BY <1>a, <1>5, <2>1 DEF Send
<1>6. ASSUME NEW c \in Conns, PeerSends(c) PROVE CurInv'
  <2>1. /\ UNCHANGED <<pc, cur, res, peer, backlog>> /\ peer[c] = "open"
        /\ \A d \in Conns : d # c => inbox'[d] = inbox[d]
    BY <1>a, <1>6 DEF PeerSends, Deliver, TypeOK
  <2> QED
    BY <1>a, <2>1
<1>7. ASSUME NEW c \in Conns, PeerReads(c) PROVE CurInv'
  BY <1>a, <1>7 DEF PeerReads, socketVars, netVars
<1>8. ASSUME NEW c \in Conns, Connect(c) PROVE CurInv'
  <2>1. /\ UNCHANGED <<pc, cur, res, inbox>>
        /\ peer[c] = "none" /\ \A d \in Conns : d # c => peer'[d] = peer[d]
    BY <1>a, <1>8 DEF Connect, TypeOK, SocketsType
  <2>2. backlog' # <<>>
    <3>1. Append(backlog, c) # <<>>
      <4>1. backlog \in Seq(Conns)
        BY <1>a DEF TypeOK, SocketsType
      <4>2. Len(Append(backlog, c)) = Len(backlog) + 1 /\ Len(backlog) \in Nat
        BY <4>1
      <4> QED
        BY <4>2
    <3> QED
      BY <1>8, <3>1 DEF Connect
  <2> QED
    BY <1>a, <2>1, <2>2
<1>9. ASSUME NEW c \in Conns, NEW how \in {"shut", "reset"}, HangUp(c, how)
      PROVE  CurInv'
  <2>1. /\ UNCHANGED <<pc, cur, res, inbox, backlog>>
        /\ \A d \in Conns : d # c => peer'[d] = peer[d]
        /\ peer'[c] \in {"shut", "reset"} /\ (peer[c] = "reset" => FALSE)
    BY <1>a, <1>9 DEF HangUp, TypeOK, SocketsType
  <2> QED
    BY <1>a, <2>1
<1>10. CASE UNCHANGED vars
  BY <1>a, <1>10 DEF vars, socketVars, netVars
<1> QED
  BY <1>1, <1>2, <1>3, <1>4, <1>5, <1>6, <1>7, <1>8, <1>9, <1>10
     DEF Next, Server, Environment, Rest

-----------------------------------------------------------------------------
(* A step that takes nothing and sends nothing, and after which no more    *)
(* connections are without a peer.                                         *)
LEMMA InboxFrame ==
  ASSUME InboxInv, UNCHANGED <<inbox, sent>>,
         \A c \in Conns : peer'[c] \in {"none", "gone"} =>
                            peer[c] \in {"none", "gone"}
  PROVE  InboxInv'
BY DEF InboxInv, Taken

(* A step that empties what has been received from c.                      *)
LEMMA InboxEmptied ==
  ASSUME InboxInv, TypeOK, NEW c \in Conns, UNCHANGED sent,
         inbox' = [inbox EXCEPT ![c] = <<>>],
         \A d \in Conns : d # c => peer'[d] = peer[d]
  PROVE  InboxInv'
<1>1. \A d \in Conns : d # c => inbox'[d] = inbox[d]
  BY DEF TypeOK
<1>2. inbox'[c] = <<>> /\ Len(<<>>) = 0 /\ sent[c] \in Nat
  BY DEF TypeOK
<1> QED
  BY <1>1, <1>2 DEF InboxInv, Taken

LEMMA InboxStep == EchoInv /\ [Next]_vars => InboxInv'
<1> SUFFICES ASSUME EchoInv, [Next]_vars PROVE InboxInv'
  OBVIOUS
<1>a. InboxInv /\ TypeOK /\ CurInv
  BY DEF EchoInv
<1>1. CASE (Start \/ Wait \/ Accept \/ AcceptFails) /\ UNCHANGED echoVars
  <2>1. UNCHANGED <<inbox, sent, peer>>
    BY <1>1 DEF Start, Resolve, Socket, Bind, Listen, Wait, Accept,
                AcceptFails, netVars, echoVars
  <2> QED
    BY <1>a, <2>1, InboxFrame
<1>2. CASE Close /\ UNCHANGED echoVars
  <2>1. /\ cur \in Conns /\ inbox' = [inbox EXCEPT ![cur] = <<>>]
        /\ sent' = sent /\ \A d \in Conns : d # cur => peer'[d] = peer[d]
    BY <1>a, <1>2 DEF Close, CurInv, echoVars, TypeOK, SocketsType
  <2> QED
    BY <1>a, <2>1, InboxEmptied
<1>3. CASE Recv
  <2>1. /\ cur \in Conns /\ inbox' = [inbox EXCEPT ![cur] = <<>>]
        /\ UNCHANGED <<sent, peer>>
    BY <1>a, <1>3, ReceivedFacts DEF Recv
  <2> QED
    BY <1>a, <2>1, InboxEmptied
<1>4. ASSUME NEW k \in 1..SndBuf, Send(k) PROVE InboxInv'
  BY <1>a, <1>4, InboxFrame DEF Send, netVars
<1>5. CASE SendFails
  BY <1>a, <1>5, InboxFrame DEF SendFails, netVars
<1>6. ASSUME NEW c \in Conns, PeerSends(c) PROVE InboxInv'
  <2>1. /\ sent[c] \in Nat /\ inbox[c] \in Seq(Byte)
        /\ inbox'[c] = Append(inbox[c], <<c, sent[c] + 1>>)
        /\ sent'[c] = sent[c] + 1
        /\ peer'[c] = "open"
    <3>1. inbox'[c] = inbox[c] \o <<<<c, sent[c] + 1>>>>
      BY <1>a, <1>6 DEF PeerSends, Deliver, TypeOK
    <3>2. inbox[c] \in Seq(Byte) /\ <<c, sent[c] + 1>> \in Byte
      BY <1>a DEF TypeOK, Byte
    <3>3. inbox[c] \o <<<<c, sent[c] + 1>>>> = Append(inbox[c], <<c, sent[c] + 1>>)
      BY <3>2
    <3> QED
      BY <1>a, <1>6, <3>1, <3>2, <3>3 DEF PeerSends, Deliver, TypeOK
  <2>2. \A d \in Conns : d # c => /\ inbox'[d] = inbox[d]
                                  /\ sent'[d] = sent[d]
                                  /\ peer'[d] = peer[d]
    BY <1>a, <1>6 DEF PeerSends, Deliver, TypeOK
  <2>3. /\ Len(inbox'[c]) = Len(inbox[c]) + 1
        /\ \A i \in 1..Len(inbox[c]) : inbox'[c][i] = inbox[c][i]
        /\ inbox'[c][Len(inbox[c]) + 1] = <<c, sent[c] + 1>>
    <3>1. <<c, sent[c] + 1>> \in Byte
      BY <2>1 DEF Byte
    <3> QED
      BY <2>1, <3>1, AppendElements
  <2>4. /\ Len(inbox'[c]) <= sent'[c]
        /\ \A i \in 1..Len(inbox'[c]) :
             inbox'[c][i] = <<c, sent'[c] - Len(inbox'[c]) + i>>
    BY <1>a, <2>1, <2>3, SMTT(30) DEF InboxInv, Taken
  <2>5. \A d \in Conns : d # c =>
          /\ Len(inbox'[d]) <= sent'[d]
          /\ \A i \in 1..Len(inbox'[d]) :
               inbox'[d][i] = <<d, sent'[d] - Len(inbox'[d]) + i>>
          /\ peer'[d] \in {"none", "gone"} => inbox'[d] = <<>>
    BY <1>a, <2>2 DEF InboxInv, Taken
  <2>6. peer'[c] \notin {"none", "gone"}
    BY <2>1
  <2> QED
    BY <2>4, <2>5, <2>6 DEF InboxInv, Taken
<1>7. ASSUME NEW c \in Conns, NEW how \in {"shut", "reset"},
             (Connect(c) \/ HangUp(c, how)) /\ UNCHANGED echoVars
      PROVE  InboxInv'
  <2>1. /\ UNCHANGED <<inbox, sent>>
        /\ \A d \in Conns : peer'[d] \in {"none", "gone"} => peer'[d] = peer[d]
    BY <1>a, <1>7 DEF Connect, HangUp, echoVars, TypeOK, SocketsType
  <2> QED
    BY <1>a, <2>1, InboxFrame
<1>8. CASE (\E c \in Conns : PeerReads(c)) \/ KilledBySend \/ UNCHANGED vars
  <2>1. UNCHANGED <<inbox, sent, peer>>
    BY <1>8 DEF PeerReads, KilledBySend, Killed, vars, socketVars, netVars,
                echoVars
  <2> QED
    BY <1>a, <2>1, InboxFrame
<1> QED
  BY <1>1, <1>2, <1>3, <1>4, <1>5, <1>6, <1>7, <1>8
     DEF Next, Server, Environment, Rest

-----------------------------------------------------------------------------
(* A step that leaves what is being sent alone.                            *)
LEMMA DataFrame ==
  ASSUME DataInv, TypeOK,
         UNCHANGED <<pc, cur, data, sent>>,
         pc = "Send" => Len(inbox'[cur]) = Len(inbox[cur])
  PROVE  DataInv'
BY DEF DataInv, Taken

LEMMA DataStep == EchoInv /\ [Next]_vars => DataInv'
<1> SUFFICES ASSUME EchoInv, [Next]_vars PROVE DataInv'
  OBVIOUS
<1>a. DataInv /\ InboxInv /\ TypeOK /\ CurInv
  BY DEF EchoInv
<1>1. CASE Start \/ Wait \/ Accept \/ Close \/ SendFails \/ AcceptFails
           \/ KilledBySend
  <2>1. pc' # "Send"
    BY <1>1 DEF Start, Resolve, Socket, Bind, Listen, Wait, Accept, Close,
                SendFails, AcceptFails, KilledBySend, Killed
  <2> QED
    BY <2>1 DEF DataInv
<1>2. CASE Recv
  <2> SUFFICES ASSUME pc' = "Send" PROVE DataInv'
    BY DEF DataInv
  <2>1. /\ cur \in Conns /\ cur' = cur /\ sent' = sent
        /\ inbox'[cur] = <<>> /\ data' = inbox[cur]
    <3>1. inbox[cur] \in Seq(Byte) /\ qu \o inbox[cur] = inbox[cur]
      BY <1>a, <1>2, ReceivedFacts DEF Recv, TypeOK
    <3>2. data' # <<>> /\ cur' = cur /\ sent' = sent
      BY <1>2 DEF Recv, Finish, KeepCur
    <3> QED
      BY <1>a, <1>2, <3>1, <3>2, ReceivedFacts DEF Recv, TypeOK
  <2>2. sent[cur] \in Nat /\ Len(inbox'[cur]) = 0
    BY <1>a, <2>1 DEF TypeOK
  <2>3. /\ Len(data') <= sent[cur]
        /\ \A i \in 1..Len(data') :
             data'[i] = <<cur, sent[cur] - Len(data') + i>>
    BY <1>a, <2>1 DEF InboxInv, Taken
  <2> QED
    BY <2>1, <2>2, <2>3 DEF DataInv, Taken
<1>3. ASSUME NEW k \in 1..SndBuf, Send(k) PROVE DataInv'
  <2> SUFFICES ASSUME pc' = "Send" PROVE DataInv'
    BY DEF DataInv
  <2>1. /\ pc = "Send" /\ cur \in Conns /\ cur' = cur
        /\ UNCHANGED <<sent, inbox>>
        /\ k \in Nat /\ k > 0 /\ k <= Len(data) /\ data \in Seq(Byte)
    BY <1>a, <1>3, EchoAssumption
       DEF Send, KeepCur, netVars, CurInv, TypeOK, EchoAssumption
  <2>2. data' = SubSeq(data, k + 1, Len(data))
    BY <1>3 DEF Send, Finish
  <2>3. Taken(cur) \in Int
    BY <1>a, <2>1 DEF TypeOK, Taken
  <2>4. /\ Len(data') = Len(data) - k
        /\ \A i \in 1..Len(data') : data'[i] = data[k + i]
    BY <2>1, <2>2
  <2>5. /\ Len(data) <= Taken(cur)
        /\ \A i \in 1..Len(data) : data[i] = <<cur, Taken(cur) - Len(data) + i>>
    BY <1>a, <2>1 DEF DataInv
  <2>6. Len(data) \in Nat
    BY <2>1
  <2>7. /\ Len(data') <= Taken(cur)
        /\ \A i \in 1..Len(data') :
             data'[i] = <<cur, Taken(cur) - Len(data') + i>>
    <3>1. Len(data') <= Taken(cur)
      BY <2>1, <2>3, <2>4, <2>5, <2>6
    <3>2. ASSUME NEW i \in 1..Len(data')
          PROVE  data'[i] = <<cur, Taken(cur) - Len(data') + i>>
      <4>1. k + i \in 1..Len(data)
        BY <2>1, <2>4, <2>6
      <4>2. Taken(cur) - Len(data) + (k + i) = Taken(cur) - Len(data') + i
        BY <2>1, <2>3, <2>4, <2>6
      <4> QED
        BY <2>4, <2>5, <4>1, <4>2
    <3> QED
      BY <3>1, <3>2
  <2> QED
    BY <2>1, <2>7 DEF DataInv, Taken
<1>4. ASSUME NEW c \in Conns, PeerSends(c) PROVE DataInv'
  <2>1. /\ UNCHANGED <<pc, cur, data>>
        /\ inbox' = [inbox EXCEPT ![c] = @ \o <<<<c, sent[c] + 1>>>>]
        /\ sent' = [sent EXCEPT ![c] = @ + 1]
    BY <1>4 DEF PeerSends, Deliver
  <2> SUFFICES ASSUME pc = "Send" PROVE DataInv'
    BY <2>1 DEF DataInv
  <2>2. cur \in Conns /\ sent[cur] \in Nat /\ inbox[cur] \in Seq(Byte)
    BY <1>a DEF CurInv, TypeOK
  <2>3. Taken(cur)' = Taken(cur)
    <3>1. CASE c # cur
      BY <1>a, <2>1, <2>2, <3>1 DEF Taken, TypeOK
    <3>2. CASE c = cur
      <4>1. <<c, sent[c] + 1>> \in Byte
        BY <2>2, <3>2 DEF Byte
      <4>2. /\ Len(inbox[c] \o <<<<c, sent[c] + 1>>>>) = Len(inbox[c]) + 1
            /\ Len(inbox[c]) \in Nat
        BY <2>2, <3>2, <4>1
      <4>3. /\ inbox'[c] = inbox[c] \o <<<<c, sent[c] + 1>>>>
            /\ sent'[c] = sent[c] + 1
        BY <1>a, <2>1 DEF TypeOK
      <4> QED
        BY <2>1, <2>2, <3>2, <4>2, <4>3 DEF Taken
    <3> QED
      BY <3>1, <3>2
  <2> QED
    BY <1>a, <2>1, <2>3 DEF DataInv
<1>5. ASSUME NEW c \in Conns, NEW how \in {"shut", "reset"},
             (Connect(c) \/ HangUp(c, how)) /\ UNCHANGED echoVars
      PROVE  DataInv'
  BY <1>a, <1>5, DataFrame DEF Connect, HangUp, echoVars
<1>6. CASE (\E c \in Conns : PeerReads(c)) \/ UNCHANGED vars
  BY <1>a, <1>6, DataFrame DEF PeerReads, vars, socketVars, netVars, echoVars
<1> QED
  BY <1>1, <1>2, <1>3, <1>4, <1>5, <1>6 DEF Next, Server, Environment, Rest

-----------------------------------------------------------------------------
LEMMA SendStep == EchoInv /\ [Next]_vars => SendInv'
<1> SUFFICES ASSUME EchoInv, [Next]_vars PROVE SendInv'
  OBVIOUS
<1>a. SendInv /\ TypeOK
  BY DEF EchoInv
<1>1. CASE Start \/ Wait \/ Accept \/ Close \/ SendFails \/ AcceptFails
           \/ KilledBySend
  <2>1. pc' # "Send"
    BY <1>1 DEF Start, Resolve, Socket, Bind, Listen, Wait, Accept, Close,
                SendFails, AcceptFails, KilledBySend, Killed
  <2> QED
    BY <2>1 DEF SendInv
<1>2. CASE Recv
  BY <1>2 DEF Recv, Finish, SendInv
<1>3. ASSUME NEW k \in 1..SndBuf, Send(k) PROVE SendInv'
  <2> SUFFICES ASSUME pc' = "Send" PROVE SendInv'
    BY DEF SendInv
  <2>1. k \in Nat /\ k > 0 /\ k <= Len(data) /\ data \in Seq(Byte)
    BY <1>a, <1>3, EchoAssumption DEF Send, TypeOK, EchoAssumption
  <2>2. data' = SubSeq(data, k + 1, Len(data)) /\ k < Len(data) - k
    BY <1>3 DEF Send, Finish, GoesOn
  <2>3. Len(data') = Len(data) - k /\ Len(data) \in Nat
    BY <2>1, <2>2
  <2>4. Len(data') >= 2
    BY <2>1, <2>2, <2>3
  <2> QED
    BY <2>4 DEF SendInv
<1>4. CASE \/ \E c \in Conns :
               \/ PeerSends(c) \/ PeerReads(c)
               \/ /\ Connect(c) \/ \E how \in {"shut", "reset"} : HangUp(c, how)
                  /\ UNCHANGED echoVars
           \/ UNCHANGED vars
  <2>1. UNCHANGED <<pc, data, total_sent>>
    BY <1>4 DEF PeerSends, Deliver, PeerReads, Connect, HangUp, vars, socketVars, echoVars
  <2> QED
    BY <1>a, <2>1 DEF SendInv
<1> QED
  BY <1>1, <1>2, <1>3, <1>4 DEF Next, Server, Environment, Rest

-----------------------------------------------------------------------------
(* A step in which nothing is sent back: of a connection that is not cut   *)
(* off and whose peer is there, no more has been taken than is pending.    *)
LEMMA EchoedFrame ==
  ASSUME EchoedInv, TypeOK, echoed' = echoed, cut \subseteq cut',
         \A c \in Conns :
           /\ Taken(c) \in Int /\ Pending(c) \in Nat
           /\ Taken(c)' \in Int /\ Pending(c)' \in Nat
           /\ Taken(c)' - Pending(c)' >= Taken(c) - Pending(c)
           /\ (c \notin cut' /\ peer'[c] \notin {"reset", "gone"}) =>
                /\ Taken(c)' - Pending(c)' = Taken(c) - Pending(c)
                /\ peer[c] \notin {"reset", "gone"}
  PROVE  EchoedInv'
<1>1. EchoInOrder'
  BY DEF EchoedInv, EchoInOrder
<1>2. ASSUME NEW c \in Conns, NEW i \in 1..Len(echoed[c])
      PROVE  echoed[c][i][2] <= Taken(c)' - Pending(c)'
  <2>1. echoed[c][i][2] <= Taken(c) - Pending(c)
    BY DEF EchoedInv
  <2>2. echoed[c][i] \in Byte
    BY DEF TypeOK
  <2> QED
    BY <2>1, <2>2, SMTT(30) DEF Byte
<1>3. ASSUME NEW c \in Conns, c \notin cut', peer'[c] \notin {"reset", "gone"}
      PROVE  Len(echoed[c]) = Taken(c)' - Pending(c)'
  BY <1>3 DEF EchoedInv
<1> QED
  BY <1>1, <1>2, <1>3 DEF EchoedInv

(* A send appends the pending bytes that follow.                           *)
LEMMA EchoedSend ==
  ASSUME EchoInv, NEW k \in 1..SndBuf, Send(k), TypeOK'
  PROVE  EchoedInv'
<1> DEFINE n == Len(echoed[cur])
           L == Len(data)
           T == Taken(cur)
           more == SubSeq(data, 1, k)
<1>1. /\ pc = "Send" /\ cur \in Conns /\ UNCHANGED <<sent, inbox, peer>>
      /\ peer[cur] \notin {"reset", "gone"}
      /\ k \in Nat /\ k > 0 /\ k <= L
      /\ data \in Seq(Byte) /\ echoed[cur] \in Seq(Byte)
  BY EchoAssumption
     DEF EchoInv, CurInv, TypeOK, Send, netVars, EchoAssumption
<1>p. PICK p \in Conns : p = cur
  BY <1>1
<1>2. /\ L \in Nat /\ n \in Nat /\ T \in Int
      /\ \A c \in Conns : Taken(c) \in Int /\ Taken(c)' = Taken(c)
  <2>1. \A c \in Conns : sent[c] \in Nat /\ Len(inbox[c]) \in Nat
    BY DEF EchoInv, TypeOK
  <2>2. \A c \in Conns : Taken(c) \in Int /\ Taken(c)' = Taken(c)
    BY <1>1, <2>1 DEF Taken
  <2> QED
    BY <1>1, <2>2
<1>3. /\ echoed'[cur] = echoed[cur] \o more
      /\ \A c \in Conns : c # cur => echoed'[c] = echoed[c]
  BY <1>1 DEF EchoInv, TypeOK, Send
<1>4. /\ Len(echoed'[cur]) = n + k
      /\ \A i \in 1..n : echoed'[cur][i] = echoed[cur][i]
      /\ \A i \in 1..k : echoed'[cur][n + i] = data[i]
  <2>1. /\ more \in Seq(Byte) /\ Len(more) = k
        /\ \A i \in 1..k : more[i] = data[i]
    BY <1>1, <1>2
  <2>2. /\ Len(echoed[cur] \o more) = n + k
        /\ \A i \in 1..n : (echoed[cur] \o more)[i] = echoed[cur][i]
        /\ \A i \in 1..k : (echoed[cur] \o more)[n + i] = more[i]
    <3> HIDE DEF more
    <3>1. /\ Len(echoed[cur] \o more) = n + Len(more)
          /\ \A i \in 1..n : (echoed[cur] \o more)[i] = echoed[cur][i]
          /\ \A i \in 1..Len(more) : (echoed[cur] \o more)[n + i] = more[i]
      <4>1. echoed[cur] \in Seq(Byte) /\ more \in Seq(Byte)
        BY <1>1, <2>1
      <4>2. ASSUME NEW s \in Seq(Byte), NEW t \in Seq(Byte)
            PROVE  /\ Len(s \o t) = Len(s) + Len(t)
                   /\ \A i \in 1..Len(s) : (s \o t)[i] = s[i]
                   /\ \A i \in 1..Len(t) : (s \o t)[Len(s) + i] = t[i]
        BY ConcatElements
      <4> QED
        BY <4>1, <4>2, Zenon DEF n
    <3> QED
      BY <2>1, <3>1
  <2> QED
    BY <1>3, <2>1, <2>2
<1>5. \A i \in 1..k : data[i] = <<cur, T - L + i>>
  BY <1>1, <1>2 DEF EchoInv, DataInv
<1>6. \A i \in 1..n : /\ echoed[cur][i][1] = cur
                       /\ echoed[cur][i][2] \in Nat
                       /\ echoed[cur][i][2] <= T - L
  <2>1. Pending(cur) = L
    BY <1>1 DEF Pending
  <2>2. \A i \in 1..n : echoed[cur][i] \in Byte
    BY <1>1
  <2> QED
    BY <1>1, <2>1, <2>2 DEF EchoInv, EchoedInv, EchoInOrder, Byte
<1> HIDE DEF n, L, T, more
<1>7. /\ \A i \in 1..(n + k) : echoed'[cur][i][1] = cur
      /\ \A i \in 1..(n + k) : echoed'[cur][i][2] <= T - L + k
      /\ \A i, j \in 1..(n + k) :
           i < j => echoed'[cur][i][2] < echoed'[cur][j][2]
  <2>1. ASSUME NEW i \in 1..(n + k)
        PROVE  \/ i \in 1..n
               \/ i - n \in 1..k /\ echoed'[cur][i] = <<cur, T - L + (i - n)>>
    <3>1. CASE i > n
      <4>1. i - n \in 1..k /\ n + (i - n) = i
        BY <1>1, <1>2, <3>1
      <4> QED
        BY <1>4, <1>5, <4>1
    <3> QED
      BY <1>2, <3>1
  <2>2. \A i, j \in 1..n : i < j => echoed[cur][i][2] < echoed[cur][j][2]
    BY <1>1 DEF EchoInv, EchoedInv, EchoInOrder, n
  <2>3. ASSUME NEW i \in 1..(n + k)
        PROVE  echoed'[cur][i][1] = cur /\ echoed'[cur][i][2] <= T - L + k
    <3>1. CASE i \in 1..n
      <4>1. /\ echoed'[cur][i] = echoed[cur][i] /\ echoed[cur][i][1] = cur
            /\ echoed[cur][i][2] \in Nat /\ echoed[cur][i][2] <= T - L
        BY <1>4, <1>6, <3>1
      <4> QED
        BY <1>1, <1>2, <4>1
    <3>2. CASE i - n \in 1..k /\ echoed'[cur][i] = <<cur, T - L + (i - n)>>
      BY <1>1, <1>2, <3>2
    <3> QED
      BY <2>1, <3>1, <3>2
  <2>4. ASSUME NEW i \in 1..(n + k), NEW j \in 1..(n + k), i < j
        PROVE  echoed'[cur][i][2] < echoed'[cur][j][2]
    <3>1. CASE j \in 1..n
      <4>1. i \in 1..n
        BY <1>2, <2>4, <3>1
      <4> QED
        BY <1>4, <2>2, <2>4, <3>1, <4>1
    <3>2. CASE j - n \in 1..k /\ echoed'[cur][j] = <<cur, T - L + (j - n)>>
      <4>1. CASE i \in 1..n
        <5>1. /\ echoed'[cur][i] = echoed[cur][i]
              /\ echoed[cur][i][2] \in Nat /\ echoed[cur][i][2] <= T - L
          BY <1>4, <1>6, <4>1
        <5>2. echoed'[cur][j][2] = T - L + (j - n)
          BY <3>2
        <5>3. echoed'[cur][i][2] = echoed[cur][i][2]
          BY <5>1
        <5>4. \A x, y, z \in Int : x <= y /\ z >= 1 => x < y + z
          OBVIOUS
        <5>5. T - L \in Int /\ j - n \in Int /\ j - n >= 1
          BY <1>1, <1>2, <3>2
        <5> QED
          BY <5>1, <5>2, <5>3, <5>4, <5>5
      <4>2. CASE i - n \in 1..k /\ echoed'[cur][i] = <<cur, T - L + (i - n)>>
        BY <1>1, <1>2, <2>4, <3>2, <4>2
      <4> QED
        BY <2>1, <4>1, <4>2
    <3> QED
      BY <2>1, <3>1, <3>2
  <2> QED
    BY <2>3, <2>4
<1>8. cur \notin cut => /\ n = T - L
                        /\ \A i \in 1..(n + k) : echoed'[cur][i][2] = i
  <2> SUFFICES ASSUME cur \notin cut
               PROVE  /\ n = T - L
                      /\ \A i \in 1..(n + k) : echoed'[cur][i][2] = i
    OBVIOUS
  <2>1. n = T - L /\ \A i \in 1..n : echoed[cur][i][2] = i
    BY <1>1 DEF EchoInv, EchoedInv, EchoInOrder, Pending, n, L, T
  <2>2. ASSUME NEW i \in 1..(n + k) PROVE echoed'[cur][i][2] = i
    <3>1. CASE i > n
      <4>1. i - n \in 1..k /\ n + (i - n) = i
        BY <1>1, <1>2, <3>1
      <4>2. echoed'[cur][i] = <<cur, T - L + (i - n)>>
        BY <1>4, <1>5, <4>1
      <4> QED
        BY <1>2, <2>1, <4>1, <4>2
    <3>2. CASE i <= n
      <4>1. i \in 1..n
        BY <1>2, <3>2
      <4> QED
        BY <1>4, <2>1, <4>1
    <3> QED
      BY <1>2, <3>1, <3>2
  <2> QED
    BY <2>1, <2>2
<1>9. /\ Pending(p)' \in Nat /\ Pending(p)' <= L - k
      /\ cur \notin cut' => cur \notin cut /\ Pending(p)' = L - k
  <2>1. CASE GoesOn(k, L - k)
    <3>1. /\ data' = SubSeq(data, k + 1, L) /\ cut' = cut
          /\ pc' = "Send" /\ cur' = cur
      BY <1>1, <2>1 DEF Send, KeepCur, L
    <3>2. Len(data') = L - k
      BY <1>1, <1>2, <3>1 DEF L
    <3> QED
      BY <1>1, <1>2, <1>p, <3>1, <3>2 DEF Pending
  <2>2. CASE ~GoesOn(k, L - k)
    <3>1. /\ pc' # "Send" /\ cut \subseteq cut'
          /\ L - k > 0 => cur \in cut'
      BY <2>2 DEF Send, Finish, L
    <3> QED
      BY <1>1, <1>2, <1>p, <3>1 DEF Pending
  <2> QED
    BY <2>1, <2>2
<1>10. \A c \in Conns : c # cur =>
         /\ Pending(c) = 0 /\ Pending(c)' = 0
         /\ c \in cut' <=> c \in cut
  BY <1>1 DEF Send, Finish, KeepCur, Pending
<1>11. ASSUME NEW c \in Conns, c # cur
       PROVE  /\ \A i \in 1..Len(echoed'[c]) :
                   echoed'[c][i][2] <= Taken(c)' - Pending(c)'
              /\ (c \notin cut' /\ peer'[c] \notin {"reset", "gone"}) =>
                   Len(echoed'[c]) = Taken(c)' - Pending(c)'
              /\ \A i \in DOMAIN echoed'[c] : echoed'[c][i][1] = c
              /\ \A i, j \in DOMAIN echoed'[c] :
                   i < j => echoed'[c][i][2] < echoed'[c][j][2]
              /\ c \notin cut' =>
                   \A i \in DOMAIN echoed'[c] : echoed'[c][i][2] = i
  BY <1>1, <1>2, <1>3, <1>10, <1>11 DEF EchoInv, EchoedInv, EchoInOrder
<1>12. /\ \A i \in 1..Len(echoed'[cur]) :
            echoed'[cur][i][2] <= Taken(p)' - Pending(p)'
       /\ (cur \notin cut' /\ peer'[cur] \notin {"reset", "gone"}) =>
            Len(echoed'[cur]) = Taken(p)' - Pending(p)'
  <2>1. ASSUME NEW i \in 1..(n + k)
        PROVE  echoed'[cur][i][2] <= Taken(p)' - Pending(p)'
    <3>1. echoed'[cur][i][2] \in Nat
      <4>1. echoed'[cur] \in Seq(Byte) /\ i \in 1..Len(echoed'[cur])
        BY <1>1, <1>4 DEF TypeOK
      <4>2. echoed'[cur][i] \in Byte
        BY <4>1
      <4> QED
        BY <4>2 DEF Byte
    <3>2. Taken(p)' = T
      BY <1>2, <1>p DEF T
    <3>3. echoed'[cur][i][2] <= T - L + k
      BY <1>7
    <3> QED
      <4>1. Pending(p)' \in Nat /\ Pending(p)' <= L - k
        BY <1>9
      <4>2. \A x, y \in Nat : \A t \in Int :
              x <= t - L + k /\ y <= L - k => x <= t - y
        BY <1>1, <1>2
      <4> QED
        BY <1>2, <3>1, <3>2, <3>3, <4>1, <4>2
  <2>2. cur \notin cut' => n + k = Taken(p)' - Pending(p)'
    <3>1. Taken(p)' = T
      BY <1>2, <1>p DEF T
    <3> QED
      BY <1>1, <1>2, <1>8, <1>9, <3>1
  <2> QED
    BY <1>4, <2>1, <2>2
<1>13. /\ \A i \in DOMAIN echoed'[cur] : echoed'[cur][i][1] = cur
       /\ \A i, j \in DOMAIN echoed'[cur] :
            i < j => echoed'[cur][i][2] < echoed'[cur][j][2]
       /\ cur \notin cut' =>
            \A i \in DOMAIN echoed'[cur] : echoed'[cur][i][2] = i
  <2>1. DOMAIN echoed'[cur] = 1..(n + k)
    BY <1>1, <1>4 DEF TypeOK
  <2> QED
    BY <1>7, <1>8, <1>9, <2>1
<1>14. EchoInOrder'
  BY <1>11, <1>13 DEF EchoInOrder
<1> QED
  BY <1>p, <1>11, <1>12, <1>14 DEF EchoedInv

LEMMA EchoedStep == EchoInv /\ [Next]_vars => EchoedInv'
<1> SUFFICES ASSUME EchoInv, [Next]_vars PROVE EchoedInv'
  OBVIOUS
<1>a. EchoedInv /\ DataInv /\ InboxInv /\ TypeOK /\ CurInv
  BY DEF EchoInv
<1>b. TypeOK' /\ CurInv' /\ InboxInv' /\ DataInv'
  BY TypeStep, CurStep, InboxStep, DataStep
<1>c. \A c \in Conns : /\ sent[c] \in Nat /\ Len(inbox[c]) \in Nat
                       /\ sent'[c] \in Nat /\ Len(inbox'[c]) \in Nat
  BY <1>a, <1>b DEF TypeOK
<1>d. \A c \in Conns : Taken(c) \in Int /\ Taken(c)' \in Int
  BY <1>c DEF Taken
<1>e. \A c \in Conns : Pending(c) \in Nat /\ Pending(c)' \in Nat
  <2>1. Len(data) \in Nat /\ Len(data') \in Nat
    BY <1>a, <1>b DEF TypeOK
  <2> QED
    BY <2>1 DEF Pending
(* A step in which nothing is about to be sent, and nothing taken. *)
<1>f. ASSUME UNCHANGED <<sent, inbox, echoed, cut>>, pc # "Send", pc' # "Send",
             \A c \in Conns : peer'[c] = peer[c]
      PROVE  EchoedInv'
  <2>1. \A c \in Conns : /\ Taken(c)' = Taken(c)
                         /\ Pending(c) = 0 /\ Pending(c)' = 0
    BY <1>f DEF Taken, Pending
  <2> QED
    BY <1>a, <1>d, <1>e, <1>f, <2>1, EchoedFrame
(* A step of a peer. *)
<1>g. ASSUME UNCHANGED <<pc, cur, data, echoed, cut>>,
             \A c \in Conns :
               /\ Taken(c)' = Taken(c)
               /\ peer[c] \in {"reset", "gone"} =>
                    peer'[c] \in {"reset", "gone"}
      PROVE  EchoedInv'
  <2>1. \A c \in Conns : Pending(c)' = Pending(c)
    BY <1>g DEF Pending
  <2> QED
    BY <1>a, <1>d, <1>e, <1>g, <2>1, EchoedFrame
<1>1. CASE (Start \/ Wait \/ Accept \/ AcceptFails) /\ UNCHANGED echoVars
  <2>1. /\ UNCHANGED <<sent, inbox, echoed, cut, peer>>
        /\ pc # "Send" /\ pc' # "Send"
    BY <1>1 DEF Start, Resolve, Socket, Bind, Listen, Wait, Accept,
                AcceptFails, netVars, echoVars
  <2> QED
    BY <1>f, <2>1
<1>2. CASE Close /\ UNCHANGED echoVars
  <2>1. /\ cur \in Conns /\ inbox' = [inbox EXCEPT ![cur] = <<>>]
        /\ UNCHANGED <<sent, echoed, cut>> /\ pc # "Send" /\ pc' # "Send"
        /\ peer' = [peer EXCEPT ![cur] = "gone"]
    BY <1>a, <1>2 DEF Close, CurInv, echoVars
  <2>2. /\ peer'[cur] = "gone" /\ inbox'[cur] = <<>> /\ Len(<<>>) = 0
        /\ \A c \in Conns : c # cur => inbox'[c] = inbox[c] /\ peer'[c] = peer[c]
    BY <1>a, <2>1 DEF TypeOK, SocketsType
  <2>3. \A c \in Conns : /\ Pending(c) = 0 /\ Pending(c)' = 0
                         /\ Taken(c)' >= Taken(c)
                         /\ c # cur => Taken(c)' = Taken(c)
    BY <1>c, <2>1, <2>2 DEF Pending, Taken
  <2> QED
    BY <1>a, <1>d, <2>1, <2>2, <2>3, EchoedFrame
<1>3. CASE Recv
  <2>1. /\ cur \in Conns /\ inbox' = [inbox EXCEPT ![cur] = <<>>]
        /\ UNCHANGED <<sent, echoed, cut, peer>> /\ pc = "Recv"
        /\ res' = "error" => peer[cur] = "reset"
    BY <1>a, <1>3, ReceivedFacts DEF Recv
  <2>2. /\ inbox'[cur] = <<>> /\ Len(<<>>) = 0
        /\ \A c \in Conns : c # cur => inbox'[c] = inbox[c]
    BY <1>a, <2>1 DEF TypeOK
  <2>3. /\ pc' = "Send" => cur' = cur /\ Len(data') = Len(inbox[cur])
        /\ (pc' # "Send" /\ res' # "error") => Len(inbox[cur]) = 0
    <3>1. inbox[cur] \in Seq(Byte) /\ qu \o inbox[cur] = inbox[cur]
      BY <1>a, <2>1 DEF TypeOK
    <3> QED
      BY <1>3, <2>2, <3>1 DEF Recv, Finish, KeepCur
  <2>4. \A c \in Conns : c # cur => /\ Pending(c) = 0 /\ Pending(c)' = 0
                                    /\ Taken(c)' = Taken(c)
    BY <2>1, <2>2, <2>3 DEF Pending, Taken
  <2>5. ASSUME NEW c \in Conns, c = cur
        PROVE  /\ Taken(c)' - Pending(c)' >= Taken(c) - Pending(c)
               /\ peer[c] # "reset" =>
                    Taken(c)' - Pending(c)' = Taken(c) - Pending(c)
    <3>1. Pending(c) = 0 /\ Taken(c) = sent[c] - Len(inbox[c])
          /\ Taken(c)' = sent[c]
      BY <1>c, <2>1, <2>2, <2>5 DEF Pending, Taken
    <3>2. CASE pc' = "Send"
      <4>1. Pending(c)' = Len(inbox[c])
        BY <2>3, <2>5, <3>2 DEF Pending
      <4> QED
        BY <1>c, <3>1, <4>1
    <3>3. CASE pc' # "Send"
      <4>1. /\ Pending(c)' = 0
            /\ peer[c] # "reset" => Len(inbox[c]) = 0
        BY <2>1, <2>3, <2>5, <3>3 DEF Pending
      <4> QED
        BY <1>c, <3>1, <4>1
    <3> QED
      BY <3>2, <3>3
  <2>6. ASSUME NEW c \in Conns
        PROVE  /\ Taken(c)' - Pending(c)' >= Taken(c) - Pending(c)
               /\ peer[c] # "reset" =>
                    Taken(c)' - Pending(c)' = Taken(c) - Pending(c)
    <3>1. CASE c # cur
      BY <1>d, <2>4, <3>1
    <3> QED
      BY <2>5, <3>1
  <2> QED
    BY <1>a, <1>d, <1>e, <2>1, <2>6, EchoedFrame
<1>4. ASSUME NEW k \in 1..SndBuf, Send(k) PROVE EchoedInv'
  BY <1>4, <1>b, EchoedSend
<1>5. CASE SendFails
  <2>1. /\ pc = "Send" /\ pc' = "Wait" /\ UNCHANGED <<sent, inbox, echoed, peer>>
        /\ cut' = cut \union {cur}
    BY <1>5 DEF SendFails, netVars
  <2>2. \A c \in Conns : /\ Taken(c)' = Taken(c) /\ Pending(c)' = 0
                         /\ c # cur => Pending(c) = 0
    BY <2>1 DEF Taken, Pending
  <2> QED
    BY <1>a, <1>d, <1>e, <2>1, <2>2, EchoedFrame
<1>6. CASE KilledBySend
  <2>1. /\ pc = "Send" /\ pc' = "Exit" /\ peer[cur] = "reset"
        /\ UNCHANGED <<sent, inbox, echoed, peer, cut>>
    BY <1>6 DEF KilledBySend, Killed, netVars, echoVars
  <2>2. \A c \in Conns : /\ Taken(c)' = Taken(c) /\ Pending(c)' = 0
                         /\ c # cur => Pending(c) = 0
    BY <2>1 DEF Taken, Pending
  <2> QED
    BY <1>a, <1>d, <1>e, <2>1, <2>2, EchoedFrame
<1>7. ASSUME NEW c \in Conns, PeerSends(c) PROVE EchoedInv'
  <2>1. /\ UNCHANGED <<pc, cur, data, echoed, cut, peer>>
        /\ inbox' = [inbox EXCEPT ![c] = inbox[c] \o <<<<c, sent[c] + 1>>>>]
        /\ sent' = [sent EXCEPT ![c] = sent[c] + 1]
    BY <1>7 DEF PeerSends, Deliver
  <2>2. /\ inbox'[c] = inbox[c] \o <<<<c, sent[c] + 1>>>>
        /\ sent'[c] = sent[c] + 1
        /\ \A d \in Conns : d # c => inbox'[d] = inbox[d] /\ sent'[d] = sent[d]
    BY <1>a, <2>1 DEF TypeOK
  <2>3. Len(inbox[c] \o <<<<c, sent[c] + 1>>>>) = Len(inbox[c]) + 1
    <3>1. <<c, sent[c] + 1>> \in Byte /\ inbox[c] \in Seq(Byte)
      BY <1>a, <1>c DEF TypeOK, Byte
    <3> QED
      BY <3>1
  <2>4. ASSUME NEW d \in Conns PROVE Taken(d)' = Taken(d)
    <3>1. CASE d = c
      BY <1>c, <2>2, <2>3, <3>1, SMTT(30) DEF Taken
    <3>2. CASE d # c
      BY <2>2, <3>2 DEF Taken
    <3> QED
      BY <3>1, <3>2
  <2> QED
    BY <1>g, <2>1, <2>4
<1>8. ASSUME NEW c \in Conns, NEW how \in {"shut", "reset"},
             (Connect(c) \/ HangUp(c, how)) /\ UNCHANGED echoVars
      PROVE  EchoedInv'
  <2>1. /\ UNCHANGED <<pc, cur, data, echoed, cut, inbox, sent>>
        /\ \A d \in Conns : peer[d] \in {"reset", "gone"} => peer'[d] = peer[d]
    BY <1>a, <1>8 DEF Connect, HangUp, echoVars, TypeOK, SocketsType
  <2>2. \A d \in Conns : Taken(d)' = Taken(d)
    BY <2>1 DEF Taken
  <2> QED
    BY <1>g, <2>1, <2>2
<1>9. CASE (\E c \in Conns : PeerReads(c)) \/ UNCHANGED vars
  <2>1. UNCHANGED <<pc, cur, data, echoed, cut, inbox, sent, peer>>
    BY <1>9 DEF PeerReads, vars, socketVars, netVars, echoVars
  <2>2. \A d \in Conns : Taken(d)' = Taken(d)
    BY <2>1 DEF Taken
  <2> QED
    BY <1>g, <2>1, <2>2
<1> QED
  BY <1>1, <1>2, <1>3, <1>4, <1>5, <1>6, <1>7, <1>8, <1>9
     DEF Next, Server, Environment, Rest

-----------------------------------------------------------------------------
LEMMA InitInv == Init => EchoInv
<1> SUFFICES ASSUME Init PROVE EchoInv
  OBVIOUS
<1> USE SocketsAssumption, EchoAssumption
    DEF SocketsAssumption, EchoAssumption, Init, SocketsInit
<1>1. TypeOK
  <2>1. /\ <<>> \in Seq(Byte) /\ <<>> \in Seq(Conns)
        /\ <<>> \in Seq(Conns \union {Listener})
    OBVIOUS
  <2> QED
    BY <2>1 DEF TypeOK, SocketsType
<1>2. OneSocket /\ CurInv /\ DataInv /\ SendInv
  BY DEF OneSocket, CurInv, DataInv, SendInv, Serving
<1>3. InboxInv
  BY DEF InboxInv
<1>4. EchoedInv
  BY DEF EchoedInv, EchoInOrder, Taken, Pending
<1> QED
  BY <1>1, <1>2, <1>3, <1>4 DEF EchoInv

(* EchoServer's inductive invariant, of every step of the server and of    *)
(* its peers (main.c 60-136, sockets.c, epoll.c).                          *)
THEOREM Correct == Spec => []EchoInv
<1>1. EchoInv /\ [Next]_vars => EchoInv'
  BY TypeStep, SocketStep, CurStep, InboxStep, DataStep, SendStep, EchoedStep DEF EchoInv
<1> QED
  BY InitInv, <1>1, PTL DEF Spec

(* A peer is sent back its own bytes only, in the order in which it sent   *)
(* them, and without a gap unless the connection was cut off.              *)
THEOREM InOrder == Spec => []EchoInOrder
<1>1. EchoInv => EchoInOrder
  BY DEF EchoInv, EchoedInv
<1> QED
  BY Correct, <1>1, PTL

(* A connection whose peer has ended it is closed only when all it sent    *)
(* has been sent back, unless it was cut off.                              *)
THEOREM Complete == Spec => []EchoComplete
<1>1. EchoInv => EchoComplete
  <2> SUFFICES ASSUME EchoInv, pc = "Close", peer[cur] = "shut", cur \notin cut
               PROVE  Len(echoed[cur]) = sent[cur]
    BY DEF EchoComplete
  <2>1. cur \in Conns /\ inbox[cur] = <<>>
    BY DEF EchoInv, CurInv, TypeOK, SocketsType
  <2>2. Len(echoed[cur]) = Taken(cur) - Pending(cur)
    BY <2>1 DEF EchoInv, EchoedInv
  <2>3. Taken(cur) = sent[cur] /\ Pending(cur) = 0 /\ sent[cur] \in Nat
    BY <2>1 DEF Taken, Pending, EchoInv, TypeOK
  <2> QED
    BY <2>2, <2>3
<1> QED
  BY Correct, <1>1, PTL

-----------------------------------------------------------------------------
(* sendall: the step that ends it.                                         *)
Summary ==
  (pc = "Send" /\ pc' \notin {"Send", "Exit"}) =>
    [sent |-> total_sent + Len(echoed'[cur]) - Len(echoed[cur]),
     failed |-> echoed' = echoed]
       \in SendAll(total_sent + Len(data))

LEMMA SummaryOfSend ==
  ASSUME EchoInv, NEW k \in 1..SndBuf, Send(k), pc' # "Send"
  PROVE  Summary
<1> DEFINE n == total_sent + Len(data)
           delta == Len(echoed'[cur]) - Len(echoed[cur])
<1>1. /\ cur \in Conns /\ echoed \in [Conns -> Seq(Byte)] /\ data \in Seq(Byte)
      /\ total_sent \in Nat /\ k \in Nat /\ k >= 1 /\ k <= Len(data)
  BY EchoAssumption DEF EchoInv, CurInv, TypeOK, Send, EchoAssumption
<1>2. echoed' = [echoed EXCEPT ![cur] = @ \o SubSeq(data, 1, k)]
  BY DEF Send
<1>3. echoed'[cur] = echoed[cur] \o SubSeq(data, 1, k) /\ echoed[cur] \in Seq(Byte)
  BY <1>1, <1>2
<1>4. SubSeq(data, 1, k) \in Seq(Byte) /\ Len(SubSeq(data, 1, k)) = k
  BY <1>1
<1>5. Len(echoed'[cur]) = Len(echoed[cur]) + k /\ Len(echoed[cur]) \in Nat
  BY <1>3, <1>4
<1>6. (echoed' = echoed) = FALSE
  BY <1>1, <1>5
<1>7. Len(data) <= 2 * k /\ Len(data) \in Nat
  BY <1>1 DEF Send, GoesOn
<1>8. /\ total_sent + Len(echoed'[cur]) - Len(echoed[cur]) = total_sent + k
      /\ total_sent + k \in 1..n /\ n <= 2 * (total_sent + k)
  BY <1>1, <1>5, <1>7
<1>9. [sent |-> total_sent + k, failed |-> FALSE] \in SendAll(n)
  BY <1>8 DEF SendAll
<1> QED
  BY <1>6, <1>8, <1>9 DEF Summary

LEMMA SummaryOfFailure ==
  ASSUME EchoInv, SendFails
  PROVE  Summary
<1> DEFINE n == total_sent + Len(data)
<1>1. /\ cur \in Conns /\ echoed \in [Conns -> Seq(Byte)] /\ data \in Seq(Byte)
      /\ total_sent \in Nat
  BY DEF EchoInv, CurInv, TypeOK, SendFails
<1>2. (echoed' = echoed) = TRUE
  BY DEF SendFails
<1>3. total_sent + Len(echoed'[cur]) - Len(echoed[cur]) = total_sent
  <2>1. Len(echoed[cur]) \in Nat
    BY <1>1
  <2> QED
    BY <1>1, <1>2, <2>1
<1>4. total_sent \in 0..n /\ (total_sent = 0 \/ total_sent + 2 <= n)
  <2>1. Len(data) \in Nat /\ (total_sent = 0 \/ Len(data) >= 2)
    BY <1>1 DEF EchoInv, SendInv, SendFails
  <2> QED
    BY <1>1, <2>1
<1>5. [sent |-> total_sent, failed |-> TRUE] \in SendAll(n)
  BY <1>4 DEF SendAll
<1> QED
  BY <1>2, <1>3, <1>5 DEF Summary

(* However sendall's loop goes, what it has sent of n bytes when it ends,  *)
(* and whether it reports an error, is what SendAll(n) says: at least half *)
(* of them when it reports none, and never all when it does.               *)
THEOREM SendAllSums == Spec => SendAllSummary
<1>1. EchoInv /\ [Next]_vars => [Summary]_vars
  <2> SUFFICES ASSUME EchoInv, Next, pc = "Send", pc' \notin {"Send", "Exit"}
               PROVE  Summary
    BY DEF Summary
  <2>1. (\E k \in 1..SndBuf : Send(k)) \/ SendFails
    <3>1. ~(Start \/ Wait \/ Accept \/ Close \/ Recv \/ AcceptFails \/ KilledBySend \/ Rest)
      BY DEF Start, Resolve, Socket, Bind, Listen, Wait, Accept, Close, Recv,
             AcceptFails, KilledBySend, Killed, Rest
    <3>2. \A c \in Conns : ~(PeerSends(c) \/ PeerReads(c) \/ Connect(c))
      BY DEF PeerSends, PeerReads, Connect, Deliver, socketVars
    <3>3. \A c \in Conns, how \in {"shut", "reset"} : ~HangUp(c, how)
      BY DEF HangUp
    <3> QED
      BY <3>1, <3>2, <3>3 DEF Next, Server, Environment
  <2> QED
    BY <2>1, SummaryOfSend, SummaryOfFailure
<1> QED
  BY Correct, <1>1, PTL DEF Spec, SendAllSummary, Summary
=============================================================================
