-------------------------- MODULE MeansServerProofs --------------------------
(***************************************************************************)
(* Proofs about MeansServer for any connections and messages: where a      *)
(* connection is, how what it has sent is cut into messages, that prices   *)
(* lie in the array allocated for them, that no event and no message is    *)
(* forgotten, that the list of sessions is the open connections, and that  *)
(* all this implements the service of MeansService.                        *)
(***************************************************************************)
EXTENDS MeansServer, FiniteSetTheorems, WellFoundedInduction, TLAPS

-----------------------------------------------------------------------------
(* The elements of a sequence when one comes or goes.                      *)

LEMMA AppendRange ==
  ASSUME NEW S, NEW s \in Seq(S), NEW e \in S
  PROVE  /\ Append(s, e) \in Seq(S) /\ Append(s, e) # <<>>
         /\ Range(Append(s, e)) = Range(s) \union {e}
<1>1. /\ Append(s, e) \in Seq(S) /\ Len(Append(s, e)) = Len(s) + 1
      /\ Len(s) \in Nat /\ DOMAIN s = 1..Len(s)
      /\ DOMAIN Append(s, e) = 1..(Len(s) + 1)
      /\ Append(s, e)[Len(s) + 1] = e
      /\ \A i \in 1..Len(s) : Append(s, e)[i] = s[i]
  OBVIOUS
<1>2. Append(s, e) # <<>>
  BY <1>1
<1>3. \A i : i \in 1..(Len(s) + 1) <=> i \in 1..Len(s) \/ i = Len(s) + 1
  BY <1>1
<1> QED
  BY <1>1, <1>2, <1>3, Zenon DEF Range

LEMMA TailRange ==
  ASSUME NEW S, NEW s \in Seq(S), s # <<>>
  PROVE  /\ Head(s) \in S /\ Head(s) \in Range(s)
         /\ Tail(s) \in Seq(S)
         /\ Range(Tail(s)) \subseteq Range(s)
         /\ \A i \in DOMAIN Tail(s) : i + 1 \in DOMAIN s /\ Tail(s)[i] = s[i + 1]
<1>1. 1 \in DOMAIN s /\ Head(s) = s[1] /\ Tail(s) \in Seq(S) /\ Head(s) \in S
  OBVIOUS
<1>2. \A i \in DOMAIN Tail(s) : i + 1 \in DOMAIN s /\ Tail(s)[i] = s[i + 1]
  OBVIOUS
<1> QED
  BY <1>1, <1>2 DEF Range

LEMMA RemoveAtRange ==
  ASSUME NEW S, NEW s \in Seq(S), NEW i \in DOMAIN s
  PROVE  /\ RemoveAt(s, i) \in Seq(S)
         /\ Range(RemoveAt(s, i)) \subseteq Range(s)
<1> DEFINE a == SubSeq(s, 1, i - 1)
           b == SubSeq(s, i + 1, Len(s))
<1>1. a \in Seq(S) /\ \A j \in DOMAIN a : j \in DOMAIN s /\ a[j] = s[j]
  OBVIOUS
<1>2. b \in Seq(S) /\ \A j \in DOMAIN b : i + j \in DOMAIN s /\ b[j] = s[i + j]
  OBVIOUS
<1>3. RemoveAt(s, i) = a \o b
  BY DEF RemoveAt
<1> HIDE DEF a, b
<1>4. a \o b \in Seq(S)
  BY <1>1, <1>2
<1>5. ASSUME NEW j \in DOMAIN (a \o b) PROVE (a \o b)[j] \in Range(s)
  <2>1. CASE j <= Len(a)
    <3>1. j \in DOMAIN a /\ (a \o b)[j] = a[j]
      BY <1>1, <1>2, <2>1
    <3> QED
      BY <1>1, <3>1 DEF Range
  <2>2. CASE j > Len(a)
    <3>1. j - Len(a) \in DOMAIN b /\ (a \o b)[j] = b[j - Len(a)]
      BY <1>1, <1>2, <2>2
    <3> QED
      BY <1>2, <3>1 DEF Range
  <2> QED
    BY <1>1, <1>4, <2>1, <2>2
<1> QED
  BY <1>3, <1>4, <1>5 DEF Range

-----------------------------------------------------------------------------
(* Where a connection is.                                                  *)

LEMMA NotifiedRange ==
  ASSUME PlaceInv, NEW fd \in Conns \union {Listener}
  PROVE  /\ Notified(fd) \in Seq(Conns \union {Listener})
         /\ Range(Notified(fd)) \subseteq
              Range(ready) \union ({fd} \intersect (open \union {Listener}))
<1>1. ready \in Seq(Conns \union {Listener})
  BY DEF PlaceInv
<1>2. CASE fd \in open \union {Listener} /\ fd \notin Range(ready)
  BY <1>1, <1>2, AppendRange DEF Notified
<1>3. CASE ~(fd \in open \union {Listener} /\ fd \notin Range(ready))
  BY <1>1, <1>3 DEF Notified
<1> QED
  BY <1>2, <1>3

(* A step that changes none of what PlaceInv relates, except that events   *)
(* may be used up, and goes on with the same connection if with any.       *)
LEMMA PlaceFrame ==
  ASSUME PlaceInv, UNCHANGED <<backlog, open, peer, inbox, recv_qu>>,
         ready' \in Seq(Conns \union {Listener}),
         Range(ready') \subseteq Range(ready),
         pc' # "Accept",
         pc' \in {"Recv", "Parse", "Send", "Close"} =>
           /\ cur' = cur
           /\ pc \in {"Recv", "Parse", "Send", "Close"}
  PROVE  PlaceInv'
BY DEF PlaceInv

LEMMA PlaceStep == PlaceInv /\ PartsInv /\ [Next]_vars => PlaceInv'
<1> SUFFICES ASSUME PlaceInv, PartsInv, [Next]_vars PROVE PlaceInv'
  OBVIOUS
<1>b. inbox \in [Conns -> Seq(Half)] /\ recv_qu \in [Conns -> Seq(Half)]
  BY DEF PartsInv
<1>a. /\ ready \in Seq(Conns \union {Listener}) /\ backlog \in Seq(Conns)
      /\ peer \in [Conns -> {"none", "open", "shut", "reset", "gone"}]
  BY DEF PlaceInv
<1>1. CASE Start /\ UNCHANGED meansVars
  <2>1. /\ UNCHANGED <<ready, backlog, open, peer, inbox, recv_qu>>
        /\ pc' \notin {"Accept", "Recv", "Parse", "Send", "Close"}
    BY <1>1 DEF Start, Resolve, Socket, Bind, Listen, netVars, meansVars
  <2> QED
    BY <1>a, <2>1, PlaceFrame
<1>2. CASE Wait /\ UNCHANGED meansVars
  <2>1. /\ UNCHANGED <<backlog, open, peer, inbox, recv_qu>> /\ ready # <<>>
    BY <1>2 DEF Wait, meansVars
  <2> DEFINE fd == Head(ready)
  <2>2. /\ fd \in Conns \union {Listener} /\ fd \in Range(ready)
        /\ Tail(ready) \in Seq(Conns \union {Listener})
        /\ Range(Tail(ready)) \subseteq Range(ready)
    BY <1>a, <2>1, TailRange
  <2> HIDE DEF fd
  <2>3. /\ Append(Tail(ready), fd) \in Seq(Conns \union {Listener})
        /\ Range(Append(Tail(ready), fd)) \subseteq Range(ready)
    <3>1. ASSUME NEW S, NEW t \in Seq(S), NEW e \in S
          PROVE  /\ Append(t, e) \in Seq(S)
                 /\ Range(Append(t, e)) = Range(t) \union {e}
      BY AppendRange
    <3>2. PICK S : S = Conns \union {Listener}
      OBVIOUS
    <3>3. PICK t : t = Tail(ready)
      OBVIOUS
    <3>4. t \in Seq(S) /\ fd \in S
      BY <2>2, <3>2, <3>3
    <3>5. Append(t, fd) \in Seq(S) /\ Range(Append(t, fd)) = Range(t) \union {fd}
      BY <3>1, <3>4
    <3> QED
      BY <2>2, <3>2, <3>3, <3>5
  <2>4. /\ ready' \in Seq(Conns \union {Listener})
        /\ Range(ready') \subseteq Range(ready)
    BY <1>2, <2>2, <2>3 DEF Wait, fd
  <2>5. /\ pc' \in {"Wait", "Accept", "Recv"}
        /\ pc' = "Accept" => fd = Listener /\ Readable(fd)
        /\ pc' = "Recv" => fd # Listener /\ Readable(fd) /\ cur' = fd
    BY <1>2 DEF Wait, fd
  <2>6. pc' = "Accept" => backlog # <<>>
    BY <2>5 DEF Readable
  <2>7. pc' = "Recv" => cur' \in Conns \ Range(backlog)
                        /\ peer[cur'] \notin {"none", "gone"}
    BY <2>2, <2>5 DEF PlaceInv, Readable
  <2> QED
    BY <2>1, <2>4, <2>5, <2>6, <2>7 DEF PlaceInv
<1>3. CASE AcceptAndAdd
  <2> DEFINE c == Head(backlog)
  <2>1. /\ pc = "Accept" /\ backlog # <<>>
        /\ open' = open \union {c} /\ backlog' = Tail(backlog)
        /\ ready' = IF Readable(c) THEN Append(ready, c) ELSE ready
        /\ pc' = "Wait" /\ UNCHANGED <<peer, inbox>>
        /\ recv_qu' = [recv_qu EXCEPT ![c] = <<>>]
    BY <1>3 DEF AcceptAndAdd, Accept, Add, SessionInit, PlaceInv
  <2>2. /\ c \in Conns /\ c \in Range(backlog) /\ c = backlog[1]
        /\ backlog' \in Seq(Conns) /\ Range(backlog') \subseteq Range(backlog)
        /\ \A i \in DOMAIN backlog' : i + 1 \in DOMAIN backlog
                                      /\ backlog'[i] = backlog[i + 1]
    BY <1>a, <2>1, TailRange
  <2>3. /\ c \notin Range(backlog')
        /\ \A i, j \in DOMAIN backlog' : i # j => backlog'[i] # backlog'[j]
    <3>1. 1 \in DOMAIN backlog /\ DOMAIN backlog' \subseteq Nat \ {0}
      BY <1>a, <2>1, <2>2
    <3>2. \A i, j \in Nat \ {0} : i + 1 # 1 /\ (i # j => i + 1 # j + 1)
      OBVIOUS
    <3>3. \A i, j \in DOMAIN backlog : i # j => backlog[i] # backlog[j]
      BY DEF PlaceInv
    <3>4. ASSUME NEW i \in DOMAIN backlog' PROVE backlog'[i] # c
      BY <2>2, <3>1, <3>2, <3>3
    <3>5. ASSUME NEW i \in DOMAIN backlog', NEW j \in DOMAIN backlog', i # j
          PROVE  backlog'[i] # backlog'[j]
      BY <2>2, <3>1, <3>2, <3>3, <3>5
    <3> QED
      BY <3>4, <3>5 DEF Range
  <2>4. /\ ready' \in Seq(Conns \union {Listener})
        /\ Range(ready') \subseteq Range(ready) \union {c}
    BY <1>a, <2>1, <2>2, AppendRange
  <2>5. peer[c] # "none"
    BY <2>2 DEF PlaceInv
  <2>6. \A d \in Conns : d # c => recv_qu'[d] = recv_qu[d]
    BY <2>1
  <2> HIDE DEF c
  <2> QED
    BY <2>1, <2>2, <2>3, <2>4, <2>5, <2>6 DEF PlaceInv
<1>4. CASE Recv
  <2>1. /\ UNCHANGED <<ready, backlog, open, peer>> /\ pc = "Recv"
        /\ inbox' = [inbox EXCEPT ![cur] = <<>>]
        /\ \A d \in Conns : d # cur => recv_qu'[d] = recv_qu[d]
        /\ pc' \in {"Wait", "Parse", "Close"} /\ (pc' # "Wait" => cur' = cur)
    BY <1>4 DEF Recv, Received, Finish, KeepCur
  <2>2. \A d \in Conns : inbox[d] = <<>> => inbox'[d] = <<>>
    BY <2>1
  <2> QED
    BY <2>1, <2>2 DEF PlaceInv
<1>5. CASE Parse \/ Send
  <2>1. /\ UNCHANGED <<ready, backlog, open, peer, inbox, recv_qu>>
        /\ pc \in {"Parse", "Send"}
        /\ pc' \in {"Wait", "Parse", "Send", "Close"}
        /\ pc' # "Wait" => cur' = cur
    BY <1>5 DEF Parse, Send, netVars, Finish, KeepCur
  <2> QED
    BY <1>a, <2>1, PlaceFrame
<1>6. CASE RemoveAndClose
  <2>1. /\ pc = "Close" /\ open' = open \ {cur}
        /\ peer' = [peer EXCEPT ![cur] = "gone"]
        /\ inbox' = [inbox EXCEPT ![cur] = <<>>]
        /\ pc' = "Wait" /\ UNCHANGED <<backlog, recv_qu>>
        /\ \/ ready' = ready
           \/ \E i \in DOMAIN ready : ready' = RemoveAt(ready, i)
    BY <1>6 DEF RemoveAndClose, Close
  <2>2. /\ ready' \in Seq(Conns \union {Listener})
        /\ Range(ready') \subseteq Range(ready)
    BY <1>a, <2>1, RemoveAtRange
  <2>3. /\ peer' \in [Conns -> {"none", "open", "shut", "reset", "gone"}]
        /\ cur \in Conns \ Range(backlog)
        /\ \A d \in Conns : d # cur => peer'[d] = peer[d]
        /\ \A d \in Conns : d # cur => inbox'[d] = inbox[d]
        /\ peer'[cur] = "gone"
    BY <1>a, <2>1 DEF PlaceInv
  <2>4. \A d \in Conns : inbox[d] = <<>> \/ d = cur => inbox'[d] = <<>>
    BY <1>b, <2>1, <2>3
  <2> QED
    BY <2>1, <2>2, <2>3, <2>4 DEF PlaceInv
<1>7. CASE (AcceptFails /\ UNCHANGED meansVars) \/ Timeout \/ KilledBySend
  <2>1. /\ UNCHANGED <<ready, backlog, open, peer, inbox, recv_qu>>
        /\ pc' \in {"Exit", "Done"}
    BY <1>7 DEF AcceptFails, Timeout, KilledBySend, Killed, netVars, meansVars
  <2> QED
    BY <1>a, <2>1, PlaceFrame
<1>8. ASSUME NEW c \in Conns, NEW m \in Messages, PeerSends(c, m)
      PROVE  PlaceInv'
  <2>1. /\ UNCHANGED <<pc, cur, backlog, open, peer, recv_qu>>
        /\ peer[c] = "open" /\ ready' = Notified(c)
        /\ \A d \in Conns : d # c => inbox'[d] = inbox[d]
    BY <1>8 DEF PeerSends, Deliver
  <2>2. /\ ready' \in Seq(Conns \union {Listener})
        /\ Range(ready') \subseteq
             Range(ready) \union ({c} \intersect (open \union {Listener}))
    BY <2>1, NotifiedRange
  <2>3. c # Listener
    BY SocketsAssumption DEF SocketsAssumption
  <2> QED
    BY <2>1, <2>2, <2>3 DEF PlaceInv
<1>9. ASSUME NEW c \in Conns, Connect(c), UNCHANGED meansVars PROVE PlaceInv'
  <2>1. /\ UNCHANGED <<pc, cur, open, inbox, recv_qu>>
        /\ peer[c] = "none" /\ peer' = [peer EXCEPT ![c] = "open"]
        /\ backlog' = Append(backlog, c) /\ ready' = Notified(Listener)
    BY <1>9 DEF Connect, meansVars
  <2>2. /\ ready' \in Seq(Conns \union {Listener})
        /\ Range(ready') \subseteq Range(ready) \union {Listener}
    BY <2>1, NotifiedRange
  <2>3. /\ backlog' \in Seq(Conns) /\ backlog' # <<>>
        /\ Range(backlog') = Range(backlog) \union {c}
    BY <1>a, <2>1, AppendRange
  <2>4. c \notin Range(backlog) /\ c # Listener
    BY <2>1, SocketsAssumption DEF PlaceInv, SocketsAssumption
  <2>5. \A i, j \in DOMAIN backlog' : i # j => backlog'[i] # backlog'[j]
    <3>1. /\ DOMAIN backlog' = DOMAIN backlog \union {Len(backlog) + 1}
          /\ \A i \in DOMAIN backlog : backlog'[i] = backlog[i]
          /\ backlog'[Len(backlog) + 1] = c
      BY <1>a, <2>1
    <3>2. \A i \in DOMAIN backlog : backlog[i] # c
      BY <2>4 DEF Range
    <3>3. \A i, j \in DOMAIN backlog : i # j => backlog[i] # backlog[j]
      BY DEF PlaceInv
    <3> QED
      BY <3>1, <3>2, <3>3
  <2>6. /\ peer' \in [Conns -> {"none", "open", "shut", "reset", "gone"}]
        /\ peer'[c] = "open" /\ \A d \in Conns : d # c => peer'[d] = peer[d]
    BY <1>a, <2>1
  <2>7. pc \in {"Recv", "Parse", "Send", "Close"} =>
          cur' \in Conns \ Range(backlog') /\ peer'[cur'] \notin {"none", "gone"}
    BY <2>1, <2>3, <2>6 DEF PlaceInv
  <2>8. /\ c \notin open /\ c \notin Range(ready') /\ recv_qu[c] = <<>>
        /\ c \in Range(backlog')
    BY <2>1, <2>2, <2>3, <2>4 DEF PlaceInv
  <2>9. ASSUME NEW d \in Conns, d # c
        PROVE  /\ peer'[d] = "none" => d \notin Range(backlog')
               /\ peer'[d] = "none" \/ d \in Range(backlog') =>
                    d \notin open /\ d \notin Range(ready') /\ recv_qu[d] = <<>>
               /\ peer'[d] \in {"none", "gone"} => inbox[d] = <<>>
    <3>1. d # Listener
      BY SocketsAssumption DEF SocketsAssumption
    <3> QED
      BY <2>2, <2>3, <2>6, <2>9, <3>1 DEF PlaceInv
  <2> QED
    BY <2>1, <2>2, <2>3, <2>5, <2>6, <2>7, <2>8, <2>9 DEF PlaceInv
<1>10. ASSUME NEW c \in Conns, NEW how \in {"shut", "reset"}, HangUp(c, how),
              UNCHANGED meansVars
       PROVE  PlaceInv'
  <2>1. /\ UNCHANGED <<pc, cur, backlog, open, inbox, recv_qu>>
        /\ peer[c] \in {"open", "shut"} /\ peer' = [peer EXCEPT ![c] = how]
        /\ ready' = Notified(c)
    BY <1>10 DEF HangUp, meansVars
  <2>2. /\ ready' \in Seq(Conns \union {Listener})
        /\ Range(ready') \subseteq
             Range(ready) \union ({c} \intersect (open \union {Listener}))
    BY <2>1, NotifiedRange
  <2>3. c # Listener
    BY SocketsAssumption DEF SocketsAssumption
  <2>4. /\ peer' \in [Conns -> {"none", "open", "shut", "reset", "gone"}]
        /\ peer'[c] = how /\ \A d \in Conns : d # c => peer'[d] = peer[d]
    BY <1>a, <2>1
  <2> QED
    BY <2>1, <2>2, <2>3, <2>4 DEF PlaceInv
<1>11. CASE UNCHANGED vars
  BY <1>11 DEF vars, socketVars, netVars, meansVars, PlaceInv
<1> QED
  BY <1>1, <1>2, <1>3, <1>4, <1>5, <1>6, <1>7, <1>8, <1>9, <1>10, <1>11
     DEF Next, Server, Environment, Rest

-----------------------------------------------------------------------------
(* Sequences of halves.                                                    *)

LEMMA HalvesEmpty == ASSUME NEW n PROVE Halves(<<>>, n)
BY DEF Halves

(* Whatever is received behind halves goes on where they end.              *)
LEMMA HalvesConcat ==
  ASSUME NEW a, NEW b, Halves(a, 0), Halves(b, Len(a))
  PROVE  Halves(a \o b, 0) /\ Len(a \o b) = Len(a) + Len(b)
<1>1. a \in Seq(Half) /\ b \in Seq(Half)
  BY DEF Halves
<1>2. /\ a \o b \in Seq(Half) /\ Len(a \o b) = Len(a) + Len(b)
      /\ Len(a) \in Nat /\ Len(b) \in Nat
  BY <1>1
<1>3. ASSUME NEW i \in 1..Len(a \o b)
      PROVE  (a \o b)[i] = FirstHalf <=> (0 + i) % 2 = 1
  <2>1. CASE i <= Len(a)
    <3>1. i \in 1..Len(a) /\ (a \o b)[i] = a[i]
      BY <1>1, <1>2, <2>1
    <3> QED
      BY <3>1 DEF Halves
  <2>2. CASE i > Len(a)
    <3>1. /\ i - Len(a) \in 1..Len(b) /\ (a \o b)[i] = b[i - Len(a)]
          /\ Len(a) + (i - Len(a)) = 0 + i
      BY <1>1, <1>2, <2>2
    <3>2. b[i - Len(a)] = FirstHalf <=> (Len(a) + (i - Len(a))) % 2 = 1
      BY <3>1 DEF Halves
    <3> QED
      BY <3>1, <3>2
  <2> QED
    BY <1>2, <2>1, <2>2
<1> QED
  BY <1>2, <1>3 DEF Halves

(* Taking a message away leaves halves.                                    *)
LEMMA HalvesRest ==
  ASSUME NEW s, Halves(s, 0), Len(s) >= 4
  PROVE  /\ Halves(SubSeq(s, 3, Len(s)), 0)
         /\ Len(SubSeq(s, 3, Len(s))) = Len(s) - 2
<1>1. s \in Seq(Half) /\ Len(s) \in Nat
  BY DEF Halves
<1>2. /\ SubSeq(s, 3, Len(s)) \in Seq(Half)
      /\ Len(SubSeq(s, 3, Len(s))) = Len(s) - 2
      /\ \A i \in 1..(Len(s) - 2) : SubSeq(s, 3, Len(s))[i] = s[i + 2]
  BY <1>1
<1>3. ASSUME NEW i \in 1..(Len(s) - 2)
      PROVE  SubSeq(s, 3, Len(s))[i] = FirstHalf <=> (0 + i) % 2 = 1
  <2>1. i + 2 \in 1..Len(s) /\ (0 + (i + 2)) % 2 = (0 + i) % 2
    BY <1>1
  <2>2. s[i + 2] = FirstHalf <=> (0 + (i + 2)) % 2 = 1
    BY <2>1 DEF Halves
  <2> QED
    BY <1>2, <2>1, <2>2
<1> QED
  BY <1>2, <1>3 DEF Halves

(* What a peer sends next goes on where it has ended.                      *)
LEMMA HalvesAppend ==
  ASSUME NEW s, NEW n \in Nat, NEW k \in Nat, NEW m \in Messages,
         Halves(s, n), (k + n + Len(s)) % 2 = 0
  PROVE  LET h == IF k % 2 = 0 THEN FirstHalf ELSE m
         IN  /\ Halves(s \o <<h>>, n)
             /\ (k + 1 + n + Len(s \o <<h>>)) % 2 = 0
<1> DEFINE h == IF k % 2 = 0 THEN FirstHalf ELSE m
           t == s \o <<h>>
<1>1. s \in Seq(Half) /\ Len(s) \in Nat
  BY DEF Halves
<1>2. h \in Half /\ (h = FirstHalf <=> k % 2 = 0)
  BY MeansAssumption DEF MeansAssumption, Half
<1> HIDE DEF h
<1>3. /\ t \in Seq(Half) /\ Len(t) = Len(s) + 1 /\ t[Len(s) + 1] = h
      /\ \A i \in 1..Len(s) : t[i] = s[i]
  BY <1>1, <1>2
<1>4. (n + (Len(s) + 1)) % 2 = 1 <=> k % 2 = 0
  BY <1>1
<1> HIDE DEF t
<1>5. ASSUME NEW i \in 1..Len(t)
      PROVE  t[i] = FirstHalf <=> (n + i) % 2 = 1
  <2>1. CASE i = Len(s) + 1
    BY <1>2, <1>3, <1>4, <2>1
  <2>2. CASE i # Len(s) + 1
    <3>1. i \in 1..Len(s)
      BY <1>1, <1>3, <2>2
    <3> QED
      BY <1>3, <3>1 DEF Halves
  <2> QED
    BY <2>1, <2>2
<1>6. (k + 1 + n + Len(t)) % 2 = 0
  BY <1>1, <1>3
<1>7. Halves(t, n)
  BY <1>3, <1>5 DEF Halves
<1> QED
  BY <1>6, <1>7 DEF t, h

-----------------------------------------------------------------------------
(* How what has been sent is cut into messages.                            *)

(* A step that moves no halves.                                            *)
LEMMA PartsFrame ==
  ASSUME PartsInv, UNCHANGED <<sent, inbox, recv_qu, data>>,
         pc' = "Parse" => pc = "Parse",
         \A c \in Conns : peer'[c] # "gone" => peer[c] # "gone"
  PROVE  PartsInv'
BY DEF PartsInv, Halves

LEMMA PartsStep == PlaceInv /\ PartsInv /\ [Next]_vars => PartsInv'
<1> SUFFICES ASSUME PlaceInv, PartsInv, [Next]_vars PROVE PartsInv'
  OBVIOUS
<1>a. /\ sent \in [Conns -> Nat]
      /\ inbox \in [Conns -> Seq(Half)] /\ recv_qu \in [Conns -> Seq(Half)]
  BY DEF PartsInv
<1>b. peer \in [Conns -> {"none", "open", "shut", "reset", "gone"}]
  BY DEF PlaceInv
<1>1. CASE (Start \/ Wait) /\ UNCHANGED meansVars
  <2>1. UNCHANGED <<sent, inbox, recv_qu, data, peer>> /\ pc' # "Parse"
    BY <1>1 DEF Start, Resolve, Socket, Bind, Listen, Wait, netVars, meansVars
  <2> QED
    BY <2>1, PartsFrame
<1>2. CASE AcceptAndAdd
  <2> DEFINE c == Head(backlog)
  <2>1. /\ pc' = "Wait" /\ UNCHANGED <<peer, inbox, sent, data>>
        /\ recv_qu' = [recv_qu EXCEPT ![c] = <<>>] /\ backlog # <<>>
    BY <1>2 DEF AcceptAndAdd, Accept, Add, SessionInit, PlaceInv
  <2>2. c \in Conns /\ c \in Range(backlog)
    BY <2>1, TailRange DEF PlaceInv
  <2>3. recv_qu[c] = <<>>
    BY <2>2 DEF PlaceInv
  <2> HIDE DEF c
  <2>4. recv_qu' = recv_qu
    BY <1>a, <2>1, <2>3
  <2> QED
    BY <2>1, <2>4, PartsFrame
<1>3. CASE Recv
  <2> DEFINE qu == recv_qu[cur] \o inbox[cur]
             pop == res' # "error" /\ Complete(qu)
  <2>1. /\ pc = "Recv" /\ UNCHANGED <<peer, sent>>
        /\ inbox' = [inbox EXCEPT ![cur] = <<>>]
        /\ data' = IF pop THEN qu ELSE <<>>
        /\ recv_qu' = [recv_qu EXCEPT ![cur] = IF pop THEN <<>> ELSE qu]
        /\ pc' = "Parse" => pop
    BY <1>3 DEF Recv, Received, Finish
  <2>2. cur \in Conns /\ peer[cur] # "gone"
    BY <2>1 DEF PlaceInv
  <2>3. /\ Halves(recv_qu[cur], 0) /\ Halves(inbox[cur], Len(recv_qu[cur]))
        /\ (sent[cur] + Len(recv_qu[cur]) + Len(inbox[cur])) % 2 = 0
    BY <2>2 DEF PartsInv
  <2>4. Halves(qu, 0) /\ Len(qu) = Len(recv_qu[cur]) + Len(inbox[cur])
    BY <2>3, HalvesConcat
  <2>5. pop => qu # <<>> /\ Len(qu) % 2 = 0
    BY DEF Complete
  <2> HIDE DEF qu, pop
  <2>6. /\ qu \in Seq(Half) /\ Len(qu) \in Nat /\ sent[cur] \in Nat
        /\ Len(recv_qu[cur]) \in Nat /\ Len(inbox[cur]) \in Nat
    BY <1>a, <2>2, <2>4 DEF Halves
  <2>7. Halves(data', 0) /\ Len(data') % 2 = 0 /\ (pc' = "Parse" => data' # <<>>)
    <3>1. CASE pop
      BY <2>1, <2>4, <2>5, <3>1
    <3>2. CASE ~pop
      BY <2>1, <3>2, HalvesEmpty
    <3> QED
      BY <3>1, <3>2
  <2>8. /\ inbox' \in [Conns -> Seq(Half)] /\ recv_qu' \in [Conns -> Seq(Half)]
        /\ inbox'[cur] = <<>> /\ recv_qu'[cur] = IF pop THEN <<>> ELSE qu
        /\ \A c \in Conns : c # cur => /\ inbox'[c] = inbox[c]
                                      /\ recv_qu'[c] = recv_qu[c]
    BY <1>a, <2>1, <2>2, <2>6
  <2>9. /\ Halves(recv_qu'[cur], 0)
        /\ Halves(inbox'[cur], Len(recv_qu'[cur]))
        /\ (sent[cur] + Len(recv_qu'[cur]) + Len(inbox'[cur])) % 2 = 0
    <3>1. Halves(recv_qu'[cur], 0) /\ Halves(inbox'[cur], Len(recv_qu'[cur]))
      BY <2>4, <2>8, HalvesEmpty
    <3>2. \A k, r, n \in Nat : (k + r + n) % 2 = 0 => (k + (r + n) + 0) % 2 = 0
      OBVIOUS
    <3>3. (sent[cur] + Len(qu) + 0) % 2 = 0
      <4>1. PICK k \in Nat, r \in Nat, n \in Nat :
              k = sent[cur] /\ r = Len(recv_qu[cur]) /\ n = Len(inbox[cur])
        BY <2>6
      <4>2. (k + (r + n) + 0) % 2 = 0
        BY <2>3, <3>2, <4>1
      <4> QED
        BY <2>4, <4>1, <4>2
    <3>4. \A k, n \in Nat : (k + n + 0) % 2 = 0 /\ n % 2 = 0 => (k + 0 + 0) % 2 = 0
      OBVIOUS
    <3>5. pop => (sent[cur] + 0 + 0) % 2 = 0
      BY <2>5, <2>6, <3>3, <3>4
    <3>6. Len(<<>>) = 0
      OBVIOUS
    <3> QED
      BY <2>8, <3>1, <3>3, <3>5, <3>6
  <2>10. ASSUME NEW c \in Conns, peer'[c] # "gone"
         PROVE  /\ Halves(recv_qu'[c], 0)
                /\ Halves(inbox'[c], Len(recv_qu'[c]))
                /\ (sent'[c] + Len(recv_qu'[c]) + Len(inbox'[c])) % 2 = 0
    <3>1. CASE c = cur
      BY <2>1, <2>9, <3>1
    <3>2. CASE c # cur
      BY <2>1, <2>8, <2>10, <3>2 DEF PartsInv
    <3> QED
      BY <3>1, <3>2
  <2> QED
    BY <1>a, <2>1, <2>7, <2>8, <2>10 DEF PartsInv, Halves
<1>4. CASE Parse
  <2>1. /\ UNCHANGED <<peer, inbox, recv_qu, sent>>
        /\ data' = IF Len(data) < 4 THEN <<>> ELSE SubSeq(data, 3, Len(data))
        /\ pc' = "Parse" => data' # <<>>
    BY <1>4 DEF Parse, netVars, Finish
  <2>2. Halves(data, 0) /\ Len(data) % 2 = 0 /\ Len(data) \in Nat
    BY DEF PartsInv, Halves
  <2>3. Halves(data', 0) /\ Len(data') % 2 = 0
    <3>1. CASE Len(data) < 4
      BY <2>1, <3>1, HalvesEmpty
    <3>2. CASE Len(data) >= 4
      <4>1. /\ data' = SubSeq(data, 3, Len(data))
            /\ Halves(data', 0) /\ Len(data') = Len(data) - 2
        BY <2>1, <2>2, <3>2, HalvesRest
      <4>2. \A n \in Nat : n % 2 = 0 => (n - 2) % 2 = 0
        OBVIOUS
      <4> QED
        BY <2>2, <4>1, <4>2
    <3> QED
      BY <2>2, <3>1, <3>2
  <2> QED
    BY <1>a, <2>1, <2>3 DEF PartsInv, Halves
<1>5. CASE Send
  <2>1. UNCHANGED <<peer, inbox, recv_qu, sent, data>> /\ pc' # "Parse"
    BY <1>5 DEF Send, netVars, Finish
  <2> QED
    BY <2>1, PartsFrame
<1>6. CASE RemoveAndClose
  <2>1. /\ pc = "Close" /\ pc' = "Wait" /\ UNCHANGED <<recv_qu, sent, data>>
        /\ peer' = [peer EXCEPT ![cur] = "gone"]
        /\ inbox' = [inbox EXCEPT ![cur] = <<>>]
    BY <1>6 DEF RemoveAndClose, Close
  <2>2. cur \in Conns
    BY <2>1 DEF PlaceInv
  <2>3. /\ inbox' \in [Conns -> Seq(Half)] /\ peer'[cur] = "gone"
        /\ \A c \in Conns : c # cur => inbox'[c] = inbox[c] /\ peer'[c] = peer[c]
    BY <1>a, <1>b, <2>1, <2>2
  <2> QED
    BY <1>a, <2>1, <2>3, SMTT(30) DEF PartsInv, Halves
<1>7. CASE (AcceptFails /\ UNCHANGED meansVars) \/ Timeout \/ KilledBySend
  <2>1. UNCHANGED <<peer, inbox, recv_qu, sent, data>> /\ pc' # "Parse"
    BY <1>7 DEF AcceptFails, Timeout, KilledBySend, Killed, netVars, meansVars
  <2> QED
    BY <2>1, PartsFrame
<1>8. ASSUME NEW d \in Conns, NEW m \in Messages, PeerSends(d, m)
      PROVE  PartsInv'
  <2> DEFINE h == IF sent[d] % 2 = 0 THEN FirstHalf ELSE m
             t == inbox[d] \o <<h>>
  <2>1. /\ UNCHANGED <<pc, peer, recv_qu, data>> /\ peer[d] # "gone"
        /\ inbox' = [inbox EXCEPT ![d] = t]
        /\ sent' = [sent EXCEPT ![d] = @ + 1]
    BY <1>8 DEF PeerSends, Deliver
  <2>2. /\ Halves(recv_qu[d], 0) /\ Halves(inbox[d], Len(recv_qu[d]))
        /\ (sent[d] + Len(recv_qu[d]) + Len(inbox[d])) % 2 = 0
    BY <2>1 DEF PartsInv
  <2>3. sent[d] \in Nat /\ Len(recv_qu[d]) \in Nat
    BY <1>a
  <2>4. /\ Halves(t, Len(recv_qu[d]))
        /\ (sent[d] + 1 + Len(recv_qu[d]) + Len(t)) % 2 = 0
    BY <2>2, <2>3, HalvesAppend
  <2> HIDE DEF t, h
  <2>5. t \in Seq(Half)
    BY <2>4 DEF Halves
  <2>6. /\ inbox' \in [Conns -> Seq(Half)] /\ inbox'[d] = t
        /\ sent' \in [Conns -> Nat] /\ sent'[d] = sent[d] + 1
        /\ \A c \in Conns : c # d => inbox'[c] = inbox[c] /\ sent'[c] = sent[c]
    BY <1>a, <2>1, <2>5
  <2>7. ASSUME NEW c \in Conns, peer'[c] # "gone"
        PROVE  /\ Halves(recv_qu'[c], 0)
               /\ Halves(inbox'[c], Len(recv_qu'[c]))
               /\ (sent'[c] + Len(recv_qu'[c]) + Len(inbox'[c])) % 2 = 0
    <3>1. CASE c = d
      BY <2>1, <2>2, <2>4, <2>6, <3>1
    <3>2. CASE c # d
      BY <2>1, <2>6, <2>7, <3>2 DEF PartsInv
    <3> QED
      BY <3>1, <3>2
  <2> QED
    BY <1>a, <2>1, <2>6, <2>7 DEF PartsInv, Halves
<1>9. ASSUME NEW d \in Conns, UNCHANGED meansVars,
             Connect(d) \/ \E how \in {"shut", "reset"} : HangUp(d, how)
      PROVE  PartsInv'
  <2>1. UNCHANGED <<pc, inbox, recv_qu, sent, data>>
    BY <1>9 DEF Connect, HangUp, meansVars
  <2>2. PICK how \in {"open", "shut", "reset"} :
          peer' = [peer EXCEPT ![d] = how] /\ peer[d] # "gone"
    BY <1>9 DEF Connect, HangUp
  <2>3. \A c \in Conns : peer'[c] # "gone" => peer[c] # "gone"
    BY <1>b, <2>2
  <2> QED
    BY <2>1, <2>3, PartsFrame
<1>10. CASE UNCHANGED vars
  BY <1>10, PartsFrame DEF vars, socketVars, netVars, meansVars
<1> QED
  BY <1>1, <1>2, <1>3, <1>4, <1>5, <1>6, <1>7, <1>8, <1>9, <1>10
     DEF Next, Server, Environment, Rest

-----------------------------------------------------------------------------
(* Prices.                                                                 *)

(* The array has been made larger before it is full.                       *)
LEMMA PushFits ==
  ASSUME NEW a \in [prices : Seq([timestamp : Int, price : Int]), capacity : Nat],
         NEW e \in [timestamp : Int, price : Int],
         Len(a.prices) < a.capacity
  PROVE  /\ Push(a, e) \in [prices : Seq([timestamp : Int, price : Int]),
                            capacity : Nat]
         /\ Len(Push(a, e).prices) < Push(a, e).capacity
<1>1. /\ Append(a.prices, e) \in Seq([timestamp : Int, price : Int])
      /\ Len(Append(a.prices, e)) = Len(a.prices) + 1
      /\ Len(a.prices) \in Nat /\ a.capacity \in Nat
  OBVIOUS
<1> DEFINE n == IF Len(a.prices) + 1 >= a.capacity THEN 2 * a.capacity
                                                   ELSE a.capacity
<1>2. n \in Nat /\ Len(a.prices) + 1 < n
  BY <1>1
<1>3. Push(a, e) = [prices |-> Append(a.prices, e), capacity |-> n]
  BY DEF Push
<1> HIDE DEF n
<1> QED
  BY <1>1, <1>2, <1>3

(* What is parsed next is a message.                                       *)
LEMMA ParsedMessage == PartsInv /\ pc = "Parse" => data[2] \in Messages
<1> SUFFICES ASSUME PartsInv, pc = "Parse" PROVE data[2] \in Messages
  OBVIOUS
<1>1. data \in Seq(Half) /\ data # <<>> /\ Len(data) % 2 = 0
  BY DEF PartsInv, Halves
<1>2. 2 \in 1..Len(data)
  BY <1>1
<1>3. data[2] = FirstHalf <=> (0 + 2) % 2 = 1
  BY <1>2 DEF PartsInv, Halves
<1> QED
  BY <1>1, <1>2, <1>3 DEF Half

LEMMA PricesStep == PlaceInv /\ PartsInv /\ PricesInv /\ [Next]_vars => PricesInv'
<1> SUFFICES ASSUME PlaceInv, PartsInv, PricesInv, [Next]_vars PROVE PricesInv'
  OBVIOUS
<1>1. CASE UNCHANGED asset
  BY <1>1 DEF PricesInv
<1>2. CASE AcceptAndAdd
  <2>1. asset' = [asset EXCEPT ![Head(backlog)] = NoPrices]
    BY <1>2 DEF AcceptAndAdd, Add, SessionInit
  <2>2. /\ NoPrices \in [prices : Seq([timestamp : Int, price : Int]), capacity : Nat]
        /\ Len(NoPrices.prices) < NoPrices.capacity
    BY MeansAssumption DEF MeansAssumption, NoPrices
  <2> QED
    BY <2>1, <2>2 DEF PricesInv
<1>3. CASE Parse
  <2> DEFINE m == data[2]
             entry == [timestamp |-> m.first_word, price |-> m.second_word]
  <2>1. /\ pc = "Parse"
        /\ asset' = asset \/ asset' = [asset EXCEPT ![ca] = Push(@, entry)]
    BY <1>3 DEF Parse
  <2>2. entry \in [timestamp : Int, price : Int]
    <3>1. m \in [type : {"I", "Q", "other"}, first_word : Int, second_word : Int]
      BY <2>1, ParsedMessage, MeansAssumption DEF MeansAssumption
    <3> QED
      BY <3>1
  <2> HIDE DEF entry, m
  <2>3. ASSUME NEW c \in Conns
        PROVE  /\ asset'[c] \in [prices : Seq([timestamp : Int, price : Int]),
                                 capacity : Nat]
               /\ Len(asset'[c].prices) < asset'[c].capacity
    <3>1. asset'[c] = asset[c] \/ asset'[c] = Push(asset[c], entry)
      BY <2>1 DEF PricesInv
    <3>2. /\ asset[c] \in [prices : Seq([timestamp : Int, price : Int]),
                           capacity : Nat]
          /\ Len(asset[c].prices) < asset[c].capacity
      BY DEF PricesInv
    <3> QED
      BY <2>2, <3>1, <3>2, PushFits
  <2>4. DOMAIN asset' = Conns /\ asset' = [c \in Conns |-> asset'[c]]
    BY <2>1 DEF PricesInv
  <2> QED
    BY <2>3, <2>4 DEF PricesInv
<1> QED
  BY <1>1, <1>2, <1>3
     DEF Next, Server, Environment, Rest, Recv, Send, RemoveAndClose, PeerSends,
         Timeout, KilledBySend, meansVars, vars

-----------------------------------------------------------------------------
(* A set of numbers has a least one: what stands in for induction.         *)

LEMMA LeastNumber ==
  ASSUME NEW S \in SUBSET Nat, S # {}
  PROVE  \E m \in S : \A n \in S : m <= n
<1> DEFINE R == OpToRel(<, Nat)
<1>1. IsWellFoundedOn(R, Nat)
  BY NatLessThanWellFounded
<1>2. \A x, y \in Nat : <<x, y>> \in R <=> x < y
  BY DEF OpToRel
<1> HIDE DEF R
<1>3. PICK m \in S : \A n \in S : <<n, m>> \notin R
  BY <1>1, WFMin
<1>4. ASSUME NEW n \in S PROVE m <= n
  <2>1. ~(n < m)
    BY <1>2, <1>3, Zenon
  <2> QED
    BY <2>1
<1> QED
  BY <1>4

LEMMA GreatestNumber ==
  ASSUME NEW S \in SUBSET Nat, S # {}, NEW b \in Nat, \A n \in S : n <= b
  PROVE  \E m \in S : \A n \in S : n <= m
<1> DEFINE D == {b - n : n \in S}
<1>1. \A n \in S : n \in Nat /\ b - n \in Nat
  OBVIOUS
<1>2. D \in SUBSET Nat /\ D # {}
  BY <1>1
<1>3. PICK d \in D : \A e \in D : d <= e
  BY <1>2, LeastNumber
<1>4. PICK m \in S : d = b - m
  OBVIOUS
<1>5. \A n \in S : b - m <= b - n
  BY <1>3, <1>4
<1>6. \A n \in S : n <= m
  BY <1>1, <1>5
<1> QED
  BY <1>6

-----------------------------------------------------------------------------
(* Folds: what is computed one element at a time, and sums.                *)

(* The subsets of a finite set, one element less at a time.                *)
LEMMA Smaller ==
  ASSUME NEW S, IsFiniteSet(S), NEW t \in SUBSET S
  PROVE  /\ IsFiniteSet(t) /\ Cardinality(t) \in Nat
         /\ Cardinality(t) <= Cardinality(S)
         /\ Cardinality(t) = 0 <=> t = {}
         /\ \A x \in t : Cardinality(t \ {x}) = Cardinality(t) - 1
<1>1. IsFiniteSet(t) /\ Cardinality(t) <= Cardinality(S)
  BY FS_Subset
<1>2. Cardinality(t) \in Nat /\ (Cardinality(t) = 0 <=> t = {})
  BY <1>1, FS_CardinalityType, FS_EmptySet
<1>3. ASSUME NEW x \in t PROVE Cardinality(t \ {x}) = Cardinality(t) - 1
  BY <1>1, FS_RemoveElement
<1> QED
  BY <1>1, <1>2, <1>3

(* A way of picking an element of each set, and the folding of a step over *)
(* the elements in the order of picking.                                   *)
Picks(pick, S) == \A t \in SUBSET S : t # {} => pick[t] \in t

FoldsTo(f, step, base, pick, S) ==
  \A t \in SUBSET S : f[t] = IF t = {} THEN base
                             ELSE step[<<pick[t], f[t \ {pick[t]}]>>]

(* What a fold over the subsets of a finite set computes exists.           *)
LEMMA FoldExists ==
  ASSUME NEW S, IsFiniteSet(S), NEW V, NEW base \in V,
         NEW step \in [S \X V -> V], NEW pick, Picks(pick, S)
  PROVE  \E f \in [SUBSET S -> V] : FoldsTo(f, step, base, pick, S)
<1> USE DEF Picks
<1> DEFINE Small(n) == {t \in SUBSET S : Cardinality(t) <= n}
           Fold(f, t) == IF t = {} THEN base
                         ELSE step[<<pick[t], f[t \ {pick[t]}]>>]
           Good(n) == \E f \in [Small(n) -> V] :
                        \A t \in Small(n) : f[t] = Fold(f, t)
           bad == {n \in Nat : ~Good(n)}
<1>1. Good(0)
  <2>1. \A t \in Small(0) : t = {}
    BY Smaller
  <2>2. [t \in Small(0) |-> base] \in [Small(0) -> V]
    OBVIOUS
  <2> QED
    BY <2>1, <2>2
<1>2. ASSUME NEW n \in Nat, Good(n) PROVE Good(n + 1)
  <2>1. PICK f \in [Small(n) -> V] : \A t \in Small(n) : f[t] = Fold(f, t)
    BY <1>2
  <2> DEFINE g == [t \in Small(n + 1) |-> IF t \in Small(n) THEN f[t]
                                          ELSE Fold(f, t)]
  <2>2. ASSUME NEW t \in Small(n + 1), t # {}
        PROVE  pick[t] \in S /\ t \ {pick[t]} \in Small(n)
    BY <2>2, Smaller
  <2>3. ASSUME NEW t \in Small(n) PROVE t \in Small(n + 1)
    BY Smaller
  <2>4. ASSUME NEW t \in Small(n + 1) PROVE Fold(f, t) \in V
    BY <2>2
  <2>5. g \in [Small(n + 1) -> V]
    BY <2>1, <2>4
  <2>6. ASSUME NEW t \in Small(n + 1) PROVE Fold(g, t) = Fold(f, t)
    BY <2>2, <2>3
  <2>7. ASSUME NEW t \in Small(n + 1) PROVE g[t] = Fold(f, t)
    BY <2>1
  <2> HIDE DEF g, Fold, Small
  <2> QED
    BY <2>5, <2>6, <2>7
<1>3. bad = {}
  <2> SUFFICES ASSUME bad # {} PROVE FALSE
    OBVIOUS
  <2> HIDE DEF Good
  <2>1. PICK m \in bad : \A n \in bad : m <= n
    BY LeastNumber
  <2>2. m \in Nat /\ m # 0 /\ ~Good(m)
    BY <1>1
  <2>3. m - 1 \in Nat /\ m - 1 \notin bad
    BY <2>1, <2>2
  <2>4. Good((m - 1) + 1)
    BY <1>2, <2>3
  <2>5. (m - 1) + 1 = m
    BY <2>2
  <2> QED
    BY <2>2, <2>4, <2>5
<1>4. Cardinality(S) \in Nat
  BY FS_CardinalityType
<1>5. Good(Cardinality(S))
  <2> HIDE DEF Good
  <2> QED
    BY <1>3, <1>4
<1>6. Small(Cardinality(S)) = SUBSET S
  BY Smaller
<1> QED
  BY <1>5, <1>6 DEF FoldsTo

(* Sums, where the last to be added is the one picked, or any.             *)
Sums(g, w, pick, S) ==
  \A t \in SUBSET S :
    g[t] = IF t = {} THEN 0 ELSE w[pick[t]] + g[t \ {pick[t]}]

SumsInAnyOrder(g, w, S) ==
  \A t \in SUBSET S : \A x \in t : g[t] = w[x] + g[t \ {x}]

(* In a sum over a finite set any element may come last.                   *)
LEMMA AnyOrder ==
  ASSUME NEW S, IsFiniteSet(S), NEW w \in [S -> Int], NEW pick,
         Picks(pick, S), NEW g \in [SUBSET S -> Int], Sums(g, w, pick, S)
  PROVE  SumsInAnyOrder(g, w, S)
<1> USE DEF Picks, Sums
<1> DEFINE Good(t) == \A x \in t : g[t] = w[x] + g[t \ {x}]
           bad == {n \in Nat : \E t \in SUBSET S : Cardinality(t) = n /\ ~Good(t)}
<1>1. bad = {}
  <2> SUFFICES ASSUME bad # {} PROVE FALSE
    OBVIOUS
  <2>1. PICK m \in bad : \A n \in bad : m <= n
    BY LeastNumber
  <2>2. PICK t \in SUBSET S : Cardinality(t) = m /\ ~Good(t)
    BY <2>1
  <2> HIDE DEF Good
  <2>3. ASSUME NEW u \in SUBSET S, Cardinality(u) < m PROVE Good(u)
    <3>1. Cardinality(u) \in Nat /\ Cardinality(u) \notin bad
      BY <2>1, <2>3, Smaller
    <3> QED
      BY <3>1
  <2>4. PICK x \in t : g[t] # w[x] + g[t \ {x}]
    BY <2>2 DEF Good
  <2> DEFINE y == pick[t]
  <2>5. y \in t /\ g[t] = w[y] + g[t \ {y}]
    BY <2>4
  <2> HIDE DEF y
  <2>6. x # y
    BY <2>4, <2>5
  <2>7. Good(t \ {x}) /\ Good(t \ {y})
    BY <2>2, <2>3, <2>4, <2>5, Smaller
  <2>8. g[t \ {y}] = w[x] + g[(t \ {y}) \ {x}]
    BY <2>4, <2>6, <2>7 DEF Good
  <2>9. g[t \ {x}] = w[y] + g[(t \ {x}) \ {y}]
    BY <2>5, <2>6, <2>7 DEF Good
  <2>10. g[(t \ {x}) \ {y}] = g[(t \ {y}) \ {x}]
    <3>1. (t \ {x}) \ {y} = (t \ {y}) \ {x}
      OBVIOUS
    <3> QED
      BY <3>1
  <2>11. w[x] \in Int /\ w[y] \in Int /\ g[(t \ {x}) \ {y}] \in Int
    BY <2>4, <2>5
  <2>12. \A a, b, c \in Int : a + (b + c) = b + (a + c)
    OBVIOUS
  <2>13. w[x] + (w[y] + g[(t \ {x}) \ {y}]) = w[y] + (w[x] + g[(t \ {x}) \ {y}])
    BY <2>11, <2>12
  <2> QED
    BY <2>4, <2>5, <2>8, <2>9, <2>10, <2>13
<1>2. ASSUME NEW t \in SUBSET S PROVE Good(t)
  <2>1. Cardinality(t) \in Nat /\ Cardinality(t) \notin bad
    BY <1>1, Smaller
  <2> HIDE DEF Good
  <2> QED
    BY <2>1
<1> QED
  BY <1>2 DEF SumsInAnyOrder

(* A set of sets that has the empty one, and each that comes from one of   *)
(* it by an element that is picked, has all.                               *)
Grows(Q, pick, S) ==
  {} \in Q /\ \A t \in SUBSET S : t # {} /\ t \ {pick[t]} \in Q => t \in Q

LEMMA SubsetInduction ==
  ASSUME NEW S, IsFiniteSet(S), NEW Q \in SUBSET (SUBSET S), NEW pick,
         Picks(pick, S), Grows(Q, pick, S)
  PROVE  SUBSET S \subseteq Q
<1> USE DEF Picks, Grows
<1> DEFINE bad == {Cardinality(t) : t \in (SUBSET S) \ Q}
<1>1. bad \in SUBSET Nat
  BY Smaller
<1>2. bad = {}
  <2> SUFFICES ASSUME bad # {} PROVE FALSE
    OBVIOUS
  <2>1. PICK m \in bad : \A n \in bad : m <= n
    BY <1>1, LeastNumber
  <2>2. PICK t \in (SUBSET S) \ Q : Cardinality(t) = m
    BY <2>1
  <2> DEFINE u == t \ {pick[t]}
  <2>3. t # {} /\ pick[t] \in t /\ u \notin Q
    <3>1. t # {}
      BY <2>2
    <3> QED
      BY <2>2, <3>1, Zenon
  <2>4. u \in SUBSET S /\ Cardinality(u) = m - 1 /\ m \in Nat
    BY <2>2, <2>3, Smaller
  <2> HIDE DEF u
  <2>5. m - 1 \in bad
    BY <2>3, <2>4
  <2> QED
    BY <2>1, <2>4, <2>5
<1> QED
  BY <1>2

(* The sum over a set of entries, whose elements may be added in any order.*)
LEMMA PricesSum ==
  ASSUME NEW S \in SUBSET [timestamp : Int, price : Int], IsFiniteSet(S)
  PROVE  \E g \in [SUBSET S -> Int] :
           /\ MapThenSumSet(LAMBDA e : e.price, S) = g[S]
           /\ g[{}] = 0
           /\ \A t \in SUBSET S : \A x \in t : g[t] = x.price + g[t \ {x}]
<1> DEFINE pick == [t \in SUBSET S |-> CHOOSE x \in t : TRUE]
           w == [e \in S |-> e.price]
           step == [z \in S \X Int |-> w[z[1]] + z[2]]
           Def(f) == f = [t \in SUBSET S |->
                            IF t = {} THEN 0
                            ELSE LET x == CHOOSE y \in t : TRUE
                                 IN x.price + f[t \ {x}]]
           g == CHOOSE f : Def(f)
<1>1. MapThenSumSet(LAMBDA e : e.price, S) = g[S]
  BY DEF MapThenSumSet, MapThenFoldSet
<1>2. Picks(pick, S)
  BY DEF Picks
<1>3. w \in [S -> Int] /\ step \in [S \X Int -> Int]
  OBVIOUS
<1>4. Def(g)
  <2>1. PICK f \in [SUBSET S -> Int] : FoldsTo(f, step, 0, pick, S)
    <3>1. 0 \in Int
      OBVIOUS
    <3> HIDE DEF step, pick
    <3> QED
      BY <1>2, <1>3, <3>1, FoldExists
  <2>2. ASSUME NEW t \in SUBSET S
        PROVE  f[t] = IF t = {} THEN 0
                      ELSE LET x == CHOOSE y \in t : TRUE
                           IN x.price + f[t \ {x}]
    <3>1. CASE t = {}
      BY <2>1, <3>1 DEF FoldsTo
    <3>2. CASE t # {}
      <4> DEFINE x == CHOOSE y \in t : TRUE
      <4>1. pick[t] = x /\ x \in t
        BY <3>2
      <4>2. f[t] = step[<<x, f[t \ {x}]>>] /\ f[t \ {x}] \in Int
        BY <2>1, <3>2, <4>1 DEF FoldsTo
      <4> HIDE DEF x
      <4>3. f[t] = x.price + f[t \ {x}]
        BY <4>1, <4>2
      <4> QED
        BY <3>2, <4>3 DEF x
    <3> QED
      BY <3>1, <3>2
  <2>3. Def(f)
    BY <2>1, <2>2
  <2> HIDE DEF Def
  <2> QED
    BY <2>3
<1> HIDE DEF g
<1>5. \A t \in SUBSET S : g[t] = IF t = {} THEN 0
                                 ELSE pick[t].price + g[t \ {pick[t]}]
  BY <1>4
<1> HIDE DEF pick
<1>6. g \in [SUBSET S -> Int]
  <2> DEFINE Q == {t \in SUBSET S : g[t] \in Int}
  <2>1. {} \in Q
    <3>1. g[{}] = 0
      BY <1>5, Zenon
    <3> QED
      BY <3>1
  <2>2. ASSUME NEW t \in SUBSET S, t # {}, t \ {pick[t]} \in Q PROVE t \in Q
    <3>1. g[t] = pick[t].price + g[t \ {pick[t]}] /\ pick[t].price \in Int
      BY <1>2, <1>5, <2>2 DEF Picks
    <3> QED
      BY <2>2, <3>1
  <2>3. SUBSET S \subseteq Q
    <3> HIDE DEF Q
    <3>1. Q \in SUBSET (SUBSET S)
      BY DEF Q
    <3>2. Grows(Q, pick, S)
      BY <2>1, <2>2 DEF Grows
    <3> QED
      BY <1>2, <3>1, <3>2, SubsetInduction
  <2>4. g = [t \in SUBSET S |-> g[t]]
    BY <1>4
  <2> QED
    BY <2>3, <2>4
<1>7. SumsInAnyOrder(g, w, S)
  <2>1. Sums(g, w, pick, S)
    BY <1>2, <1>5 DEF Sums, Picks
  <2> HIDE DEF w
  <2> QED
    BY <1>2, <1>3, <1>6, <2>1, AnyOrder
<1> QED
  BY <1>1, <1>5, <1>6, <1>7 DEF SumsInAnyOrder

Entry == [timestamp : Int, price : Int]

(* The query's loop computes what the abstract service calls the mean.     *)
LEMMA QueryIsMean ==
  ASSUME NEW p \in Seq(Entry), NEW from \in Int, NEW to \in Int,
         \A i, j \in DOMAIN p : p[i].timestamp = p[j].timestamp => i = j,
         NEW a, a.prices = p
  PROVE  PricesQuery(a, from, to) = Service!Mean(Range(p), from, to)
<1> DEFINE Asked(e) == from <= e.timestamp /\ e.timestamp <= to
           asked == {e \in Range(p) : Asked(e)}
           D == DOMAIN p
           Of(t) == {e \in asked : \E i \in t : p[i] = e}
           V == [mean : Int, num : Nat]
           Loop(m, e) == IF Asked(e) THEN [mean |-> m.mean + e.price, num |-> m.num + 1]
                                     ELSE m
           pick == [t \in SUBSET D |-> Max(t)]
           step == [z \in D \X V |-> Loop(z[2], p[z[1]])]
           none == [mean |-> 0, num |-> 0]
           Def(f) == f = [t \in SUBSET D |->
                            IF t = {} THEN none
                            ELSE LET x == Max(t) IN Loop(f[t \ {x}], p[x])]
           h == CHOOSE f : Def(f)
<1>1. FoldLeft(LAMBDA m, e : Loop(m, e), none, p) = h[D]
  BY DEF FoldLeft, MapThenFoldSet
<1>2. /\ Len(p) \in Nat /\ D = 1..Len(p) /\ IsFiniteSet(D)
      /\ \A i \in D : p[i] \in Entry
  <2>1. Len(p) \in Nat /\ D = 1..Len(p) /\ \A i \in D : p[i] \in Entry
    OBVIOUS
  <2> QED
    BY <2>1, FS_Interval
<1>3. /\ asked \in SUBSET Entry /\ IsFiniteSet(asked)
  <2>1. Range(p) \in SUBSET Entry /\ asked \subseteq Range(p)
    BY <1>2 DEF Range
  <2>2. IsFiniteSet(Range(p))
    <3>1. p \in Surjection(D, Range(p))
      <4>1. p \in [D -> Range(p)]
        BY DEF Range
      <4> QED
        BY <4>1 DEF Surjection, Range
    <3> QED
      BY <1>2, <3>1, FS_Surjection
  <2> QED
    BY <2>1, <2>2, FS_Subset
<1>4. Picks(pick, D)
  <2> SUFFICES ASSUME NEW t \in SUBSET D, t # {} PROVE Max(t) \in t
    BY DEF Picks
  <2>0. t # {}
    OBVIOUS
  <2>1. PICK m \in t : \A n \in t : n <= m
    <3>1. t \in SUBSET Nat /\ \A n \in t : n <= Len(p)
      BY <1>2
    <3> QED
      BY <1>2, <2>0, <3>1, GreatestNumber
  <2>2. \A n \in t : m >= n
    BY <1>2, <2>1
  <2> QED
    BY <2>2 DEF Max
<1>5. PICK g \in [SUBSET asked -> Int] :
        /\ MapThenSumSet(LAMBDA e : e.price, asked) = g[asked]
        /\ g[{}] = 0
        /\ \A t \in SUBSET asked : \A x \in t : g[t] = x.price + g[t \ {x}]
  <2> HIDE DEF asked
  <2> QED
    BY <1>3, PricesSum DEF Entry
<1>6. step \in [D \X V -> V] /\ none \in V
  BY <1>2 DEF Entry
<1>7. Def(h)
  <2>1. PICK f \in [SUBSET D -> V] : FoldsTo(f, step, none, pick, D)
    <3> HIDE DEF step, pick, none, V, D
    <3> QED
      BY <1>2, <1>4, <1>6, FoldExists
  <2>2. ASSUME NEW t \in SUBSET D, t # {}
        PROVE  f[t] = Loop(f[t \ {Max(t)}], p[Max(t)])
    <3>1. pick[t] = Max(t) /\ Max(t) \in D
      BY <1>4, <2>2 DEF Picks
    <3>2. f[t] = step[<<Max(t), f[t \ {Max(t)}]>>] /\ f[t \ {Max(t)}] \in V
      BY <2>1, <2>2, <3>1 DEF FoldsTo
    <3> HIDE DEF Loop, V
    <3> QED
      BY <3>1, <3>2
  <2>3. f[{}] = none
    BY <2>1 DEF FoldsTo
  <2>4. Def(f)
    <3> HIDE DEF Loop, V, none
    <3> QED
      BY <2>1, <2>2, <2>3
  <2> HIDE DEF Def
  <2> QED
    BY <2>4
<1> HIDE DEF h
<1>8. /\ h[{}] = none
      /\ \A t \in SUBSET D : t # {} => h[t] = Loop(h[t \ {pick[t]}], p[pick[t]])
  <2> HIDE DEF Loop, none
  <2> QED
    BY <1>7
<1> DEFINE Good(t) == h[t] = [mean |-> g[Of(t)], num |-> Cardinality(Of(t))]
           Q == {t \in SUBSET D : Good(t)}
<1>9. Of({}) = {} /\ Of(D) = asked
  BY DEF Range
<1>10. {} \in Q
  BY <1>5, <1>8, <1>9, FS_EmptySet
<1>11. ASSUME NEW t \in SUBSET D, t # {}, t \ {pick[t]} \in Q PROVE t \in Q
  <2> DEFINE x == pick[t]
             u == t \ {x}
  <2>1. x \in t /\ x \in D /\ p[x] \in Entry
    BY <1>2, <1>4, <1>11 DEF Picks
  <2>2. h[t] = Loop(h[u], p[x]) /\ h[u] = [mean |-> g[Of(u)], num |-> Cardinality(Of(u))]
    BY <1>8, <1>11
  <2> HIDE DEF x
  <2>3. Of(u) \in SUBSET asked /\ Of(t) \in SUBSET asked
    OBVIOUS
  <2>4. g[Of(u)] \in Int /\ Cardinality(Of(u)) \in Nat
    BY <1>3, <1>5, <2>3, Smaller
  <2>5. CASE Asked(p[x])
    <3>1. p[x] \in Of(t)
      BY <2>1, <2>5 DEF Range
    <3>2. Of(t) \ {p[x]} = Of(u)
      <4>1. ASSUME NEW e \in Of(u) PROVE e \in Of(t) /\ e # p[x]
        BY <2>1
      <4>2. ASSUME NEW e \in Of(t), e # p[x] PROVE e \in Of(u)
        <5>1. PICK i \in t : p[i] = e
          BY <4>2
        <5>2. i \in u
          BY <4>2, <5>1
        <5> QED
          BY <4>2, <5>1, <5>2
      <4> QED
        BY <4>1, <4>2
    <3>3. g[Of(t)] = p[x].price + g[Of(u)]
      <4> HIDE DEF Of, asked, u
      <4>1. \A s \in SUBSET asked : \A y \in s : g[s] = y.price + g[s \ {y}]
        BY <1>5
      <4>2. g[Of(t)] = p[x].price + g[Of(t) \ {p[x]}]
        BY ONLY <2>3, <3>1, <4>1
      <4> QED
        BY <3>2, <4>2
    <3>4. Cardinality(Of(u)) = Cardinality(Of(t)) - 1 /\ Cardinality(Of(t)) \in Nat
      <4> HIDE DEF Of, asked, u
      <4>1. \A y \in Of(t) : Cardinality(Of(t) \ {y}) = Cardinality(Of(t)) - 1
        BY ONLY <1>3, <2>3, Smaller
      <4>2. Cardinality(Of(t)) \in Nat
        BY ONLY <1>3, <2>3, Smaller
      <4> QED
        BY <3>1, <3>2, <4>1, <4>2
    <3>5. p[x].price \in Int
      BY <2>1 DEF Entry
    <3>6. h[t] = [mean |-> g[Of(u)] + p[x].price, num |-> Cardinality(Of(u)) + 1]
      BY <2>2, <2>5
    <3> HIDE DEF Of, asked
    <3> HIDE DEF u
    <3>7. /\ g[Of(t)] = g[Of(u)] + p[x].price
          /\ Cardinality(Of(t)) = Cardinality(Of(u)) + 1
      BY <2>4, <3>3, <3>4, <3>5
    <3>8. Good(t)
      BY <3>6, <3>7
    <3> HIDE DEF Good
    <3> QED
      BY <3>8
  <2>6. CASE ~Asked(p[x])
    <3>1. Of(t) = Of(u)
      BY <2>1, <2>6
    <3>2. h[t] = h[u]
      BY <2>2, <2>6
    <3> QED
      BY <2>2, <3>1, <3>2
  <2> QED
    BY <2>5, <2>6
<1>12. SUBSET D \subseteq Q
  <2> HIDE DEF Good, pick, D
  <2>1. Q \in SUBSET (SUBSET D)
    OBVIOUS
  <2> HIDE DEF Q
  <2>2. Grows(Q, pick, D)
    BY <1>10, <1>11 DEF Grows
  <2> QED
    BY <1>2, <1>4, <2>1, <2>2, SubsetInduction
<1>13. h[D] = [mean |-> g[asked], num |-> Cardinality(asked)]
  <2>1. Good(D)
    <3> HIDE DEF Good
    <3> QED
      BY <1>12
  <2> QED
    BY <1>9, <2>1
<1>14. g[asked] \in Int /\ Cardinality(asked) \in Nat
  BY <1>3, <1>5, FS_CardinalityType
<1>15. PricesQuery(a, from, to) = IF Cardinality(asked) = 0 THEN 0
                                 ELSE Quotient(g[asked], Cardinality(asked))
  <2>1. PricesQuery(a, from, to) =
          IF h[D].num = 0 THEN 0 ELSE Quotient(h[D].mean, h[D].num)
    BY <1>1 DEF PricesQuery
  <2> QED
    BY <1>13, <2>1
<1>16. Service!Mean(Range(p), from, to) =
         CASE Cardinality(asked) = 0 -> 0
           [] Cardinality(asked) > 0 /\ g[asked] >= 0 ->
                g[asked] \div Cardinality(asked)
           [] Cardinality(asked) > 0 /\ g[asked] < 0 ->
                -((-g[asked]) \div Cardinality(asked))
  <2>1. MapThenSumSet(LAMBDA e : e.price, asked) =
          Service!MapThenSumSet(LAMBDA e : e.price, asked)
    BY DEF MapThenSumSet, Service!MapThenSumSet, MapThenFoldSet,
           Service!MapThenFoldSet
  <2>2. Cardinality(asked) = Service!Cardinality(asked)
    BY DEF Cardinality, Service!Cardinality
  <2>3. Service!MapThenSumSet(LAMBDA e : e.price, asked) = g[asked]
    BY <1>5, <2>1
  <2> DEFINE sum == Service!MapThenSumSet(LAMBDA e : e.price, asked)
             n == Service!Cardinality(asked)
  <2>4. Service!Mean(Range(p), from, to) =
           CASE n = 0 -> 0
             [] n > 0 /\ sum >= 0 -> sum \div n
             [] n > 0 /\ sum < 0 -> -((-sum) \div n)
    BY DEF Service!Mean
  <2> HIDE DEF sum, n
  <2>5. sum = g[asked] /\ n = Cardinality(asked)
    BY <2>2, <2>3 DEF sum, n
  <2> HIDE DEF asked
  <2> QED
    BY <2>4, <2>5
<1> HIDE DEF asked
<1> QED
  BY <1>14, <1>15, <1>16 DEF Quotient

-----------------------------------------------------------------------------
(* The list.                                                               *)

LEMMA SessionNumbers ==
  ASSUME TypeOK
  PROVE  /\ sessions \subseteq Conns /\ sessions \in SUBSET Nat /\ None \notin sessions
         /\ \A u \in sessions : u \in Nat /\ u \in Conns /\ u # None
BY SocketsAssumption, MeansAssumption DEF SocketsAssumption, MeansAssumption, TypeOK

(* What the links of a session say, one way and the other.                 *)
LEMMA Neighbours ==
  ASSUME TypeOK, LinkInv, NEW s \in sessions
  PROVE  /\ next[s] # None => /\ next[s] \in sessions /\ s < next[s]
                              /\ \A u \in sessions : u <= s \/ next[s] <= u
         /\ next[s] = None => \A u \in sessions : u <= s
         /\ prev[s] # None => /\ prev[s] \in sessions /\ prev[s] < s
                              /\ \A u \in sessions : u <= prev[s] \/ s <= u
         /\ prev[s] = None => \A u \in sessions : s <= u
BY SessionNumbers DEF LinkInv, Adjacent

(* Along next one meets the greater sessions.                              *)
LEMMA ChainUp ==
  ASSUME TypeOK, LinkInv, NEW s \in sessions
  PROVE  Chain(next, s) = {t \in sessions : s <= t}
<1> DEFINE U == {t \in sessions : s <= t}
<1>a. /\ sessions \subseteq Conns /\ sessions \in SUBSET Nat /\ None \notin sessions
      /\ \A u \in sessions : u \in Nat /\ u \in Conns /\ u # None
  BY SessionNumbers
<1>1. U \in SUBSET Conns /\ s \in U
  <2>1. s \in Nat /\ s <= s
    BY <1>a
  <2> QED
    BY <1>a, <2>1
<1>2. ASSUME NEW u \in U PROVE next[u] \in U \union {None}
  <2>1. u \in sessions /\ u \in Nat /\ s \in Nat /\ s <= u
    BY <1>a
  <2>2. next[u] # None => next[u] \in sessions /\ u < next[u] /\ next[u] \in Nat
    BY <1>a, <2>1, Neighbours
  <2> QED
    BY <2>1, <2>2
<1>3. ASSUME NEW S \in SUBSET Conns, s \in S, \A u \in S : next[u] \in S \union {None}
      PROVE  U \subseteq S
  <2> SUFFICES ASSUME U \ S # {} PROVE FALSE
    OBVIOUS
  <2>1. U \ S \in SUBSET Nat
    BY <1>a
  <2>2. PICK m \in U \ S : \A x \in U \ S : m <= x
    BY <2>1, LeastNumber
  <2>3. m \in Nat /\ s \in Nat /\ s < m /\ m \in sessions
    BY <1>a, <1>3, <2>2
  <2> DEFINE p == prev[m]
  <2>4. p \in sessions /\ p < m /\ \A u \in sessions : u <= p \/ m <= u
    <3>1. prev[m] # None
      <4>1. ~(m <= s)
        BY <2>3
      <4> QED
        BY <2>3, <4>1, Neighbours
    <3> QED
      BY <2>3, <3>1, Neighbours
  <2> HIDE DEF p
  <2>5. p \in Nat /\ s <= p
    <3>1. ~(m <= s)
      BY <2>3
    <3> QED
      BY <1>a, <2>4, <3>1
  <2>6. p \in S
    <3>1. ~(m <= p)
      BY <2>3, <2>4, <2>5
    <3> QED
      BY <2>2, <2>4, <2>5, <3>1
  <2>7. next[p] # None
    <3>1. ~(m <= p)
      BY <2>3, <2>4, <2>5
    <3> QED
      BY <2>3, <2>4, <3>1, Neighbours
  <2> DEFINE n == next[p]
  <2>8. n \in sessions /\ p < n /\ \A u \in sessions : u <= p \/ n <= u
    BY <2>4, <2>7, Neighbours
  <2> HIDE DEF n
  <2>9. n = m
    <3>1. (n <= p \/ m <= n) /\ (m <= p \/ n <= m) /\ n \in Nat
      BY <1>a, <2>3, <2>4, <2>8
    <3> QED
      BY <2>3, <2>4, <2>5, <2>8, <3>1
  <2> QED
    BY <1>a, <1>3, <2>2, <2>3, <2>6, <2>9 DEF n
<1> QED
  BY <1>1, <1>2, <1>3 DEF Chain

(* Along prev one meets the smaller ones.                                  *)
LEMMA ChainDown ==
  ASSUME TypeOK, LinkInv, NEW s \in sessions
  PROVE  Chain(prev, s) = {t \in sessions : t <= s}
<1> DEFINE U == {t \in sessions : t <= s}
<1>a. /\ sessions \subseteq Conns /\ sessions \in SUBSET Nat /\ None \notin sessions
      /\ \A u \in sessions : u \in Nat /\ u \in Conns /\ u # None
  BY SessionNumbers
<1>1. U \in SUBSET Conns /\ s \in U
  <2>1. s \in Nat /\ s <= s
    BY <1>a
  <2> QED
    BY <1>a, <2>1
<1>2. ASSUME NEW u \in U PROVE prev[u] \in U \union {None}
  <2>1. u \in sessions /\ u \in Nat /\ s \in Nat /\ u <= s
    BY <1>a
  <2>2. prev[u] # None => prev[u] \in sessions /\ prev[u] < u /\ prev[u] \in Nat
    BY <1>a, <2>1, Neighbours
  <2> QED
    BY <2>1, <2>2
<1>3. ASSUME NEW S \in SUBSET Conns, s \in S, \A u \in S : prev[u] \in S \union {None}
      PROVE  U \subseteq S
  <2> SUFFICES ASSUME U \ S # {} PROVE FALSE
    OBVIOUS
  <2>1. U \ S \in SUBSET Nat /\ s \in Nat /\ \A x \in U \ S : x <= s
    BY <1>a
  <2>2. PICK m \in U \ S : \A x \in U \ S : x <= m
    BY <2>1, GreatestNumber
  <2>3. m \in Nat /\ s \in Nat /\ m < s /\ m \in sessions
    BY <1>a, <1>3, <2>2
  <2> DEFINE n == next[m]
  <2>4. n \in sessions /\ m < n /\ \A u \in sessions : u <= m \/ n <= u
    <3>1. next[m] # None
      <4>1. ~(s <= m)
        BY <2>3
      <4> QED
        BY <2>3, <4>1, Neighbours
    <3> QED
      BY <2>3, <3>1, Neighbours
  <2> HIDE DEF n
  <2>5. n \in Nat /\ n <= s
    <3>1. ~(s <= m)
      BY <2>3
    <3> QED
      BY <1>a, <2>4, <3>1
  <2>6. n \in S
    <3>1. ~(n <= m)
      BY <2>3, <2>4, <2>5
    <3> QED
      BY <2>2, <2>4, <2>5, <3>1
  <2>7. prev[n] # None
    <3>1. ~(n <= m)
      BY <2>3, <2>4, <2>5
    <3> QED
      BY <2>3, <2>4, <3>1, Neighbours
  <2> DEFINE p == prev[n]
  <2>8. p \in sessions /\ p < n /\ \A u \in sessions : u <= p \/ n <= u
    BY <2>4, <2>7, Neighbours
  <2> HIDE DEF p
  <2>9. p = m
    <3>1. (m <= p \/ n <= m) /\ (p <= m \/ n <= p) /\ p \in Nat
      BY <1>a, <2>3, <2>4, <2>8
    <3> QED
      BY <2>3, <2>4, <2>5, <2>8, <3>1
  <2> QED
    BY <1>a, <1>3, <2>2, <2>3, <2>6, <2>9 DEF p
<1> QED
  BY <1>1, <1>2, <1>3 DEF Chain

LEMMA FirstAndLast ==
  ASSUME TypeOK, LinkInv, NEW s \in sessions
  PROVE  /\ GetBeg(s) \in sessions /\ \A u \in sessions : GetBeg(s) <= u
         /\ GetEnd(s) \in sessions /\ \A u \in sessions : u <= GetEnd(s)
<1>a. /\ sessions \subseteq Conns /\ sessions \in SUBSET Nat /\ None \notin sessions
      /\ \A u \in sessions : u \in Nat /\ u \in Conns /\ u # None
  BY SessionNumbers
<1>1. PICK f \in sessions : \A u \in sessions : f <= u
  BY DEF LinkInv
<1>2. PICK l \in sessions : \A u \in sessions : u <= l
  BY DEF LinkInv
<1>3. f \in Chain(prev, s) /\ prev[f] = None
  <2>1. \A u \in sessions : ~(u < f)
    BY <1>a, <1>1
  <2> QED
    BY <1>1, <2>1, ChainDown, Neighbours
<1>4. l \in Chain(next, s) /\ next[l] = None
  <2>1. \A u \in sessions : ~(l < u)
    BY <1>a, <1>2
  <2> QED
    BY <1>2, <2>1, ChainUp, Neighbours
<1>5. GetBeg(s) \in Chain(prev, s) /\ prev[GetBeg(s)] = None
  BY <1>3 DEF GetBeg
<1>6. GetEnd(s) \in Chain(next, s) /\ next[GetEnd(s)] = None
  BY <1>4 DEF GetEnd
<1>7. GetBeg(s) \in sessions /\ GetEnd(s) \in sessions
  BY <1>5, <1>6, ChainDown, ChainUp
<1> QED
  BY <1>a, <1>5, <1>6, <1>7 DEF LinkInv

(* So the whole list is met from its beginning, wherever the cursor is.    *)
LEMMA AllFound ==
  ASSUME TypeOK, LinkInv, sessions # {}
  PROVE  ca \in sessions /\ Chain(next, GetBeg(ca)) = sessions
<1>1. ca \in sessions
  BY DEF LinkInv
<1>2. GetBeg(ca) \in sessions /\ \A u \in sessions : GetBeg(ca) <= u
  BY <1>1, FirstAndLast
<1>3. Chain(next, GetBeg(ca)) = {t \in sessions : GetBeg(ca) <= t}
  BY <1>2, ChainUp
<1> QED
  BY <1>1, <1>2, <1>3

(* clients_session_add keeps the order when the new session is the last.   *)
LEMMA AddLinks ==
  ASSUME TypeOK, LinkInv, NEW c \in Conns, Add(c), \A u \in sessions : u < c
  PROVE  LinkInv'
<1>a. /\ sessions \subseteq Conns /\ sessions \in SUBSET Nat /\ None \notin sessions
      /\ \A u \in sessions : u \in Nat /\ u \in Conns /\ u # None
      /\ c \in Nat /\ c # None /\ None \notin Conns
  BY SessionNumbers, SocketsAssumption, MeansAssumption
     DEF SocketsAssumption, MeansAssumption
<1>b. c \notin sessions /\ next[c] = None /\ prev[c] = None
  BY <1>a DEF LinkInv
<1>1. CASE ca = None
  <2>1. /\ sessions = {} /\ sessions' = {c} /\ ca' = c /\ UNCHANGED <<next, prev>>
    BY <1>1 DEF Add, LinkInv
  <2> QED
    BY <1>a, <1>b, <2>1 DEF LinkInv, Adjacent
<1>2. CASE ca # None
  <2> DEFINE e == GetEnd(ca)
  <2>1. e \in sessions /\ \A u \in sessions : u <= e
    BY <1>2, FirstAndLast DEF LinkInv
  <2>2. /\ sessions' = sessions \union {c} /\ ca' = e
        /\ next' = [next EXCEPT ![e] = c] /\ prev' = [prev EXCEPT ![c] = e]
    BY <1>2 DEF Add
  <2> HIDE DEF e
  <2>3. /\ next'[e] = c /\ prev'[c] = e
        /\ \A s \in Conns : s # e => next'[s] = next[s]
        /\ \A s \in Conns : s # c => prev'[s] = prev[s]
    BY <1>a, <2>1, <2>2 DEF TypeOK
  <2>4. ASSUME NEW s, NEW t, s \in sessions, t \in sessions, Adjacent(s, t)
        PROVE  Adjacent(s, t)'
    BY <1>a, <2>2, <2>4 DEF Adjacent
  <2>5. e < c /\ \A u \in sessions' : u <= e \/ c <= u
    BY <1>a, <2>1, <2>2
  <2>6. ASSUME NEW s \in sessions'
        PROVE  /\ \/ next'[s] \in sessions' /\ Adjacent(s, next[s])'
                  \/ next'[s] = None /\ \A u \in sessions' : u <= s
               /\ \/ prev'[s] \in sessions' /\ Adjacent(prev[s], s)'
                  \/ prev'[s] = None /\ \A u \in sessions' : s <= u
    <3>1. CASE s = c
      <4>1. next'[s] = None /\ \A u \in sessions' : u <= s
        BY <1>a, <1>b, <2>1, <2>2, <2>3, <3>1
      <4> QED
        BY <2>1, <2>2, <2>3, <2>5, <3>1, <4>1 DEF Adjacent
    <3>2. CASE s # c
      <4>1. s \in sessions
        BY <2>2, <3>2
      <4>2. \/ next'[s] \in sessions' /\ Adjacent(s, next[s])'
            \/ next'[s] = None /\ \A u \in sessions' : u <= s
        <5>1. CASE s = e
          BY <2>2, <2>3, <2>5, <5>1 DEF Adjacent
        <5>2. CASE s # e
          <6>1. next'[s] = next[s]
            BY <1>a, <2>3, <4>1, <5>2
          <6>2. next[s] \in sessions /\ Adjacent(s, next[s])
            BY <1>a, <2>1, <4>1, <5>2 DEF LinkInv
          <6> QED
            BY <2>2, <2>4, <4>1, <6>1, <6>2
        <5> QED
          BY <5>1, <5>2
      <4>3. \/ prev'[s] \in sessions' /\ Adjacent(prev[s], s)'
            \/ prev'[s] = None /\ \A u \in sessions' : s <= u
        <5>1. prev'[s] = prev[s]
          BY <1>a, <2>3, <3>2, <4>1
        <5>2. CASE prev[s] \in sessions /\ Adjacent(prev[s], s)
          BY <2>2, <2>4, <4>1, <5>1, <5>2
        <5>3. CASE prev[s] = None /\ \A u \in sessions : s <= u
          BY <1>a, <2>2, <4>1, <5>1, <5>3
        <5> QED
          BY <4>1, <5>2, <5>3 DEF LinkInv
      <4> QED
        BY <4>2, <4>3
    <3> QED
      BY <3>1, <3>2
  <2>7. /\ \E s \in sessions' : \A u \in sessions' : s <= u
        /\ \E s \in sessions' : \A u \in sessions' : u <= s
    <3>1. PICK f \in sessions : \A u \in sessions : f <= u
      BY <2>1 DEF LinkInv
    <3>2. \A u \in sessions' : f <= u
      BY <1>a, <2>2, <3>1
    <3>3. \A u \in sessions' : u <= c
      BY <1>a, <2>2
    <3> QED
      BY <2>2, <3>1, <3>2, <3>3
  <2>8. \A s \in Conns \ sessions' : next'[s] = None /\ prev'[s] = None
    BY <2>1, <2>2, <2>3 DEF LinkInv
  <2> QED
    BY <1>a, <2>1, <2>2, <2>6, <2>7, <2>8 DEF LinkInv
<1> QED
  BY <1>1, <1>2

(* clients_session_free links the neighbours of the session with each      *)
(* other, and leaves the cursor at one of them.                            *)
LEMMA FreeLinks ==
  ASSUME TypeOK, LinkInv, NEW c \in sessions, Free(c)
  PROVE  LinkInv'
<1>a. /\ sessions \subseteq Conns /\ None \notin sessions
      /\ \A u \in sessions : u \in Nat /\ u \in Conns /\ u # None
  BY SessionNumbers
<1> DEFINE p == prev[c]
           n == next[c]
<1>1. /\ p # None => p \in sessions /\ p < c /\ \A u \in sessions : u <= p \/ c <= u
      /\ p = None => \A u \in sessions : c <= u
      /\ n # None => n \in sessions /\ c < n /\ \A u \in sessions : u <= c \/ n <= u
      /\ n = None => \A u \in sessions : u <= c
  BY Neighbours
<1>2. /\ sessions' = sessions \ {c}
      /\ ca' = IF p # None THEN p ELSE n
  BY DEF Free
<1>b. /\ \A s \in Conns : s # c /\ s = p => next'[s] = n
      /\ \A s \in Conns : s # c /\ s # p => next'[s] = next[s]
      /\ \A s \in Conns : s # c /\ s = n => prev'[s] = p
      /\ \A s \in Conns : s # c /\ s # n => prev'[s] = prev[s]
      /\ next'[c] = None /\ prev'[c] = None
  <2>1. /\ next' = [s \in Conns |-> IF s = c THEN None
                                  ELSE IF s = p THEN n ELSE next[s]]
        /\ prev' = [s \in Conns |-> IF s = c THEN None
                                  ELSE IF s = n THEN p ELSE prev[s]]
    BY DEF Free
  <2>2. c \in Conns
    BY <1>a
  <2> HIDE DEF p, n
  <2> QED
    BY <2>1, <2>2
<1> HIDE DEF p, n
<1>3. ca' \in sessions' \union {None} /\ (ca' = None) = (sessions' = {})
  <2>1. CASE p # None
    BY <1>a, <1>1, <1>2, <2>1
  <2>2. CASE p = None /\ n # None
    BY <1>a, <1>1, <1>2, <2>2
  <2>3. CASE p = None /\ n = None
    <3>1. \A u \in sessions : u = c
      BY <1>a, <1>1, <2>3
    <3> QED
      BY <1>2, <2>3, <3>1
  <2> QED
    BY <2>1, <2>2, <2>3
<1>4. ASSUME NEW s \in sessions'
      PROVE  \/ next'[s] \in sessions' /\ Adjacent(s, next[s])'
             \/ next'[s] = None /\ \A u \in sessions' : u <= s
  <2>1. s \in sessions /\ s # c /\ s \in Nat /\ s \in Conns
    BY <1>a, <1>2
  <2>2. CASE s = p
    <3>1. next'[s] = n /\ p # None
      BY <1>a, <1>b, <2>1, <2>2
    <3>2. ASSUME n # None
          PROVE  n \in sessions' /\ p < n /\ \A u \in sessions' : u <= p \/ n <= u
      <4>1. n \in sessions /\ c < n /\ p < c /\ p < n /\ n # c
        <5>1. n \in sessions /\ c < n /\ p \in sessions /\ p < c
          BY <1>1, <3>1, <3>2
        <5> QED
          BY <1>a, <5>1
      <4>2. ASSUME NEW u \in sessions' PROVE u <= p \/ n <= u
        <5>1. u \in sessions /\ u # c /\ u \in Nat
          BY <1>a, <1>2
        <5>2. (u <= p \/ c <= u) /\ (u <= c \/ n <= u)
          BY <1>1, <3>1, <3>2, <5>1
        <5> QED
          BY <1>a, <5>1, <5>2
      <4> QED
        BY <1>2, <4>1, <4>2
    <3>3. ASSUME n = None PROVE \A u \in sessions' : u <= p
      <4> SUFFICES ASSUME NEW u \in sessions' PROVE u <= p
        OBVIOUS
      <4>1. u \in sessions /\ u # c /\ u \in Nat
        BY <1>a, <1>2
      <4>2. (u <= p \/ c <= u) /\ u <= c
        BY <1>1, <3>1, <3>3, <4>1
      <4> QED
        BY <1>a, <4>1, <4>2
    <3> QED
      BY <2>2, <3>1, <3>2, <3>3 DEF Adjacent
  <2>3. CASE s # p
    <3>1. next'[s] = next[s]
      BY <1>b, <2>1, <2>3
    <3>2. CASE next[s] = None
      BY <1>2, <2>1, <3>1, <3>2, Neighbours
    <3>3. CASE next[s] # None
      <4> DEFINE m == next[s]
      <4>1. m \in sessions /\ s < m /\ \A u \in sessions : u <= s \/ m <= u
        BY <2>1, <3>3, Neighbours
      <4> HIDE DEF m
      <4>2. m # c
        <5> SUFFICES ASSUME m = c PROVE FALSE
          OBVIOUS
        <5>1. s < c /\ c \in Nat /\ ~(c <= s)
          BY <1>a, <2>1, <4>1
        <5>2. p # None
          BY <1>1, <2>1, <5>1
        <5>3. p \in sessions /\ p \in Nat /\ p < c /\ s <= p
          BY <1>a, <1>1, <2>1, <5>1, <5>2
        <5>4. p <= s
          BY <4>1, <5>1, <5>3
        <5> QED
          BY <2>1, <2>3, <5>3, <5>4
      <4> QED
        BY <1>2, <3>1, <4>1, <4>2 DEF Adjacent, m
    <3> QED
      BY <3>2, <3>3
  <2> QED
    BY <2>2, <2>3
<1>5. ASSUME NEW s \in sessions'
      PROVE  \/ prev'[s] \in sessions' /\ Adjacent(prev[s], s)'
             \/ prev'[s] = None /\ \A u \in sessions' : s <= u
  <2>1. s \in sessions /\ s # c /\ s \in Nat /\ s \in Conns
    BY <1>a, <1>2
  <2>2. CASE s = n
    <3>1. prev'[s] = p /\ n # None
      BY <1>a, <1>b, <2>1, <2>2
    <3>2. ASSUME p # None
          PROVE  p \in sessions' /\ p < n /\ \A u \in sessions' : u <= p \/ n <= u
      <4>1. p \in sessions /\ c < n /\ p < c /\ p < n /\ p # c
        <5>1. n \in sessions /\ c < n /\ p \in sessions /\ p < c
          BY <1>1, <3>1, <3>2
        <5> QED
          BY <1>a, <5>1
      <4>2. ASSUME NEW u \in sessions' PROVE u <= p \/ n <= u
        <5>1. u \in sessions /\ u # c /\ u \in Nat
          BY <1>a, <1>2
        <5>2. (u <= p \/ c <= u) /\ (u <= c \/ n <= u)
          BY <1>1, <3>1, <3>2, <5>1
        <5> QED
          BY <1>a, <5>1, <5>2
      <4> QED
        BY <1>2, <4>1, <4>2
    <3>3. ASSUME p = None PROVE \A u \in sessions' : n <= u
      <4> SUFFICES ASSUME NEW u \in sessions' PROVE n <= u
        OBVIOUS
      <4>1. u \in sessions /\ u # c /\ u \in Nat
        BY <1>a, <1>2
      <4>2. (u <= c \/ n <= u) /\ c <= u
        BY <1>1, <3>1, <3>3, <4>1
      <4> QED
        BY <1>a, <4>1, <4>2
    <3> QED
      BY <2>2, <3>1, <3>2, <3>3 DEF Adjacent
  <2>3. CASE s # n
    <3>1. prev'[s] = prev[s]
      BY <1>b, <2>1, <2>3
    <3>2. CASE prev[s] = None
      BY <1>2, <2>1, <3>1, <3>2, Neighbours
    <3>3. CASE prev[s] # None
      <4> DEFINE m == prev[s]
      <4>1. m \in sessions /\ m < s /\ \A u \in sessions : u <= m \/ s <= u
        BY <2>1, <3>3, Neighbours
      <4> HIDE DEF m
      <4>2. m # c
        <5> SUFFICES ASSUME m = c PROVE FALSE
          OBVIOUS
        <5>1. c < s /\ c \in Nat /\ ~(s <= c)
          BY <1>a, <2>1, <4>1
        <5>2. n # None
          BY <1>1, <2>1, <5>1
        <5>3. n \in sessions /\ n \in Nat /\ c < n /\ n <= s
          BY <1>a, <1>1, <2>1, <5>1, <5>2
        <5>4. s <= n
          BY <4>1, <5>1, <5>3
        <5> QED
          BY <2>1, <2>3, <5>3, <5>4
      <4> QED
        BY <1>2, <3>1, <4>1, <4>2 DEF Adjacent, m
    <3> QED
      BY <3>2, <3>3
  <2> QED
    BY <2>2, <2>3
<1>6. ASSUME sessions' # {}
      PROVE  /\ \E s \in sessions' : \A u \in sessions' : s <= u
             /\ \E s \in sessions' : \A u \in sessions' : u <= s
  <2>1. p # None \/ n # None
    BY <1>2, <1>3, <1>6
  <2>2. \E s \in sessions' : \A u \in sessions' : s <= u
    <3>1. CASE p # None
      <4>1. PICK f \in sessions : \A u \in sessions : f <= u
        BY DEF LinkInv
      <4>2. f <= p /\ p < c /\ f # c
        BY <1>a, <1>1, <3>1, <4>1
      <4> QED
        BY <1>2, <4>1, <4>2
    <3>2. CASE p = None
      <4>1. n \in sessions' /\ n \in Nat
        BY <1>a, <1>1, <1>2, <2>1, <3>2
      <4>2. ASSUME NEW u \in sessions' PROVE n <= u
        <5>1. u \in sessions /\ u # c /\ u \in Nat /\ c <= u /\ (u <= c \/ n <= u)
          BY <1>a, <1>1, <1>2, <2>1, <3>2
        <5> QED
          BY <1>a, <5>1
      <4> QED
        BY <4>1, <4>2
    <3> QED
      BY <3>1, <3>2
  <2>3. \E s \in sessions' : \A u \in sessions' : u <= s
    <3>1. CASE n # None
      <4>1. PICK l \in sessions : \A u \in sessions : u <= l
        BY DEF LinkInv
      <4>2. n <= l /\ c < n /\ l # c
        BY <1>a, <1>1, <3>1, <4>1
      <4> QED
        BY <1>2, <4>1, <4>2
    <3>2. CASE n = None
      <4>1. p \in sessions' /\ p \in Nat
        BY <1>a, <1>1, <1>2, <2>1, <3>2
      <4>2. ASSUME NEW u \in sessions' PROVE u <= p
        <5>1. u \in sessions /\ u # c /\ u \in Nat /\ u <= c /\ (u <= p \/ c <= u)
          BY <1>a, <1>1, <1>2, <2>1, <3>2
        <5> QED
          BY <1>a, <5>1
      <4> QED
        BY <4>1, <4>2
    <3> QED
      BY <3>1, <3>2
  <2> QED
    BY <2>2, <2>3
<1>7. ASSUME NEW s \in Conns \ sessions' PROVE next'[s] = None /\ prev'[s] = None
  <2>1. CASE s = c
    BY <1>b, <2>1
  <2>2. CASE s # c
    <3>1. s \notin sessions /\ s \in Conns
      BY <1>2, <2>2
    <3>2. next[s] = None /\ prev[s] = None
      BY <3>1 DEF LinkInv
    <3>3. s # p /\ s # n
      <4>1. None \notin Conns
        BY MeansAssumption DEF MeansAssumption
      <4> QED
        BY <1>1, <3>1, <4>1
    <3> QED
      BY <1>b, <2>2, <3>1, <3>2, <3>3
  <2> QED
    BY <2>1, <2>2
<1> QED
  BY <1>3, <1>4, <1>5, <1>6, <1>7 DEF LinkInv

-----------------------------------------------------------------------------
(* Types, sockets and events.                                              *)

LEMMA NotifiedType ==
  ASSUME SocketsType, NEW fd
  PROVE  Notified(fd) \in Seq(Conns \union {Listener})
BY DEF SocketsType, Notified

LEMMA SocketsTypeStep ==
  ASSUME SocketsType, PlaceInv, OneSocket,
         \/ Start \/ Wait \/ Accept \/ Close \/ AcceptFails
         \/ \E c \in Conns :
              Connect(c) \/ \E how \in {"shut", "reset"} : HangUp(c, how)
  PROVE  SocketsType'
<1> USE SocketsAssumption DEF SocketsAssumption, SocketsType
<1>1. CASE Resolve
  BY <1>1 DEF Resolve, startVars, netVars
<1>2. CASE Socket
  <2>1. at' \in 1..(Addresses + 1) /\ sockets' \in 0..Addresses
    <3> HIDE DEF SocketsType
    <3>1. sockets = 0 /\ at \in 1..(Addresses + 1)
      BY <1>2 DEF SocketsType, Socket, OneSocket
    <3> QED
      BY <1>2, <3>1 DEF Socket, startVars
  <2> QED
    BY <1>2, <2>1 DEF Socket, netVars
<1>3. CASE Bind
  <2>1. at' \in 1..(Addresses + 1) /\ sockets' \in 0..Addresses
    <3> HIDE DEF SocketsType
    <3>1. sockets = 1 /\ at \in 1..(Addresses + 1) /\ at <= Addresses
      BY <1>3 DEF SocketsType, Bind, OneSocket
    <3> QED
      BY <1>3, <3>1 DEF Bind, startVars
  <2> QED
    BY <1>3, <2>1 DEF Bind, netVars
<1>4. CASE Listen
  BY <1>4 DEF Listen, netVars
<1>5. CASE Wait
  <2>1. /\ cur' \in Conns \union {Listener}
        /\ ready' \in Seq(Conns \union {Listener})
    <3>1. /\ Head(ready) \in Conns \union {Listener}
          /\ Tail(ready) \in Seq(Conns \union {Listener})
          /\ Append(Tail(ready), Head(ready)) \in Seq(Conns \union {Listener})
      BY <1>5 DEF Wait
    <3> QED
      BY <1>5, <3>1 DEF Wait
  <2> QED
    BY <1>5, <2>1 DEF Wait, startVars
<1>6. CASE Accept
  <2>1. /\ open' \subseteq Conns /\ backlog' \in Seq(Conns)
        /\ ready' \in Seq(Conns \union {Listener})
    <3>1. /\ Head(backlog) \in Conns /\ Tail(backlog) \in Seq(Conns)
          /\ Append(ready, Head(backlog)) \in Seq(Conns \union {Listener})
      BY <1>6 DEF Accept, PlaceInv
    <3> QED
      BY <1>6, <3>1 DEF Accept
  <2> QED
    BY <1>6, <2>1 DEF Accept, startVars
<1>7. CASE Close
  <2>1. ready' \in Seq(Conns \union {Listener})
    BY <1>7, RemoveAtRange DEF Close
  <2>2. cur \in Conns
    BY <1>7 DEF Close, PlaceInv
  <2>3. /\ cur' \in Conns \union {Listener} /\ open' \subseteq Conns
        /\ peer' \in [Conns -> {"none", "open", "shut", "reset", "gone"}]
       
    BY <1>7, <2>2 DEF Close, KeepCur
  <2> QED
    BY <1>7, <2>1, <2>3 DEF Close, startVars
<1>8. ASSUME NEW c \in Conns, Connect(c)
      PROVE  SocketsType'
  <2>1. /\ ready' \in Seq(Conns \union {Listener}) /\ backlog' \in Seq(Conns)
        /\ peer' \in [Conns -> {"none", "open", "shut", "reset", "gone"}]
    <3>1. Append(backlog, c) \in Seq(Conns)
      OBVIOUS
    <3>2. backlog' \in Seq(Conns) /\ ready' \in Seq(Conns \union {Listener})
      BY <1>8, <3>1, NotifiedType DEF Connect
    <3>3. peer' = [peer EXCEPT ![c] = "open"]
      BY <1>8 DEF Connect
    <3> QED
      BY <3>2, <3>3
  <2> QED
    BY <1>8, <2>1 DEF Connect, startVars
<1>9. ASSUME NEW c \in Conns, NEW how \in {"shut", "reset"}, HangUp(c, how)
      PROVE  SocketsType'
  <2>1. /\ ready' \in Seq(Conns \union {Listener})
        /\ peer' \in [Conns -> {"none", "open", "shut", "reset", "gone"}]
    BY <1>9, NotifiedType DEF HangUp
  <2> QED
    BY <1>9, <2>1 DEF HangUp, startVars
<1>10. CASE AcceptFails
  BY <1>10 DEF AcceptFails, startVars, netVars
<1> QED
  BY <1>1, <1>2, <1>3, <1>4, <1>5, <1>6, <1>7, <1>8, <1>9, <1>10 DEF Start

LEMMA TypeStep == MeansInv /\ [Next]_vars => TypeOK'
<1> SUFFICES ASSUME MeansInv, [Next]_vars PROVE TypeOK'
  OBVIOUS
<1>a. TypeOK /\ SocketsType /\ OneSocket /\ PlaceInv /\ SessionsInv /\ EventInv
  BY DEF MeansInv, TypeOK
<1>b. /\ cut \subseteq Conns /\ sent \in [Conns -> Nat]
  BY <1>a DEF TypeOK
<1>c. /\ {next, prev} \subseteq [Conns -> Conns \union {None}]
      /\ ca \in Conns \union {None} /\ sessions \subseteq Conns
  BY <1>a DEF TypeOK
<1>1. CASE SocketsType' /\ UNCHANGED <<listVars, sent, cut>>
  BY <1>b, <1>c, <1>1 DEF TypeOK, listVars
<1>2. CASE (Start \/ Wait \/ AcceptFails) /\ UNCHANGED meansVars
  BY <1>a, <1>1, <1>2, SocketsTypeStep DEF meansVars
<1>3. CASE AcceptAndAdd
  <2> DEFINE c == Head(backlog)
  <2>1. /\ SocketsType' /\ Add(c) /\ UNCHANGED <<sent, cut>> /\ c \in Conns
        /\ LinkInv
    <3>1. Accept /\ backlog # <<>> /\ backlog \in Seq(Conns) /\ LinkInv
      BY <1>a, <1>3 DEF AcceptAndAdd, Accept, PlaceInv, SessionsInv
    <3> QED
      BY <1>a, <1>3, <3>1, SocketsTypeStep DEF AcceptAndAdd
  <2> HIDE DEF c
  <2>2. CASE ca = None
    BY <1>b, <1>c, <2>1, <2>2 DEF Add, TypeOK
  <2>3. CASE ca # None
    <3>1. GetEnd(ca) \in Conns
      BY <1>a, <2>1, <2>3, FirstAndLast, SessionNumbers DEF LinkInv
    <3>2. /\ sessions' = sessions \union {c} /\ ca' = GetEnd(ca)
          /\ next' = [next EXCEPT ![GetEnd(ca)] = c]
          /\ prev' = [prev EXCEPT ![c] = GetEnd(ca)]
      BY <2>1, <2>3 DEF Add
    <3> QED
      BY <1>b, <1>c, <2>1, <3>1, <3>2 DEF TypeOK
  <2> QED
    BY <2>2, <2>3
<1>4. CASE Recv
  <2>1. /\ cur \in Conns /\ UNCHANGED <<startVars, ready, backlog, open, peer>>
        /\ res' \in {"again", "closed", "error"} /\ ca' = cur
        /\ cur' \in {cur, Listener} /\ UNCHANGED <<sessions, next, prev, sent, cut>>
    BY <1>a, <1>4 DEF Recv, Received, KeepCur, PlaceInv, SocketsType
  <2> QED
    BY <1>a, <1>b, <1>c, <2>1 DEF TypeOK, SocketsType, startVars
<1>5. CASE Parse
  <2>1. /\ UNCHANGED <<res, startVars, netVars, listVars, sent, cut>>
        /\ cur' \in {cur, Listener}
    BY <1>5 DEF Parse, KeepCur
  <2> QED
    BY <1>a, <1>1, <2>1 DEF SocketsType, startVars, netVars
<1>6. CASE Send
  <2>1. /\ UNCHANGED <<res, startVars, netVars, listVars, sent>>
        /\ cur' \in {cur, Listener} /\ cut' \in {cut, cut \union {cur}}
        /\ cur \in Conns
    BY <1>a, <1>6 DEF Send, KeepCur, PlaceInv
  <2> QED
    BY <1>a, <1>b, <1>c, <2>1 DEF TypeOK, SocketsType, startVars, netVars, listVars
<1>7. CASE RemoveAndClose
  <2>1. /\ SocketsType' /\ RemoveSession(cur) /\ UNCHANGED <<sent, cut>>
        /\ cur \in Conns /\ pc = "Close"
    BY <1>a, <1>7, SocketsTypeStep DEF RemoveAndClose, Close, PlaceInv
  <2>2. CASE Found(cur)
    <3>1. Free(cur)
      BY <2>1, <2>2 DEF RemoveSession
    <3>2. /\ next[cur] \in Conns \union {None} /\ prev[cur] \in Conns \union {None}
      BY <1>c, <2>1
    <3>3. /\ next' \in [Conns -> Conns \union {None}]
          /\ prev' \in [Conns -> Conns \union {None}]
      BY <1>c, <3>1, <3>2 DEF Free
    <3> QED
      BY <1>b, <1>c, <2>1, <3>1, <3>2, <3>3 DEF TypeOK, Free
  <2>3. CASE ~Found(cur)
    <3>1. /\ ca' = IF ca = None THEN None ELSE GetBeg(ca)
          /\ UNCHANGED <<sessions, next, prev>>
      BY <2>1, <2>3 DEF RemoveSession
    <3>2. ca # None => GetBeg(ca) \in Conns
      <4>1. LinkInv
        BY <1>a, <2>1 DEF SessionsInv
      <4> QED
        BY <1>a, <4>1, FirstAndLast, SessionNumbers DEF LinkInv
    <3> QED
      BY <1>b, <1>c, <2>1, <3>1, <3>2 DEF TypeOK
  <2> QED
    BY <2>2, <2>3
<1>8. CASE Timeout
  <2>1. /\ UNCHANGED <<cur, res, startVars, netVars, next, prev, sent, cut>>
        /\ ca' = None /\ sessions' \subseteq sessions
    BY <1>8 DEF Timeout, FreeAll
  <2> QED
    BY <1>a, <1>b, <1>c, <2>1 DEF TypeOK, SocketsType, startVars, netVars
<1>9. CASE KilledBySend
  BY <1>a, <1>1, <1>9 DEF KilledBySend, Killed, meansVars, SocketsType, startVars,
                          netVars
<1>10. ASSUME NEW c \in Conns, NEW m \in Messages, PeerSends(c, m)
       PROVE  TypeOK'
  <2>1. /\ UNCHANGED <<cur, res, startVars, backlog, open, peer, listVars, cut>>
        /\ ready' = Notified(c) /\ sent' = [sent EXCEPT ![c] = @ + 1]
    BY <1>10 DEF PeerSends, Deliver
  <2>2. ready' \in Seq(Conns \union {Listener})
    BY <1>a, <2>1, NotifiedType
  <2>3. SocketsType'
    BY <1>a, <2>1, <2>2 DEF SocketsType, startVars
  <2> QED
    BY <1>b, <1>c, <2>1, <2>3 DEF TypeOK, listVars
<1>11. ASSUME NEW c \in Conns, NEW how \in {"shut", "reset"},
              Connect(c) \/ HangUp(c, how), UNCHANGED meansVars
       PROVE  TypeOK'
  BY <1>a, <1>1, <1>11, SocketsTypeStep DEF meansVars
<1>12. CASE UNCHANGED vars
  BY <1>a, <1>1, <1>12 DEF vars, socketVars, meansVars, SocketsType, startVars,
                           netVars
<1> QED
  BY <1>2, <1>3, <1>4, <1>5, <1>6, <1>7, <1>8, <1>9, <1>10, <1>11, <1>12
     DEF Next, Server, Environment, Rest

LEMMA SocketStep == MeansInv /\ [Next]_vars => OneSocket'
<1> SUFFICES ASSUME MeansInv, [Next]_vars PROVE OneSocket'
  OBVIOUS
<1>a. OneSocket /\ TypeOK
  BY DEF MeansInv
<1> USE DEF OneSocket, Serving
<1>1. CASE Resolve
  BY <1>a, <1>1 DEF Resolve, startVars
<1>2. CASE Socket
  BY <1>a, <1>2 DEF Socket, startVars
<1>3. CASE Bind
  BY <1>a, <1>3 DEF Bind, startVars
<1>4. CASE Listen
  BY <1>a, <1>4 DEF Listen
<1>5. CASE Wait \/ AcceptAndAdd \/ RemoveAndClose
  BY <1>a, <1>5 DEF Wait, AcceptAndAdd, Accept, RemoveAndClose, Close, startVars
<1>6. CASE Recv
  BY <1>a, <1>6 DEF Recv, Received, Finish, startVars
<1>7. CASE Parse \/ Send
  <2>1. /\ UNCHANGED startVars /\ pc \in {"Parse", "Send"}
        /\ pc' \in {"Parse", "Send", "Close", "Wait"}
    BY <1>7 DEF Parse, Send, Finish
  <2> QED
    BY <1>a, <2>1 DEF startVars
<1>8. ASSUME NEW c \in Conns, NEW m \in Messages, PeerSends(c, m)
      PROVE  OneSocket'
  BY <1>a, <1>8 DEF PeerSends, Deliver, startVars
<1>9. ASSUME NEW c \in Conns, NEW how \in {"shut", "reset"},
             Connect(c) \/ HangUp(c, how)
      PROVE  OneSocket'
  BY <1>a, <1>9 DEF Connect, HangUp, startVars
<1>10. CASE AcceptFails \/ KilledBySend
  BY <1>a, <1>10 DEF AcceptFails, KilledBySend, Killed, startVars
<1>12. CASE Timeout
  BY <1>a, <1>12 DEF Timeout, startVars
<1>11. CASE UNCHANGED vars
  BY <1>a, <1>11 DEF vars, socketVars, startVars
<1> QED
  BY <1>1, <1>2, <1>3, <1>4, <1>5, <1>6, <1>7, <1>8, <1>9, <1>10, <1>11, <1>12
     DEF Next, Server, Start, Environment, Rest

LEMMA ConcatElements ==
  ASSUME NEW S, NEW s \in Seq(S), NEW t \in Seq(S)
  PROVE  /\ s \o t \in Seq(S) /\ Len(s \o t) = Len(s) + Len(t)
         /\ \A i \in 1..Len(s) : (s \o t)[i] = s[i]
         /\ \A i \in 1..Len(t) : (s \o t)[Len(s) + i] = t[i]
OBVIOUS

LEMMA TailKeeps ==
  ASSUME NEW S, NEW s \in Seq(S), s # <<>>
  PROVE  Range(s) \subseteq Range(Tail(s)) \union {Head(s)}
<1>1. /\ Head(s) = s[1] /\ DOMAIN s = 1..Len(s) /\ Len(s) \in Nat
      /\ DOMAIN Tail(s) = 1..(Len(s) - 1)
      /\ \A i \in 1..(Len(s) - 1) : Tail(s)[i] = s[i + 1]
  OBVIOUS
<1>2. ASSUME NEW i \in 1..Len(s)
      PROVE  s[i] = Head(s) \/ \E j \in DOMAIN Tail(s) : s[i] = Tail(s)[j]
  <2>1. CASE i = 1
    BY <1>1, <2>1
  <2>2. CASE i # 1
    <3>1. i - 1 \in DOMAIN Tail(s) /\ Tail(s)[i - 1] = s[i]
      BY <1>1, <2>2
    <3> QED
      BY <3>1
  <2> QED
    BY <2>1, <2>2
<1> QED
  BY <1>1, <1>2 DEF Range

LEMMA RemoveAtKeeps ==
  ASSUME NEW S, NEW s \in Seq(S), NEW i \in DOMAIN s
  PROVE  Range(s) \subseteq Range(RemoveAt(s, i)) \union {s[i]}
<1> DEFINE a == SubSeq(s, 1, i - 1)
           b == SubSeq(s, i + 1, Len(s))
<1>1. /\ i \in 1..Len(s) /\ Len(s) \in Nat /\ DOMAIN s = 1..Len(s)
      /\ a \in Seq(S) /\ Len(a) = i - 1 /\ \A j \in 1..(i - 1) : a[j] = s[j]
  OBVIOUS
<1>2. /\ b \in Seq(S) /\ Len(b) = Len(s) - i
      /\ \A j \in 1..(Len(s) - i) : b[j] = s[i + j]
  OBVIOUS
<1>3. RemoveAt(s, i) = a \o b
  BY DEF RemoveAt
<1> HIDE DEF a, b
<1>4. /\ Len(a \o b) = Len(a) + Len(b) /\ a \o b \in Seq(S)
      /\ \A j \in 1..Len(a) : (a \o b)[j] = a[j]
      /\ \A j \in 1..Len(b) : (a \o b)[Len(a) + j] = b[j]
  <2>1. a \in Seq(S) /\ b \in Seq(S)
    BY <1>1, <1>2
  <2> QED
    BY ONLY <2>1, ConcatElements
<1>5. DOMAIN (a \o b) = 1..(Len(s) - 1)
  <2>1. DOMAIN (a \o b) = 1..Len(a \o b)
    BY <1>4
  <2> QED
    BY <1>1, <1>2, <1>4, <2>1
<1>6. ASSUME NEW j \in 1..Len(s), j # i
      PROVE  \E k \in DOMAIN (a \o b) : (a \o b)[k] = s[j]
  <2>1. CASE j < i
    <3>1. j \in 1..(i - 1) /\ j \in 1..(Len(s) - 1)
      BY <1>1, <2>1
    <3> QED
      BY <1>1, <1>4, <1>5, <3>1
  <2>2. CASE j > i
    <3>1. /\ j - i \in 1..(Len(s) - i) /\ (i - 1) + (j - i) \in 1..(Len(s) - 1)
          /\ i + (j - i) = j
      BY <1>1, <2>2
    <3>2. (a \o b)[(i - 1) + (j - i)] = s[j]
      BY <1>1, <1>2, <1>4, <3>1
    <3> QED
      BY <1>5, <3>1, <3>2
  <2> QED
    BY <1>1, <1>6, <2>1, <2>2
<1> QED
  BY <1>1, <1>3, <1>6 DEF Range

LEMMA NotifiedKeeps ==
  ASSUME SocketsType, NEW fd \in Conns \union {Listener}
  PROVE  /\ Range(ready) \subseteq Range(Notified(fd))
         /\ fd \in open \union {Listener} => fd \in Range(Notified(fd))
<1>1. ready \in Seq(Conns \union {Listener})
  BY DEF SocketsType
<1>2. Range(Append(ready, fd)) = Range(ready) \union {fd}
  BY <1>1, AppendRange
<1> QED
  BY <1>2 DEF Notified

(* No event is lost, and none is added to the backlog, received or closed. *)
LEMMA EventFrame ==
  ASSUME EventInv, UNCHANGED <<backlog, open, peer, inbox>>,
         Range(ready) \subseteq Range(ready'),
         pc = "Recv" => pc' = "Recv" /\ cur' = cur
  PROVE  EventInv'
BY DEF EventInv

LEMMA EventStep == MeansInv /\ [Next]_vars => EventInv'
<1> SUFFICES ASSUME MeansInv, [Next]_vars PROVE EventInv'
  OBVIOUS
<1>a. EventInv /\ PlaceInv /\ SocketsType
  BY DEF MeansInv, TypeOK
<1>b. /\ ready \in Seq(Conns \union {Listener}) /\ backlog \in Seq(Conns)
      /\ peer \in [Conns -> {"none", "open", "shut", "reset", "gone"}]
      /\ inbox \in [Conns -> Seq(Half)] /\ Listener \notin Conns
  BY SocketsAssumption DEF MeansInv, PartsInv, TypeOK, SocketsType, SocketsAssumption
<1>1. CASE Start \/ AcceptFails \/ Timeout \/ Parse \/ Send \/ KilledBySend \/ UNCHANGED vars
  <2>1. /\ UNCHANGED <<ready, backlog, open, peer, inbox>>
        /\ pc = "Recv" => UNCHANGED <<pc, cur>>
    BY <1>1 DEF Start, Resolve, Socket, Bind, Listen, AcceptFails, Timeout,
                Parse, Send,
                KilledBySend, Killed, vars, socketVars, netVars
  <2> QED
    BY <1>a, <2>1, EventFrame
<1>2. CASE Wait
  <2> DEFINE fd == Head(ready)
  <2>1. /\ pc = "Wait" /\ ready # <<>> /\ UNCHANGED <<backlog, open, peer, inbox>>
        /\ \/ ~Readable(fd) /\ ready' = Tail(ready)
           \/ fd = Listener /\ ready' = Append(Tail(ready), fd)
           \/ fd # Listener /\ ready' = Tail(ready) /\ pc' = "Recv" /\ cur' = fd
    BY <1>2 DEF Wait
  <2>2. /\ Range(ready) \subseteq Range(Tail(ready)) \union {fd}
        /\ Tail(ready) \in Seq(Conns \union {Listener})
        /\ fd \in Conns \union {Listener}
    BY <1>b, <2>1, TailKeeps
  <2>3. Range(Append(Tail(ready), fd)) = Range(Tail(ready)) \union {fd}
    <3> HIDE DEF fd
    <3>1. ASSUME NEW S, NEW t \in Seq(S), NEW e \in S
          PROVE  Range(Append(t, e)) = Range(t) \union {e}
      BY AppendRange
    <3>2. PICK S, t : S = Conns \union {Listener} /\ t = Tail(ready)
      OBVIOUS
    <3>3. t \in Seq(S) /\ fd \in S
      BY <2>2, <3>2
    <3>4. Range(Append(t, fd)) = Range(t) \union {fd}
      BY <3>1, <3>3
    <3> QED
      BY <3>2, <3>4
  <2>4. ~Readable(fd) => /\ fd = Listener => backlog = <<>>
                         /\ fd # Listener => inbox[fd] = <<>>
    BY DEF Readable
  <2> HIDE DEF fd
  <2> QED
    BY <1>a, <1>b, <2>1, <2>2, <2>3, <2>4 DEF EventInv
<1>3. CASE AcceptAndAdd
  <2> DEFINE c == Head(backlog)
  <2>1. /\ pc = "Accept" /\ backlog # <<>> /\ UNCHANGED <<peer, inbox>>
        /\ open' = open \union {c} /\ backlog' = Tail(backlog)
        /\ ready' = IF Readable(c) THEN Append(ready, c) ELSE ready
    BY <1>a, <1>3 DEF AcceptAndAdd, Accept, PlaceInv
  <2>2. c \in Conns /\ Range(backlog) \subseteq Range(backlog') \union {c}
    BY <1>b, <2>1, TailKeeps
  <2> HIDE DEF c
  <2>3. Range(Append(ready, c)) = Range(ready) \union {c}
    BY <1>b, <2>2, AppendRange, SMTT(30)
  <2>4. inbox[c] # <<>> => Readable(c)
    BY <1>b, <2>2 DEF Readable
  <2> QED
    BY <1>a, <2>1, <2>2, <2>3, <2>4 DEF EventInv
<1>4. CASE RemoveAndClose
  <2>1. /\ cur \in Conns /\ open' = open \ {cur} /\ backlog' = backlog
        /\ peer' = [peer EXCEPT ![cur] = "gone"]
        /\ inbox' = [inbox EXCEPT ![cur] = <<>>] /\ pc = "Close"
    BY <1>a, <1>4 DEF RemoveAndClose, Close, PlaceInv
  <2>2. Range(ready) \subseteq Range(ready') \union {cur}
    BY <1>b, <1>4, RemoveAtKeeps DEF RemoveAndClose, Close
  <2>3. \A d \in Conns : d # cur => peer'[d] = peer[d] /\ inbox'[d] = inbox[d]
    BY <1>b, <2>1
  <2>4. peer'[cur] = "gone"
    BY <1>b, <2>1
  <2> QED
    BY <1>a, <1>b, <2>1, <2>2, <2>3, <2>4 DEF EventInv
<1>5. CASE Recv
  <2>1. /\ UNCHANGED <<backlog, open, peer, ready>> /\ cur \in Conns
        /\ inbox' = [inbox EXCEPT ![cur] = <<>>]
    BY <1>a, <1>5 DEF Recv, Received, PlaceInv
  <2> QED
    BY <1>a, <1>b, <2>1 DEF EventInv
<1>6. ASSUME NEW c \in Conns, NEW m \in Messages, PeerSends(c, m)
      PROVE  EventInv'
  <2>1. /\ UNCHANGED <<pc, cur, backlog, open, peer>> /\ ready' = Notified(c)
        /\ \A d \in Conns : d # c => inbox'[d] = inbox[d]
    BY <1>b, <1>6 DEF PeerSends, Deliver
  <2>2. Range(ready) \subseteq Range(ready') /\ (c \in open => c \in Range(ready'))
    BY <1>a, <2>1, NotifiedKeeps
  <2> QED
    BY <1>a, <2>1, <2>2 DEF EventInv
<1>7. ASSUME NEW c \in Conns, Connect(c) PROVE EventInv'
  <2>1. /\ UNCHANGED <<pc, cur, open, inbox>> /\ ready' = Notified(Listener)
        /\ peer' = [peer EXCEPT ![c] = "open"] /\ backlog' = Append(backlog, c)
    BY <1>7 DEF Connect
  <2>2. Range(ready) \subseteq Range(ready') /\ Listener \in Range(ready')
    BY <1>a, <2>1, NotifiedKeeps
  <2>3. Range(backlog') = Range(backlog) \union {c}
    BY <1>b, <2>1, AppendRange
  <2> QED
    BY <1>a, <1>b, <2>1, <2>2, <2>3 DEF EventInv
<1>8. ASSUME NEW c \in Conns, NEW how \in {"shut", "reset"}, HangUp(c, how)
      PROVE  EventInv'
  <2>1. /\ UNCHANGED <<pc, cur, backlog, open, inbox>> /\ ready' = Notified(c)
        /\ peer' = [peer EXCEPT ![c] = how] /\ peer[c] \in {"open", "shut"}
    BY <1>8 DEF HangUp
  <2>2. Range(ready) \subseteq Range(ready')
    BY <1>a, <2>1, NotifiedKeeps
  <2> QED
    BY <1>a, <1>b, <2>1, <2>2 DEF EventInv
<1> QED
  BY <1>1, <1>2, <1>3, <1>4, <1>5, <1>6, <1>7, <1>8
     DEF Next, Server, Environment, Rest

-----------------------------------------------------------------------------
(* The order of connections.                                               *)

LEMMA OrderStep == MeansInv /\ [Next]_vars => OrderInv'
<1> SUFFICES ASSUME MeansInv, [Next]_vars PROVE OrderInv'
  OBVIOUS
<1>a. OrderInv /\ PlaceInv /\ SocketsType
  BY DEF MeansInv, TypeOK
<1>b. /\ backlog \in Seq(Conns) /\ open \subseteq Conns /\ Conns \subseteq Nat
      /\ peer \in [Conns -> {"none", "open", "shut", "reset", "gone"}]
  BY <1>a, SocketsAssumption DEF SocketsType, SocketsAssumption
<1>1. CASE UNCHANGED <<backlog, open, peer>>
  BY <1>a, <1>1 DEF OrderInv
<1>2. CASE Start \/ Wait \/ Recv \/ Parse \/ Send \/ AcceptFails \/ Timeout
           \/ KilledBySend \/ UNCHANGED vars
  <2>1. UNCHANGED <<backlog, open, peer>>
    BY <1>2 DEF Start, Resolve, Socket, Bind, Listen, Wait, Recv, Received, Parse,
                Send, AcceptFails, Timeout, KilledBySend, Killed, vars, socketVars,
                netVars
  <2> QED
    BY <1>1, <2>1
<1>3. CASE AcceptAndAdd
  <2> DEFINE c == Head(backlog)
  <2>1. /\ backlog # <<>> /\ open' = open \union {c} /\ backlog' = Tail(backlog)
        /\ peer' = peer
    BY <1>a, <1>3 DEF AcceptAndAdd, Accept, PlaceInv
  <2>2. /\ c = backlog[1] /\ 1 \in DOMAIN backlog /\ c \in Range(backlog)
        /\ DOMAIN backlog \subseteq Nat \ {0}
        /\ \A i \in DOMAIN Tail(backlog) : /\ i + 1 \in DOMAIN backlog /\ 1 < i + 1
                                          /\ Tail(backlog)[i] = backlog[i + 1]
                                          /\ i \in Nat
        /\ Range(Tail(backlog)) \subseteq Range(backlog)
    BY <1>b, <2>1, TailRange
  <2> HIDE DEF c
  <2>3. \A i, j \in DOMAIN backlog' : i < j => backlog'[i] < backlog'[j]
    <3> SUFFICES ASSUME NEW i \in DOMAIN backlog', NEW j \in DOMAIN backlog', i < j
                 PROVE  backlog'[i] < backlog'[j]
      OBVIOUS
    <3>1. i + 1 < j + 1
      BY <2>1, <2>2
    <3> QED
      BY <1>a, <2>1, <2>2, <3>1 DEF OrderInv
  <2>4. \A i \in DOMAIN backlog' : c < backlog'[i]
    BY <1>a, <2>1, <2>2 DEF OrderInv
  <2>5. \A d \in open : \A i \in DOMAIN backlog' : d < backlog'[i]
    BY <1>a, <2>1, <2>2 DEF OrderInv
  <2> QED
    BY <1>a, <2>1, <2>2, <2>3, <2>4, <2>5 DEF OrderInv
<1>4. CASE RemoveAndClose
  <2>1. /\ open' = open \ {cur} /\ peer' = [peer EXCEPT ![cur] = "gone"]
        /\ backlog' = backlog /\ cur \in Conns \ Range(backlog)
        /\ peer[cur] # "none"
    BY <1>a, <1>4 DEF RemoveAndClose, Close, PlaceInv
  <2>2. /\ \A d \in Conns : peer'[d] = "none" <=> peer[d] = "none"
        /\ \A d \in Conns : d # cur => peer'[d] = peer[d]
    BY <1>b, <2>1
  <2>3. Range(backlog) \subseteq Conns
    BY <1>b DEF Range
  <2> QED
    BY <1>a, <1>b, <2>1, <2>2, <2>3 DEF OrderInv
<1>5. ASSUME NEW c \in Conns, NEW m \in Messages, PeerSends(c, m)
      PROVE  OrderInv'
  BY <1>1, <1>5 DEF PeerSends, Deliver
<1>6. ASSUME NEW c \in Conns, Connect(c) PROVE OrderInv'
  <2>1. /\ peer[c] = "none" /\ \A d \in Conns : d < c => peer[d] # "none"
        /\ peer' = [peer EXCEPT ![c] = "open"] /\ open' = open
        /\ backlog' = Append(backlog, c)
    BY <1>6 DEF Connect
  <2>2. /\ peer'[c] = "open" /\ \A d \in Conns : d # c => peer'[d] = peer[d]
    BY <1>b, <2>1
  <2>3. /\ DOMAIN backlog' = DOMAIN backlog \union {Len(backlog) + 1}
        /\ \A i \in DOMAIN backlog : backlog'[i] = backlog[i] /\ backlog[i] \in Conns
                                   /\ i \in Nat /\ i < Len(backlog) + 1
        /\ backlog'[Len(backlog) + 1] = c /\ Len(backlog) + 1 \in Nat
    BY <1>b, <2>1
  <2>4. \A d \in open \union Range(backlog) : peer[d] # "none" /\ d \in Conns
    BY <1>a, <1>b DEF PlaceInv, Range
  <2>5. \A d \in open \union Range(backlog) : d < c
    BY <1>a, <2>1, <2>4 DEF OrderInv
  <2>6. \A i \in DOMAIN backlog : backlog[i] < c
    BY <2>5 DEF Range
  <2>7. \A i, j \in DOMAIN backlog' : i < j => backlog'[i] < backlog'[j]
    BY <1>a, <2>3, <2>6 DEF OrderInv
  <2>8. \A d \in open' : \A i \in DOMAIN backlog' : d < backlog'[i]
    BY <1>a, <2>1, <2>3, <2>5 DEF OrderInv
  <2>9. \A d, e \in Conns : peer'[d] # "none" /\ peer'[e] = "none" => d < e
    <3> SUFFICES ASSUME NEW d \in Conns, NEW e \in Conns,
                        peer'[d] # "none", peer'[e] = "none"
                 PROVE  d < e
      OBVIOUS
    <3>1. e # c /\ peer[e] = "none"
      BY <2>2
    <3>2. CASE d = c
      <4>1. ~(e < c) /\ e \in Nat /\ c \in Nat
        BY <1>b, <2>1, <3>1
      <4> QED
        BY <3>1, <3>2, <4>1
    <3>3. CASE d # c
      BY <1>a, <2>2, <3>1, <3>3 DEF OrderInv
    <3> QED
      BY <3>2, <3>3
  <2>10. \A d \in open' \union Range(backlog') : peer'[d] # "gone"
    <3>1. Range(backlog') = Range(backlog) \union {c}
      BY <1>b, <2>1, AppendRange
    <3> QED
      BY <1>a, <2>1, <2>2, <2>4, <3>1 DEF OrderInv
  <2> QED
    BY <2>7, <2>8, <2>9, <2>10 DEF OrderInv
<1>7. ASSUME NEW c \in Conns, NEW how \in {"shut", "reset"}, HangUp(c, how)
      PROVE  OrderInv'
  <2>1. /\ UNCHANGED <<backlog, open>> /\ peer' = [peer EXCEPT ![c] = how]
        /\ peer[c] # "none"
    BY <1>7 DEF HangUp
  <2>2. \A d \in Conns : /\ peer'[d] = "none" <=> peer[d] = "none"
                         /\ peer'[d] = "gone" => peer[d] = "gone"
    BY <1>b, <2>1
  <2>3. Range(backlog) \subseteq Conns
    BY <1>b DEF Range
  <2> QED
    BY <1>a, <1>b, <2>1, <2>2, <2>3 DEF OrderInv
<1> QED
  BY <1>2, <1>3, <1>4, <1>5, <1>6, <1>7 DEF Next, Server, Environment, Rest

(* The list is in that order: a session that is added is the last, and one *)
(* whose connection is closed is found.                                    *)
LEMMA SessionsStep == MeansInv /\ [Next]_vars => SessionsInv'
<1> SUFFICES ASSUME MeansInv, [Next]_vars PROVE SessionsInv'
  OBVIOUS
<1>a. SessionsInv /\ OrderInv /\ PlaceInv /\ EventInv /\ TypeOK
  BY DEF MeansInv
<1>b. /\ backlog \in Seq(Conns) /\ open \subseteq Conns /\ Conns \subseteq Nat
      /\ peer \in [Conns -> {"none", "open", "shut", "reset", "gone"}]
  BY <1>a, SocketsAssumption DEF TypeOK, SocketsType, SocketsAssumption
<1>c. LinkInv /\ UNCHANGED listVars => LinkInv'
  BY DEF LinkInv, Adjacent, listVars
<1>d. pc \in {"Recv", "Close"} => cur \in open
  BY <1>a, <1>b DEF PlaceInv, EventInv
<1>1. CASE UNCHANGED <<open, listVars>> /\ pc' # "Done"
           /\ (pc \in {"Exit", "Done"} => pc' \in {"Exit", "Done"})
  BY <1>a, <1>c, <1>1 DEF SessionsInv, listVars
<1>2. CASE (Start \/ Wait) /\ UNCHANGED meansVars
  BY <1>1, <1>2 DEF Start, Resolve, Socket, Bind, Listen, Wait, netVars, meansVars
<1>3. CASE AcceptAndAdd
  <2> DEFINE c == Head(backlog)
  <2>1. /\ pc = "Accept" /\ pc' = "Wait" /\ backlog # <<>>
        /\ open' = open \union {c} /\ Add(c)
    BY <1>a, <1>3 DEF AcceptAndAdd, Accept, PlaceInv
  <2>2. c = backlog[1] /\ 1 \in DOMAIN backlog /\ c \in Conns
    BY <1>b, <2>1
  <2> HIDE DEF c
  <2>3. sessions = open /\ LinkInv
    BY <1>a, <2>1 DEF SessionsInv
  <2>4. \A u \in sessions : u < c
    BY <1>a, <2>2, <2>3 DEF OrderInv
  <2>5. LinkInv' /\ sessions' = sessions \union {c}
    BY <1>a, <2>1, <2>2, <2>3, <2>4, AddLinks DEF Add
  <2> QED
    BY <2>1, <2>3, <2>5 DEF SessionsInv
<1>4. CASE Recv
  <2>1. /\ pc = "Recv" /\ pc' \in {"Wait", "Parse", "Close"} /\ ca' = cur
        /\ UNCHANGED <<open, sessions, next, prev>>
    BY <1>4 DEF Recv, Received, Finish
  <2>2. sessions = open /\ LinkInv /\ cur \in sessions
    BY <1>a, <1>d, <2>1 DEF SessionsInv
  <2>3. LinkInv'
    <3>1. None \notin sessions
      BY <1>a, SessionNumbers
    <3> QED
      BY <2>1, <2>2, <3>1 DEF LinkInv, Adjacent
  <2> QED
    BY <2>1, <2>2, <2>3 DEF SessionsInv
<1>5. CASE Parse \/ Send
  <2>1. /\ UNCHANGED <<open, listVars>> /\ pc \in {"Parse", "Send"}
        /\ pc' \in {"Parse", "Send", "Close", "Wait"}
    BY <1>5 DEF Parse, Send, Finish, netVars
  <2> QED
    BY <1>1, <2>1
<1>6. CASE RemoveAndClose
  <2>1. /\ pc = "Close" /\ pc' = "Wait" /\ open' = open \ {cur} /\ RemoveSession(cur)
    BY <1>6 DEF RemoveAndClose, Close
  <2>2. sessions = open /\ LinkInv /\ cur \in sessions
    BY <1>a, <1>d, <2>1 DEF SessionsInv
  <2>3. Found(cur)
    <3>1. None \notin sessions
      BY <1>a, SessionNumbers
    <3> QED
      BY <1>a, <2>2, <3>1, AllFound DEF Found
  <2>4. Free(cur)
    BY <2>1, <2>3 DEF RemoveSession
  <2>5. LinkInv' /\ sessions' = sessions \ {cur}
    BY <1>a, <2>2, <2>4, FreeLinks DEF Free
  <2> QED
    BY <2>1, <2>2, <2>5 DEF SessionsInv
<1>7. CASE (AcceptFails /\ UNCHANGED meansVars) \/ KilledBySend
  BY <1>1, <1>7 DEF AcceptFails, KilledBySend, Killed, netVars, meansVars
<1>8. CASE Timeout
  <2>1. pc = "Wait" /\ pc' = "Done" /\ FreeAll
    BY <1>8 DEF Timeout
  <2>2. LinkInv
    BY <1>a, <2>1 DEF SessionsInv
  <2>3. CASE ca = None
    BY <2>1, <2>2, <2>3 DEF SessionsInv, FreeAll, LinkInv
  <2>4. CASE ca # None
    <3>1. Chain(next, GetBeg(ca)) = sessions
      BY <1>a, <2>2, <2>4, AllFound DEF LinkInv
    <3>2. sessions' = sessions \ Chain(next, GetBeg(ca))
      BY <2>1, <2>4 DEF FreeAll
    <3> QED
      BY <2>1, <3>1, <3>2 DEF SessionsInv
  <2> QED
    BY <2>3, <2>4
<1>9. ASSUME NEW c \in Conns, NEW m \in Messages, PeerSends(c, m)
      PROVE  SessionsInv'
  <2>1. UNCHANGED <<pc, open, listVars>> /\ pc # "Done"
    BY <1>9 DEF PeerSends, Deliver, Serving
  <2> QED
    BY <1>1, <2>1
<1>10. ASSUME NEW c \in Conns, NEW how \in {"shut", "reset"},
              Connect(c) \/ HangUp(c, how), UNCHANGED meansVars
       PROVE  SessionsInv'
  <2>1. UNCHANGED <<pc, open, listVars>> /\ pc # "Done"
    BY <1>10 DEF Connect, HangUp, Serving, meansVars
  <2> QED
    BY <1>1, <2>1
<1>11. CASE UNCHANGED vars
  <2>1. UNCHANGED <<pc, open, listVars>>
    BY <1>11 DEF vars, socketVars, netVars, meansVars
  <2> QED
    BY <1>a, <1>c, <2>1 DEF SessionsInv, listVars
<1> QED
  BY <1>2, <1>3, <1>4, <1>5, <1>6, <1>7, <1>8, <1>9, <1>10, <1>11
     DEF Next, Server, Environment, Rest

LEMMA OddStep == MeansInv /\ [Next]_vars => OddInv'
<1> SUFFICES ASSUME MeansInv, [Next]_vars PROVE OddInv'
  OBVIOUS
<1>a. OddInv /\ PlaceInv /\ SocketsType /\ PartsInv
  BY DEF MeansInv, TypeOK
<1>b. /\ peer \in [Conns -> {"none", "open", "shut", "reset", "gone"}]
      /\ recv_qu \in [Conns -> Seq(Half)] /\ inbox \in [Conns -> Seq(Half)]
  BY <1>a DEF SocketsType, PartsInv
<1>1. CASE /\ UNCHANGED recv_qu /\ (pc = "Close" => pc' = "Close" /\ cur' = cur)
           /\ \A c \in Conns : peer[c] = "gone" => peer'[c] = "gone"
  BY <1>a, <1>1 DEF OddInv
<1>2. CASE ((Start \/ Wait \/ AcceptFails) /\ UNCHANGED meansVars) \/ Parse \/ Send
           \/ Timeout \/ KilledBySend \/ UNCHANGED vars
  <2>1. UNCHANGED <<recv_qu, peer>> /\ (pc = "Close" => UNCHANGED <<pc, cur>>)
    BY <1>2 DEF Start, Resolve, Socket, Bind, Listen, Wait, Parse, Send,
                AcceptFails, Timeout, KilledBySend, Killed, vars, socketVars,
                netVars, meansVars
  <2> QED
    BY <1>1, <2>1
<1>3. CASE AcceptAndAdd
  <2>1. /\ recv_qu' = [recv_qu EXCEPT ![Head(backlog)] = <<>>] /\ peer' = peer
        /\ pc = "Accept"
    BY <1>3 DEF AcceptAndAdd, Accept, Add, SessionInit
  <2> QED
    BY <1>a, <1>b, <2>1 DEF OddInv
<1>4. CASE Recv
  <2> DEFINE qu == recv_qu[cur] \o inbox[cur]
             pop == res' # "error" /\ Complete(qu)
  <2>1. /\ pc = "Recv" /\ peer' = peer /\ cur \in Conns
        /\ recv_qu' = [recv_qu EXCEPT ![cur] = IF pop THEN <<>> ELSE qu]
        /\ pc' = IF pop THEN "Parse" ELSE Finish(res')
        /\ pc' # "Wait" => cur' = cur
    BY <1>a, <1>4 DEF Recv, Received, KeepCur, PlaceInv
  <2>2. qu \in Seq(Half) /\ Len(qu) \in Nat
    <3>1. recv_qu[cur] \in Seq(Half) /\ inbox[cur] \in Seq(Half)
      BY <1>b, <2>1
    <3> HIDE DEF qu
    <3>2. PICK a \in Seq(Half), b \in Seq(Half) : qu = a \o b
      BY <3>1 DEF qu
    <3>3. a \o b \in Seq(Half) /\ Len(a \o b) \in Nat
      BY ONLY a \in Seq(Half), b \in Seq(Half), SMT
    <3> QED
      BY ONLY <3>2, <3>3
  <2>3. ~pop => qu = <<>> \/ Len(qu) % 2 = 1 \/ pc' = "Close"
    <3>1. res' = "error" => Finish(res') = "Close"
      BY DEF Finish
    <3>2. PICK n \in Nat : n = Len(qu)
      BY ONLY <2>2
    <3>3. n % 2 = 0 \/ n % 2 = 1
      BY ONLY n \in Nat
    <3> QED
      BY <2>1, <3>1, <3>2, <3>3 DEF Complete
  <2> HIDE DEF qu, pop
  <2>4. ASSUME NEW d \in Conns
        PROVE  \/ recv_qu'[d] = <<>> \/ Len(recv_qu'[d]) % 2 = 1
               \/ peer'[d] = "gone" \/ (pc' = "Close" /\ cur' = d)
    <3>1. CASE d = cur
      <4>1. recv_qu'[d] = IF pop THEN <<>> ELSE qu
        BY <1>b, <2>1, <3>1
      <4>2. pc' = "Close" => cur' = d
        BY <2>1, <3>1
      <4> QED
        BY <2>3, <4>1, <4>2
    <3>2. CASE d # cur
      BY <1>a, <1>b, <2>1, <3>2 DEF OddInv
    <3> QED
      BY <3>1, <3>2
  <2> QED
    BY <2>4 DEF OddInv
<1>5. CASE RemoveAndClose
  <2>1. /\ cur \in Conns /\ peer' = [peer EXCEPT ![cur] = "gone"]
        /\ recv_qu' = recv_qu
    BY <1>a, <1>5 DEF RemoveAndClose, Close, PlaceInv
  <2>2. peer'[cur] = "gone" /\ \A d \in Conns : d # cur => peer'[d] = peer[d]
    BY <1>b, <2>1
  <2> QED
    BY <1>a, <2>1, <2>2 DEF OddInv
<1>6. ASSUME NEW c \in Conns, NEW m \in Messages, PeerSends(c, m)
      PROVE  OddInv'
  BY <1>1, <1>6 DEF PeerSends, Deliver
<1>7. ASSUME NEW c \in Conns, NEW how \in {"shut", "reset"},
             Connect(c) \/ HangUp(c, how), UNCHANGED meansVars
      PROVE  OddInv'
  <2>1. /\ UNCHANGED <<recv_qu, pc, cur>> /\ peer[c] # "gone"
        /\ \A d \in Conns : d # c => peer'[d] = peer[d]
    BY <1>b, <1>7 DEF Connect, HangUp, meansVars
  <2> QED
    BY <1>1, <2>1
<1> QED
  BY <1>2, <1>3, <1>4, <1>5, <1>6, <1>7 DEF Next, Server, Environment, Rest

-----------------------------------------------------------------------------
(* Answers are of the session at the cursor, by a list without duplicates. *)

(* A price for a time that has none yet.                                   *)
LEMMA PushKeepsOne ==
  ASSUME NEW a \in [prices : Seq(Entry), capacity : Nat], NEW e \in Entry,
         ~Duplicate(a, e.timestamp),
         \A i, j \in DOMAIN a.prices :
           a.prices[i].timestamp = a.prices[j].timestamp => i = j
  PROVE  /\ Range(Push(a, e).prices) = Range(a.prices) \union {e}
         /\ \A i, j \in DOMAIN Push(a, e).prices :
              Push(a, e).prices[i].timestamp = Push(a, e).prices[j].timestamp
                => i = j
<1> DEFINE p == a.prices
           q == Append(p, e)
<1>1. Push(a, e).prices = q
  BY DEF Push
<1>2. p \in Seq(Entry) /\ Range(q) = Range(p) \union {e}
  BY AppendRange
<1>3. /\ Len(p) \in Nat /\ DOMAIN p = 1..Len(p) /\ DOMAIN q = 1..(Len(p) + 1)
      /\ q[Len(p) + 1] = e /\ \A i \in 1..Len(p) : q[i] = p[i]
  BY <1>2
<1> HIDE DEF q
<1>4. ASSUME NEW i \in DOMAIN q, NEW j \in DOMAIN q,
             q[i].timestamp = q[j].timestamp, i # j
      PROVE  FALSE
  <2>1. \A k \in DOMAIN p : p[k].timestamp # e.timestamp
    BY DEF Duplicate
  <2>2. CASE i \in DOMAIN p /\ j \in DOMAIN p
    BY <1>3, <1>4, <2>2
  <2>3. CASE i = Len(p) + 1 /\ j \in DOMAIN p
    BY <1>3, <1>4, <2>1, <2>3
  <2>4. CASE j = Len(p) + 1 /\ i \in DOMAIN p
    BY <1>3, <1>4, <2>1, <2>4
  <2> QED
    BY <1>3, <1>4, <2>2, <2>3, <2>4
<1> QED
  BY <1>1, <1>2, <1>4

(* What parsing a message does, with the cursor at the connection served.  *)
LEMMA Parsed ==
  ASSUME MeansInv, Parse
  PROVE  \E m \in Messages :
           /\ m \in [type : {"I", "Q", "other"}, first_word : Int, second_word : Int]
           /\ m = data[2] /\ cur \in Conns /\ ca = cur /\ cur \in sessions
           /\ asset[cur] \in [prices : Seq(Entry), capacity : Nat]
<1>1. pc = "Parse"
  BY DEF Parse
<1>2. data[2] \in Messages
  BY <1>1, ParsedMessage DEF MeansInv
<1>3. cur \in Conns /\ ca = cur
  BY <1>1 DEF MeansInv, PlaceInv, AnswersInv
<1>4. cur \in sessions
  BY <1>1, <1>3 DEF MeansInv, PlaceInv, EventInv, SessionsInv
<1>5. asset[cur] \in [prices : Seq(Entry), capacity : Nat]
  BY <1>3 DEF MeansInv, PricesInv, Entry
<1> QED
  BY <1>2, <1>3, <1>4, <1>5, MeansAssumption DEF MeansAssumption

LEMMA AnswersStep == MeansInv /\ [Next]_vars => AnswersInv'
<1> SUFFICES ASSUME MeansInv, [Next]_vars PROVE AnswersInv'
  OBVIOUS
<1>a. AnswersInv /\ PlaceInv /\ PricesInv
  BY DEF MeansInv
<1>1. CASE /\ UNCHANGED <<sdqu, asset>>
           /\ \/ pc' \in {"Exit", "Done"}
              \/ UNCHANGED <<pc, ca, cur>>
              \/ /\ pc \notin {"Parse", "Send", "Exit", "Done"} /\ pc' # "Send"
                 /\ pc' = "Parse" => ca' = cur'
  BY <1>a, <1>1 DEF AnswersInv
<1>2. CASE \/ (Start \/ Wait \/ AcceptFails) /\ UNCHANGED meansVars
           \/ Recv \/ RemoveAndClose \/ Timeout \/ KilledBySend
  <2>1. Recv => ca' = cur' \/ pc' # "Parse"
    BY DEF Recv, KeepCur
  <2> QED
    BY <1>1, <1>2, <2>1
       DEF Start, Resolve, Socket, Bind, Listen, Wait, AcceptFails, Recv, Finish,
           RemoveAndClose, Close, Timeout, KilledBySend, Killed, meansVars
<1>3. CASE AcceptAndAdd
  <2>1. /\ pc = "Accept" /\ pc' = "Wait" /\ sdqu' = sdqu
        /\ asset' = [asset EXCEPT ![Head(backlog)] = NoPrices]
    BY <1>3 DEF AcceptAndAdd, Accept, Add, SessionInit
  <2>2. ASSUME NEW c \in Conns
        PROVE  asset'[c] = asset[c] \/ DOMAIN asset'[c].prices = {}
    BY <1>a, <2>1 DEF PricesInv, NoPrices
  <2>3. sdqu' = <<>>
    BY <1>a, <2>1 DEF AnswersInv
  <2> QED
    BY <1>a, <2>1, <2>2, <2>3 DEF AnswersInv
<1>4. CASE Parse
  <2> DEFINE m == data[2]
             entry == [timestamp |-> m.first_word, price |-> m.second_word]
  <2>1. /\ m \in [type : {"I", "Q", "other"}, first_word : Int, second_word : Int]
        /\ cur \in Conns /\ ca = cur
        /\ asset[cur] \in [prices : Seq(Entry), capacity : Nat]
    BY <1>4, Parsed
  <2>2. entry \in Entry /\ entry.timestamp = m.first_word
    BY <2>1 DEF Entry
  <2>3. \/ asset' = asset
        \/ /\ ~Duplicate(asset[cur], entry.timestamp)
           /\ asset' = [asset EXCEPT ![cur] = Push(asset[cur], entry)]
    BY <1>4, <2>1, <2>2 DEF Parse
  <2>4. /\ pc' \in {"Parse", "Send", "Wait", "Close"} /\ ca' = ca
        /\ pc' = "Parse" => cur' = cur
        /\ pc' = "Send" <=> (data' = <<>> /\ sdqu' # <<>>)
        /\ pc' = "Parse" <=> data' # <<>>
    BY <1>4 DEF Parse, Finish, KeepCur, listVars
  <2> HIDE DEF m, entry
  <2>5. ASSUME NEW c \in Conns, NEW i \in DOMAIN asset'[c].prices,
               NEW j \in DOMAIN asset'[c].prices,
               asset'[c].prices[i].timestamp = asset'[c].prices[j].timestamp
        PROVE  i = j
    <3>1. \A k, l \in DOMAIN asset[c].prices :
            asset[c].prices[k].timestamp = asset[c].prices[l].timestamp => k = l
      BY <1>a DEF AnswersInv
    <3>2. CASE asset'[c] = asset[c]
      BY <2>5, <3>1, <3>2
    <3>3. CASE asset'[c] # asset[c]
      <4>1. /\ ~Duplicate(asset[cur], entry.timestamp)
            /\ c = cur /\ asset'[c] = Push(asset[c], entry)
        BY <1>a, <2>3, <3>3 DEF PricesInv
      <4> QED
        BY <2>1, <2>2, <2>5, <3>1, <4>1, PushKeepsOne
    <3> QED
      BY <3>2, <3>3
  <2> QED
    BY <2>1, <2>4, <2>5 DEF AnswersInv
<1>5. CASE Send
  BY <1>a, <1>5 DEF Send, Finish, AnswersInv
<1>6. ASSUME NEW c \in Conns, NEW m \in Messages, PeerSends(c, m)
      PROVE  AnswersInv'
  BY <1>1, <1>6 DEF PeerSends, Deliver, listVars
<1>7. ASSUME NEW c \in Conns, NEW how \in {"shut", "reset"},
             Connect(c) \/ HangUp(c, how), UNCHANGED meansVars
      PROVE  AnswersInv'
  BY <1>1, <1>7 DEF Connect, HangUp, meansVars, listVars
<1>8. CASE UNCHANGED vars
  BY <1>1, <1>8 DEF vars, socketVars, netVars, meansVars, listVars
<1> QED
  BY <1>2, <1>3, <1>4, <1>5, <1>6, <1>7, <1>8
     DEF Next, Server, Environment, Rest

-----------------------------------------------------------------------------

(* Nothing has been sent or received at first.                             *)
LEMMA MeansInit == Init => MeansInv
<1> SUFFICES ASSUME Init PROVE MeansInv
  OBVIOUS
<1>1. PlaceInv
  BY DEF Init, SocketsInit, PlaceInv, Range
<1>2. PartsInv
  BY HalvesEmpty DEF Init, SocketsInit, PartsInv, Half
<1>3. PricesInv
  BY MeansAssumption DEF MeansAssumption, Init, NoPrices, PricesInv
<1>4. TypeOK
  <2>1. at \in 1..(Addresses + 1) /\ sockets \in 0..Addresses
    BY SocketsAssumption DEF SocketsAssumption, Init, SocketsInit
  <2>2. SocketsType
    BY <2>1, <1>1 DEF SocketsType, Init, SocketsInit, PlaceInv
  <2> QED
    BY <2>2 DEF TypeOK, Init
<1>5. OneSocket /\ EventInv /\ OddInv
  BY DEF OneSocket, Serving, EventInv, OddInv, Init, SocketsInit
<1>6. OrderInv
  BY DEF OrderInv, Init, SocketsInit, Range
<1>7. SessionsInv
  BY DEF SessionsInv, LinkInv, Init, SocketsInit
<1>8. AnswersInv
  BY DEF AnswersInv, Init, SocketsInit, NoPrices
<1> QED
  BY <1>1, <1>2, <1>3, <1>4, <1>5, <1>6, <1>7, <1>8 DEF MeansInv

(* Connections are served only between being accepted and being closed,    *)
(* what was received of each begins with the first half of a message, the  *)
(* array of prices has room, events are kept and the sessions are in their *)
(* order (main.c 91-174, asset-prices.c 57-62, client-session.c).          *)
THEOREM Ordered == Spec => []MeansInv
<1>1. MeansInv /\ [Next]_vars => MeansInv'
  BY TypeStep, SocketStep, PlaceStep, PartsStep, PricesStep, EventStep, OddStep,
     OrderStep, SessionsStep, AnswersStep DEF MeansInv
<1> QED
  BY <1>1, MeansInit, PTL DEF Spec

(* The sessions are those of the open connections, in one list linked both *)
(* ways: an event finds its session wherever the cursor is, and the server *)
(* that times out frees them all (client-session.c, main.c 91-118).        *)
THEOREM ListKept == Spec => []ListInv
<1>1. MeansInv => ListInv
  <2> SUFFICES ASSUME MeansInv PROVE ListInv
    OBVIOUS
  <2>a. TypeOK /\ SessionsInv /\ PlaceInv /\ EventInv
    BY DEF MeansInv
  <2>1. pc = "Done" => sessions = {}
    BY <2>a DEF SessionsInv
  <2>2. ASSUME pc \notin {"Exit", "Done"}
        PROVE  /\ pc = "Recv" => Found(cur)
               /\ sessions = open
               /\ (ca = None) = (sessions = {})
               /\ \A s, t \in Conns : next[s] = t <=> prev[t] = s
               /\ sessions # {} => Chain(next, GetBeg(ca)) = sessions
    <3>1. sessions = open /\ LinkInv /\ (ca = None) = (sessions = {})
      BY <2>a, <2>2 DEF SessionsInv, LinkInv
    <3>2. sessions # {} => Chain(next, GetBeg(ca)) = sessions
      BY <2>a, <3>1, AllFound
    <3>3. pc = "Recv" => cur \in sessions
      BY <2>a, <3>1 DEF PlaceInv, EventInv
    <3>4. pc = "Recv" => Found(cur)
      BY <3>1, <3>2, <3>3 DEF Found
    <3>5. ASSUME NEW s \in Conns, NEW t \in Conns PROVE next[s] = t <=> prev[t] = s
      <4>a. /\ None \notin Conns
            /\ \A u \in sessions : u \in Nat /\ u \in Conns /\ u # None
        BY <2>a, SessionNumbers, MeansAssumption DEF MeansAssumption
      <4>1. ASSUME next[s] = t PROVE prev[t] = s
        <5>1. s \in sessions /\ next[s] # None
          BY <3>1, <4>a, <4>1 DEF LinkInv
        <5>2. t \in sessions /\ s < t /\ \A u \in sessions : u <= s \/ t <= u
          BY <2>a, <3>1, <4>1, <5>1, Neighbours
        <5>3. ~(t <= s)
          BY <4>a, <5>1, <5>2
        <5>4. prev[t] # None
          BY <2>a, <3>1, <5>1, <5>2, <5>3, Neighbours
        <5> DEFINE p == prev[t]
        <5>5. p \in sessions /\ p < t /\ \A u \in sessions : u <= p \/ t <= u
          BY <2>a, <3>1, <5>2, <5>4, Neighbours
        <5> HIDE DEF p
        <5>6. (p <= s \/ t <= p) /\ s <= p /\ p \in Nat /\ s \in Nat /\ t \in Nat
          BY <4>a, <5>1, <5>2, <5>3, <5>5
        <5>7. p = s
          BY <5>5, <5>6
        <5> QED
          BY <5>7 DEF p
      <4>2. ASSUME prev[t] = s PROVE next[s] = t
        <5>1. t \in sessions /\ prev[t] # None
          BY <3>1, <4>a, <4>2 DEF LinkInv
        <5>2. s \in sessions /\ s < t /\ \A u \in sessions : u <= s \/ t <= u
          BY <2>a, <3>1, <4>2, <5>1, Neighbours
        <5>3. ~(t <= s)
          BY <4>a, <5>1, <5>2
        <5>4. next[s] # None
          BY <2>a, <3>1, <5>1, <5>2, <5>3, Neighbours
        <5> DEFINE n == next[s]
        <5>5. n \in sessions /\ s < n /\ \A u \in sessions : u <= s \/ n <= u
          BY <2>a, <3>1, <5>2, <5>4, Neighbours
        <5> HIDE DEF n
        <5>6. (n <= s \/ t <= n) /\ n <= t /\ n \in Nat /\ s \in Nat /\ t \in Nat
          BY <4>a, <5>1, <5>2, <5>3, <5>5
        <5>7. n = t
          BY <5>5, <5>6
        <5> QED
          BY <5>7 DEF n
      <4> QED
        BY <4>1, <4>2
    <3> QED
      BY <3>1, <3>2, <3>4, <3>5
  <2> QED
    BY <2>a, <2>1, <2>2 DEF ListInv
<1> QED
  BY <1>1, Ordered, PTL

(* A server that has nothing more to do has processed every message of a   *)
(* connection whose peer has not sent half of another: no edge-triggered   *)
(* event is lost, and no queue is left at a whole message (main.c 114-150).*)
THEOREM NothingIsLeft == Spec => []WholeIsProcessed
<1>1. MeansInv => WholeIsProcessed
  <2> SUFFICES ASSUME MeansInv, pc = "Wait", ready = <<>>, NEW c \in open,
                      sent[c] % 2 = 0
               PROVE  recv_qu[c] = <<>> /\ inbox[c] = <<>>
    BY DEF WholeIsProcessed
  <2>a. EventInv /\ OddInv /\ PartsInv /\ OrderInv /\ c \in Conns
    BY DEF MeansInv, TypeOK, SocketsType
  <2>1. inbox[c] = <<>>
    BY <2>a DEF EventInv, Range
  <2>2. peer[c] # "gone"
    BY <2>a DEF OrderInv
  <2>3. recv_qu[c] = <<>> \/ Len(recv_qu[c]) % 2 = 1
    BY <2>a, <2>2 DEF OddInv
  <2>4. (sent[c] + Len(recv_qu[c]) + Len(inbox[c])) % 2 = 0
    BY <2>a, <2>2 DEF PartsInv
  <2>5. sent[c] \in Nat /\ Len(recv_qu[c]) \in Nat /\ Len(inbox[c]) = 0
    BY <2>a, <2>1 DEF PartsInv
  <2>6. Len(recv_qu[c]) % 2 # 1
    <3>1. \A m, n \in Nat : m % 2 = 0 /\ (m + n + 0) % 2 = 0 => n % 2 # 1
      OBVIOUS
    <3> QED
      BY <2>4, <2>5, <3>1
  <2> QED
    BY <2>1, <2>3, <2>6
<1> QED
  BY <1>1, Ordered, PTL

(* What is parsed is messages as the peer cut them, although the server    *)
(* goes by the number of bytes alone (main.c 136-150).                     *)
THEOREM MessagesFramed == Spec => []Framed
<1>1. MeansInv => Framed
  <2> SUFFICES ASSUME MeansInv PROVE Framed
    OBVIOUS
  <2>1. data \in Seq(Half) /\ DOMAIN data = 1..Len(data) /\ Len(data) \in Nat
    BY DEF MeansInv, PartsInv, Halves
  <2>2. \A i \in 1..Len(data) : data[i] = FirstHalf <=> (0 + i) % 2 = 1
    BY DEF MeansInv, PartsInv, Halves
  <2>3. \A i \in 1..Len(data) : 0 + i = i
    BY <2>1
  <2> QED
    BY <2>1, <2>2, <2>3 DEF Framed
<1> QED
  BY <1>1, Ordered, PTL

-----------------------------------------------------------------------------
(* The abstract service.                                                   *)

(* A step that the service does not see.                                   *)
LEMMA Unseen ==
  ASSUME UNCHANGED <<served, asset, given>>, Dues' = Dues
  PROVE  UNCHANGED Service!vars
BY DEF Service!vars, Books

LEMMA ServiceInit == Init => Service!Init
<1> SUFFICES ASSUME Init PROVE Service!Init
  OBVIOUS
<1>1. pc = "Resolve" /\ sessions = {}
  BY DEF Init, SocketsInit
<1>2. served = {} /\ Dues = [c \in Conns |-> <<>>]
  BY <1>1 DEF served, Dues
<1> QED
  BY <1>2 DEF Service!Init, Init, Books

(* The end of the process closes all connections.                          *)
LEMMA Ended ==
  ASSUME MeansInv, pc' \in {"Exit", "Done"}, given' = given
  PROVE  Service!Close(Conns)
<1>1. served \subseteq Conns /\ served' = {}
  BY DEF MeansInv, TypeOK, served
<1>2. Books' = [c \in Conns |-> {}] /\ Dues' = [c \in Conns |-> <<>>]
  BY <1>1 DEF Books, Dues
<1> QED
  BY <1>1, <1>2 DEF Service!Close

(* A connection that is accepted gets an empty book.                       *)
LEMMA Opened ==
  ASSUME MeansInv, AcceptAndAdd
  PROVE  Service!Next
<1> DEFINE c == Head(backlog)
<1>1. /\ pc = "Accept" /\ pc' = "Wait" /\ cur' = cur /\ given' = given
      /\ sessions' = sessions \union {c}
      /\ asset' = [asset EXCEPT ![c] = NoPrices]
  BY DEF AcceptAndAdd, Accept, Add, SessionInit
<1>2. c \in Conns /\ c \notin sessions
  <2>1. backlog \in Seq(Conns) /\ backlog # <<>>
    BY <1>1 DEF MeansInv, PlaceInv
  <2>2. c \in Conns /\ c \in Range(backlog)
    BY <2>1, TailRange
  <2> QED
    BY <1>1, <2>2 DEF MeansInv, PlaceInv, SessionsInv
<1> HIDE DEF c
<1>3. served = sessions /\ served' = served \union {c}
  BY <1>1 DEF served
<1>4. Books' = Books
  <2>1. ASSUME NEW d \in Conns
        PROVE  Books'[d] = Books[d]
    <3>1. CASE d = c
      <4>1. asset'[d].prices = <<>>
        BY <1>1, <3>1 DEF MeansInv, PricesInv, NoPrices
      <4>2. Books'[d] = {}
        BY <4>1 DEF Books, Range
      <4> QED
        BY <1>2, <1>3, <3>1, <4>2 DEF Books
    <3>2. CASE d # c
      <4>1. asset'[d] = asset[d] /\ (d \in served' <=> d \in served)
        BY <1>1, <1>3, <3>2 DEF MeansInv, PricesInv
      <4> QED
        BY <4>1 DEF Books
    <3> QED
      BY <3>1, <3>2
  <2> QED
    BY <2>1 DEF Books
<1>5. Dues' = Dues
  BY <1>1 DEF Dues
<1>6. Service!Open(c)
  BY <1>1, <1>2, <1>3, <1>4, <1>5 DEF Service!Open
<1> QED
  BY <1>2, <1>6 DEF Service!Next

(* A message inserts a price, asks for a mean or does nothing.             *)
LEMMA Processed ==
  ASSUME MeansInv, Parse
  PROVE  Service!Next \/ UNCHANGED Service!vars
<1> DEFINE entry(m) == [timestamp |-> m.first_word, price |-> m.second_word]
           mean(m) == PricesQuery(asset[cur], m.first_word, m.second_word)
<1>1. PICK m \in Messages :
        /\ m \in [type : {"I", "Q", "other"}, first_word : Int, second_word : Int]
        /\ m = data[2] /\ cur \in Conns /\ ca = cur /\ cur \in sessions
        /\ asset[cur] \in [prices : Seq(Entry), capacity : Nat]
  BY Parsed
<1>2. /\ pc = "Parse" /\ UNCHANGED <<sessions, given>>
      /\ pc' \in {"Parse", "Send", "Wait", "Close"}
      /\ pc' \in {"Parse", "Send"} => cur' = cur
      /\ pc' \notin {"Parse", "Send"} => sdqu' = <<>>
      /\ sdqu' = IF m.type = "Q" THEN sdqu \o <<mean(m), mean(m)>> ELSE sdqu
      /\ asset' = IF m.type = "I" /\ ~Duplicate(asset[cur], m.first_word)
                    THEN [asset EXCEPT ![cur] = Push(@, entry(m))] ELSE asset
  BY <1>1 DEF Parse, Finish, KeepCur, listVars
<1> HIDE DEF entry, mean
<1>3. served = sessions /\ served' = served /\ cur \in served
  BY <1>1, <1>2 DEF served
<1>4. Dues' = [Dues EXCEPT ![cur] = sdqu'] /\ Dues[cur] = sdqu
  <2>1. Dues = [c \in Conns |-> IF c = cur THEN sdqu ELSE <<>>]
    BY <1>2 DEF Dues
  <2>2. Dues' = [c \in Conns |-> IF c = cur THEN sdqu' ELSE <<>>]
    <3>1. CASE pc' \in {"Parse", "Send"}
      BY <1>2, <3>1 DEF Dues
    <3>2. CASE pc' \notin {"Parse", "Send"}
      BY <1>2, <3>2 DEF Dues
    <3> QED
      BY <3>1, <3>2
  <2> QED
    BY <1>1, <2>1, <2>2
<1>5. Books[cur] = Range(asset[cur].prices)
  BY <1>1, <1>3 DEF Books
<1>6. CASE m.type = "Q"
  <2>1. asset' = asset /\ Books' = Books
    BY <1>2, <1>3, <1>6 DEF Books
  <2>2. mean(m) = Service!Mean(Books[cur], m.first_word, m.second_word)
    <3>1. m.first_word \in Int /\ m.second_word \in Int
      BY <1>1
    <3>2. asset[cur].prices \in Seq(Entry)
      BY <1>1
    <3>3. \A i, j \in DOMAIN asset[cur].prices :
            asset[cur].prices[i].timestamp = asset[cur].prices[j].timestamp => i = j
      BY <1>1 DEF MeansInv, AnswersInv
    <3>4. PricesQuery(asset[cur], m.first_word, m.second_word) =
            Service!Mean(Range(asset[cur].prices), m.first_word, m.second_word)
      BY ONLY <3>1, <3>2, <3>3, QueryIsMean
    <3> QED
      BY <1>5, <3>4 DEF mean
  <2>3. Service!Query(cur, m.first_word, m.second_word)
    BY <1>2, <1>3, <1>4, <1>6, <2>1, <2>2 DEF Service!Query
  <2> QED
    BY <1>1, <1>6, <2>3 DEF Service!Next
<1>7. CASE m.type = "I" /\ ~Duplicate(asset[cur], m.first_word)
  <2>1. /\ asset' = [asset EXCEPT ![cur] = Push(@, entry(m))]
        /\ sdqu' = sdqu
    BY <1>2, <1>7
  <2>2. entry(m) \in Entry /\ entry(m).timestamp = m.first_word
    BY <1>1 DEF Entry, entry
  <2>3. Range(Push(asset[cur], entry(m)).prices) = Books[cur] \union {entry(m)}
    <3>1. \A i, j \in DOMAIN asset[cur].prices :
            asset[cur].prices[i].timestamp = asset[cur].prices[j].timestamp => i = j
      BY <1>1 DEF MeansInv, AnswersInv
    <3> QED
      BY <1>1, <1>5, <1>7, <2>2, <3>1, PushKeepsOne
  <2>4. Books' = [Books EXCEPT ![cur] = @ \union {entry(m)}]
    <3>1. ASSUME NEW c \in Conns
          PROVE  Books'[c] = IF c = cur THEN Books[cur] \union {entry(m)} ELSE Books[c]
      <4>1. asset'[c] = IF c = cur THEN Push(asset[cur], entry(m)) ELSE asset[c]
        BY <2>1 DEF MeansInv, PricesInv
      <4> QED
        BY <1>3, <2>3, <4>1 DEF Books
    <3> QED
      BY <1>1, <3>1 DEF Books
  <2>5. \A e \in Books[cur] : e.timestamp # m.first_word
    BY <1>5, <1>7 DEF Duplicate, Range
  <2>6. Dues' = Dues
    BY <1>4, <2>1 DEF Dues
  <2>7. Service!Insert(cur, m.first_word, m.second_word)
    BY <1>2, <1>3, <2>4, <2>5, <2>6 DEF Service!Insert, entry
  <2> QED
    BY <1>1, <1>7, <2>7 DEF Service!Next
<1>8. CASE m.type # "Q" /\ ~(m.type = "I" /\ ~Duplicate(asset[cur], m.first_word))
  <2>1. asset' = asset /\ sdqu' = sdqu
    BY <1>2, <1>8
  <2>2. Dues' = Dues
    BY <1>4, <2>1 DEF Dues
  <2> QED
    BY <1>2, <1>3, <2>1, <2>2, Unseen
<1> QED
  BY <1>6, <1>7, <1>8

(* All answers that are due are given, or a part of them.                  *)
LEMMA Answered ==
  ASSUME MeansInv, Send
  PROVE  Service!Next
<1>1. PICK o \in SendAll(Len(sdqu)) :
        given' = [given EXCEPT ![cur] = @ \o SubSeq(sdqu, 1, o.sent)]
  BY DEF Send
<1>2. /\ pc = "Send" /\ pc' \in {"Wait", "Close"} /\ sdqu' = <<>>
      /\ UNCHANGED <<sessions, asset>>
  BY DEF Send, Finish, listVars
<1>3. cur \in Conns /\ sdqu # <<>>
  BY <1>2 DEF MeansInv, PlaceInv, AnswersInv
<1>4. o.sent \in 0..Len(sdqu)
  <2>1. ASSUME NEW n, NEW k \in 1..n PROVE k \in 0..n
    OBVIOUS
  <2>2. o.sent \in 0..Len(sdqu) \/ o.sent \in 1..Len(sdqu)
    BY DEF SendAll
  <2> QED
    BY <2>1, <2>2
<1>5. UNCHANGED <<served, Books>>
  BY <1>2 DEF served, Books
<1>6. Dues[cur] = sdqu /\ Dues' = [Dues EXCEPT ![cur] = <<>>]
  BY <1>2, <1>3 DEF Dues
<1>7. Service!Answer(cur)
  BY <1>1, <1>3, <1>4, <1>5, <1>6 DEF Service!Answer
<1> QED
  BY <1>3, <1>7 DEF Service!Next

(* The book goes with the connection.                                      *)
LEMMA Closed ==
  ASSUME MeansInv, MeansInv', RemoveAndClose
  PROVE  Service!Next
<1>1. /\ pc = "Close" /\ pc' = "Wait" /\ open' = open \ {cur}
      /\ UNCHANGED <<asset, given>>
  BY DEF RemoveAndClose, Close
<1>2. cur \in Conns
  BY <1>1 DEF MeansInv, PlaceInv
<1>3. served = open /\ served' = open' /\ served \subseteq Conns
  BY <1>1 DEF MeansInv, SessionsInv, served, TypeOK
<1>4. Books' = [c \in Conns |-> IF c \in {cur} THEN {} ELSE Books[c]]
  BY <1>1, <1>3 DEF Books
<1>5. Dues = [c \in Conns |-> <<>>] /\ Dues' = [c \in Conns |-> <<>>]
  BY <1>1 DEF Dues
<1>6. Service!Close({cur})
  BY <1>1, <1>3, <1>4, <1>5 DEF Service!Close
<1> QED
  BY <1>2, <1>6 DEF Service!Next

LEMMA ServiceStep ==
  MeansInv /\ MeansInv' /\ [Next]_vars => [Service!Next]_(Service!vars)
<1> SUFFICES ASSUME MeansInv, MeansInv', [Next]_vars
             PROVE  Service!Next \/ UNCHANGED Service!vars
  OBVIOUS
<1>a. AnswersInv
  BY DEF MeansInv
<1>1. CASE UNCHANGED <<pc, cur, sessions, asset, sdqu, given>>
  BY <1>1, Unseen DEF served, Dues
<1>2. CASE /\ pc \notin {"Parse", "Send", "Exit", "Done"}
           /\ UNCHANGED <<sessions, asset, sdqu, given>>
           /\ pc' \notin {"Send", "Exit", "Done"}
  <2>1. served' = served
    BY <1>2 DEF served
  <2>2. sdqu = <<>>
    BY <1>a, <1>2 DEF AnswersInv
  <2>3. Dues = [c \in Conns |-> <<>>] /\ Dues' = [c \in Conns |-> <<>>]
    BY <1>2, <2>2 DEF Dues
  <2> QED
    BY <1>2, <2>1, <2>3, Unseen
<1>3. CASE pc' \in {"Exit", "Done"} /\ given' = given
  BY <1>3, Ended DEF Service!Next
<1>4. CASE \/ (Start \/ Wait \/ AcceptFails) /\ UNCHANGED meansVars
           \/ Recv \/ Timeout \/ KilledBySend
  BY <1>1, <1>2, <1>3, <1>4
     DEF Start, Resolve, Socket, Bind, Listen, Wait, AcceptFails, Recv, Finish,
         Timeout, KilledBySend, Killed, meansVars, listVars
<1>5. ASSUME NEW c \in Conns, NEW m \in Messages, PeerSends(c, m)
      PROVE  Service!Next \/ UNCHANGED Service!vars
  BY <1>1, <1>5 DEF PeerSends, Deliver, listVars
<1>6. ASSUME NEW c \in Conns, NEW how \in {"shut", "reset"},
             Connect(c) \/ HangUp(c, how), UNCHANGED meansVars
      PROVE  Service!Next \/ UNCHANGED Service!vars
  BY <1>1, <1>6 DEF Connect, HangUp, meansVars, listVars
<1>7. CASE UNCHANGED vars
  BY <1>1, <1>7 DEF vars, socketVars, netVars, meansVars, listVars
<1> QED
  BY <1>4, <1>5, <1>6, <1>7, Opened, Processed, Answered, Closed
     DEF Next, Server, Environment, Rest

(* Each connection has a book of its own and gets the means over it, for   *)
(* all that list, cursor and send queue are shared (main.c 91-176,         *)
(* messages.c, asset-prices.c).                                            *)
THEOREM ServiceImplemented == Spec => ImplementsMeansService
<1>1. MeansInv /\ MeansInv' /\ [Next]_vars => [Service!Next]_(Service!vars)
  BY ServiceStep
<1> QED
  BY <1>1, ServiceInit, Ordered, PTL DEF Spec, ImplementsMeansService, Service!Spec

(* The mean that a query computes is the sum of the prices asked for by    *)
(* their number, rounded towards zero (asset-prices.c 81-104).             *)
THEOREM QueriesByDefinition == Spec => []QueryByDefinition
<1>1. QueryByDefinition
  <2> DEFINE lists == {<<>>, <<1>>, <<2, 1>>, <<1, 2, 3>>, <<3, 1, 2>>}
  <2> SUFFICES ASSUME NEW times \in lists,
                      NEW prices \in [DOMAIN times -> {-3, 0, 1, 4}],
                      NEW from \in 0..3, NEW to \in 0..3
               PROVE  LET entries == [i \in DOMAIN times |->
                                        [timestamp |-> times[i], price |-> prices[i]]]
                      IN PricesQuery([prices |-> entries, capacity |-> 4], from, to)
                           = Service!Mean(Range(entries), from, to)
    BY DEF QueryByDefinition
  <2> DEFINE entries == [i \in DOMAIN times |->
                           [timestamp |-> times[i], price |-> prices[i]]]
             a == [prices |-> entries, capacity |-> 4]
  <2>1. \E n \in 0..3 : DOMAIN times = 1..n /\ times \in [1..n -> 1..3]
    OBVIOUS
  <2>2. \A i, j \in DOMAIN times : times[i] = times[j] => i = j
    OBVIOUS
  <2>3. entries \in Seq(Entry)
    BY <2>1 DEF Entry
  <2>4. \A i, j \in DOMAIN entries : entries[i].timestamp = entries[j].timestamp => i = j
    BY <2>2
  <2>5. a.prices = entries
    OBVIOUS
  <2> HIDE DEF entries, a
  <2>0. from \in Int /\ to \in Int
    OBVIOUS
  <2>6. PricesQuery(a, from, to) = Service!Mean(Range(entries), from, to)
    BY ONLY <2>0, <2>3, <2>4, <2>5, QueryIsMean
  <2> QED
    BY <2>6 DEF entries, a
<1> QED
  BY <1>1, PTL
=============================================================================
