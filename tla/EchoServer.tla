------------------------------ MODULE EchoServer ------------------------------
(***************************************************************************)
(* The C smoke test: c/source/smoke-test/main.c, with sendall of           *)
(* utils/sockets.c send by send.                                           *)
(*                                                                         *)
(* What a connection has sent is received into a queue that all            *)
(* connections share, popped, and sent back.  The kernel takes as much of  *)
(* a send as its buffer has room for, until the peer reads.                *)
(***************************************************************************)
EXTENDS CSockets

CONSTANTS
  SndBuf,     (* bytes the kernel buffers for a peer that does not read     *)
  MaxBytes    (* bound: bytes the peers send, taken together               *)

ASSUME EchoAssumption == SndBuf \in Nat /\ MaxBytes \in Nat

VARIABLES
  qu,         (* the queue of received bytes                                *)
  data,       (* sendall: the bytes left to send                            *)
  total_sent, (* sendall: the number of bytes sent                          *)
  unread,     (* bytes in the kernel's buffer for each peer                 *)
  sent,       (* history: number of bytes each peer has sent                *)
  echoed,     (* history: what each peer has been sent back                 *)
  cut,        (* history: connections some of whose bytes were not sent on  *)
  leaked      (* history: those for which sending failed at end of file     *)

echoVars == <<qu, data, total_sent, unread, sent, echoed, cut, leaked>>
vars == <<socketVars, echoVars>>

Init ==
  /\ SocketsInit
  /\ qu = <<>> /\ data = <<>> /\ total_sent = 0
  /\ unread = [c \in Conns |-> 0]
  /\ sent = [c \in Conns |-> 0]
  /\ echoed = [c \in Conns |-> <<>>]
  /\ cut = {} /\ leaked = {}

-----------------------------------------------------------------------------
(* Peers.  Byte i of connection c is <<c, i>>.                             *)

PeerSends(c) ==
  /\ FoldFunction(+, 0, sent) < MaxBytes
  /\ Deliver(c, <<<<c, sent[c] + 1>>>>)
  /\ sent' = [sent EXCEPT ![c] = @ + 1]
  /\ UNCHANGED <<qu, data, total_sent, unread, echoed, cut, leaked>>

PeerReads(c) ==
  /\ unread[c] > 0 /\ peer[c] # "gone"
  /\ unread' = [unread EXCEPT ![c] = 0]
  /\ UNCHANGED <<socketVars, qu, data, total_sent, sent, echoed, cut, leaked>>

-----------------------------------------------------------------------------
(* The server.                                                             *)

(* How the handling of an event ends.                                      *)
Finish(r) == IF r = "again" THEN "Wait" ELSE "Close"

(* Mutant: the queue is popped only when there was no error.               *)
RecvPopsLate ==
  /\ pc = "Recv"
  /\ Received
  /\ LET all == qu \o inbox[cur] IN
       /\ qu' = IF res' = "error" THEN all ELSE <<>>
       /\ data' = IF res' = "error" THEN <<>> ELSE all
       /\ pc' = IF data' # <<>> THEN "Send" ELSE Finish(res')
  /\ total_sent' = 0
  /\ KeepCur
  /\ UNCHANGED <<unread, sent, echoed, cut, leaked>>

(* Mutant: end of file is acted upon before the data.                      *)
RecvClosesFirst ==
  /\ pc = "Recv"
  /\ Received
  /\ LET all == qu \o inbox[cur] IN
       /\ data' = IF res' = "again" THEN all ELSE <<>>
       /\ pc' = IF data' # <<>> THEN "Send" ELSE Finish(res')
  /\ qu' = <<>> /\ total_sent' = 0
  /\ KeepCur
  /\ UNCHANGED <<unread, sent, echoed, cut, leaked>>

(* The queue is popped before the result is looked at.                     *)
Recv ==
  /\ pc = "Recv"
  /\ Received
  /\ LET all == qu \o inbox[cur] IN
       /\ data' = IF res' = "error" THEN <<>> ELSE all
       /\ pc' = IF data' # <<>> THEN "Send" ELSE Finish(res')
  /\ qu' = <<>> /\ total_sent' = 0
  /\ KeepCur
  /\ UNCHANGED <<unread, sent, echoed, cut, leaked>>

(* Mutant: what is left may be as long as what was sent.                   *)
GoesOnAtHalf(k, left) == k <= left

(* The loop's condition: what was sent against what is left.               *)
GoesOn(k, left) == k < left

(* A send of k bytes.                                                      *)
Send(k) ==
  /\ pc = "Send"
  /\ peer[cur] # "reset"
  /\ k <= Len(data) /\ unread[cur] + k <= SndBuf
  /\ LET left == Len(data) - k IN
       /\ echoed' = [echoed EXCEPT ![cur] = @ \o SubSeq(data, 1, k)]
       /\ unread' = [unread EXCEPT ![cur] = @ + k]
       /\ IF GoesOn(k, left)
            THEN /\ data' = SubSeq(data, k + 1, Len(data))
                 /\ total_sent' = total_sent + k
                 /\ UNCHANGED <<pc, cut>>
            ELSE /\ data' = <<>> /\ total_sent' = 0
                 /\ pc' = Finish(res)
                 /\ cut' = IF left > 0 THEN cut \union {cur} ELSE cut
  /\ KeepCur
  /\ UNCHANGED <<res, startVars, netVars, qu, sent, leaked>>

(* A send that fails leaves the connection open, whatever recv_request     *)
(* returned.                                                               *)
SendFails ==
  /\ pc = "Send"
  /\ peer[cur] = "reset" \/ unread[cur] = SndBuf
  /\ pc' = "Wait" /\ res' = "again"
  /\ KeepCur
  /\ data' = <<>> /\ total_sent' = 0
  /\ cut' = cut \union {cur}
  /\ leaked' = IF res = "closed" THEN leaked \union {cur} ELSE leaked
  /\ UNCHANGED <<startVars, netVars, qu, unread, sent, echoed>>

KilledBySend == pc = "Send" /\ Killed /\ UNCHANGED echoVars

(* At rest: no event is there, or the process is gone.                     *)
Rest ==
  /\ pc = "Exit" \/ (pc = "Wait" /\ ready = <<>>)
  /\ UNCHANGED vars

Server ==
  \/ (Start \/ Wait \/ Accept \/ Close) /\ UNCHANGED echoVars
  \/ Recv
  \/ \E k \in 1..SndBuf : Send(k)
  \/ SendFails

Environment ==
  \/ \E c \in Conns :
       \/ PeerSends(c) \/ PeerReads(c)
       \/ /\ Connect(c) \/ \E how \in {"shut", "reset"} : HangUp(c, how)
          /\ UNCHANGED echoVars
  \/ AcceptFails /\ UNCHANGED echoVars
  \/ KilledBySend

Next == Server \/ Environment \/ Rest

Spec == Init /\ [][Next]_vars /\ WF_vars(Server)

-----------------------------------------------------------------------------
(* Properties.                                                             *)

Byte == Conns \X Nat

TypeOK ==
  /\ SocketsType
  /\ inbox \in [Conns -> Seq(Byte)]
  /\ qu = <<>> /\ data \in Seq(Byte)
  /\ total_sent \in Nat
  /\ unread \in [Conns -> 0..SndBuf]
  /\ sent \in [Conns -> Nat]
  /\ echoed \in [Conns -> Seq(Byte)]
  /\ cut \subseteq Conns /\ leaked \subseteq cut

(* A peer is sent its own bytes only, in the order in which it sent them,  *)
(* and unless some were cut off none is missing between them: although     *)
(* all connections are received into one queue (main.c 98-122).            *)
EchoInOrder ==
  \A c \in Conns :
    /\ \A i \in DOMAIN echoed[c] : echoed[c][i][1] = c
    /\ \A i, j \in DOMAIN echoed[c] : i < j => echoed[c][i][2] < echoed[c][j][2]
    /\ c \notin cut => \A i \in DOMAIN echoed[c] : echoed[c][i][2] = i

(* By the time a connection that its peer has ended is closed, everything  *)
(* it sent has been sent back, unless some was cut off (main.c 111-133).   *)
EchoComplete ==
  (pc = "Close" /\ peer[cur] = "shut" /\ cur \notin cut)
    => Len(echoed[cur]) = sent[cur]

(* The event being handled is of an open connection.  One found to be at   *)
(* its end has been emptied, and nothing follows.                          *)
CurInv ==
  /\ pc = "Accept" => backlog # <<>>
  /\ pc \in {"Recv", "Send", "Close"} =>
       cur \in Conns /\ peer[cur] \in {"open", "shut", "reset"}
  /\ pc = "Send" => res # "error"
  /\ pc = "Close" => res # "again" /\ (res = "error" => peer[cur] = "reset")
  /\ (pc \in {"Send", "Close"} /\ res = "closed") =>
       peer[cur] \in {"shut", "reset"} /\ inbox[cur] = <<>>

(* What the server has taken of a connection's bytes, and what of these it *)
(* is about to send.                                                       *)
Taken(c) == sent[c] - Len(inbox[c])
Pending(c) == IF pc = "Send" /\ c = cur THEN Len(data) ELSE 0

(* What has been received is the last that was sent, and what is about to  *)
(* be sent the last that was taken.                                        *)
InboxInv ==
  \A c \in Conns :
    /\ Len(inbox[c]) <= sent[c]
    /\ \A i \in 1..Len(inbox[c]) : inbox[c][i] = <<c, Taken(c) + i>>
    /\ peer[c] \in {"none", "gone"} => inbox[c] = <<>>

DataInv ==
  pc = "Send" =>
    /\ Len(data) <= Taken(cur)
    /\ \A i \in 1..Len(data) : data[i] = <<cur, Taken(cur) - Len(data) + i>>

(* There is something to send, and a send that was not the last has left   *)
(* two bytes or more.                                                      *)
SendInv ==
  pc = "Send" => data # <<>> /\ (total_sent = 0 \/ Len(data) >= 2)

(* EchoInOrder, and how far the echo has come.                             *)
EchoedInv ==
  /\ \A c \in Conns :
       /\ \A i \in 1..Len(echoed[c]) : echoed[c][i][2] <= Taken(c) - Pending(c)
       /\ (c \notin cut /\ peer[c] \notin {"reset", "gone"}) =>
            Len(echoed[c]) = Taken(c) - Pending(c)
  /\ EchoInOrder

(* The inductive invariant of EchoServerProofs.                            *)
EchoInv ==
  TypeOK /\ OneSocket /\ CurInv /\ InboxInv /\ DataInv /\ SendInv /\ EchoedInv

(* What a call of sendall amounts to, send by send, is what SendAll says   *)
(* of it for the other servers: in particular it reports no error when as  *)
(* little as half was sent (sockets.c 40-62).                              *)
SendAllSummary ==
  [][(pc = "Send" /\ pc' \notin {"Send", "Exit"}) =>
       [sent |-> total_sent + Len(echoed'[cur]) - Len(echoed[cur]),
        failed |-> echoed' = echoed]
          \in SendAll(total_sent + Len(data))]_vars

(* A connection that its peer has ended or reset comes to be closed, the   *)
(* client being told by this that the server has finished, unless sending  *)
(* fails at end of file: main.c 116 leaves such a connection open.         *)
HangUpIsClosed ==
  \A c \in Conns :
    peer[c] \in {"shut", "reset"}
      ~> (peer[c] = "gone" \/ c \in leaked \/ pc = "Exit")
=============================================================================
