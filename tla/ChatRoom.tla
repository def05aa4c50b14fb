------------------------------- MODULE ChatRoom -------------------------------
(***************************************************************************)
(* The budget chat server: zig/src/3-budget-chat/main.zig.                 *)
(*                                                                         *)
(* A pool of threads runs handle_connection, one call per connection.  The *)
(* clients that have joined are in a map from their name to a copy of      *)
(* their Client, in order of joining; each operation on the map takes its  *)
(* mutex, and broadcasts write to every client while they hold it.  A name *)
(* is checked, the room listed, the newcomer announced and added in four   *)
(* critical sections.  A deferred block announces that a client has left   *)
(* and removes the entry of its name, however the call ends once the       *)
(* client has a valid name.                                                *)
(*                                                                         *)
(* The map's keys are slices of the clients' stack frames, and             *)
(* get_usernames hands out the map's own array of them: to read it after   *)
(* the map has changed is undefined.                                       *)
(***************************************************************************)
EXTENDS Naturals, Sequences, FiniteSets, SequencesExt

CONSTANTS
  Sessions,  (* connections, each a call of handle_connection               *)
  Names,     (* valid usernames                                             *)
  None,      (* no username, no session                                     *)
  Workers    (* threads of the pool                                         *)

ASSUME ChatAssumption ==
  /\ None \notin Sessions
  /\ None \notin Names
  /\ Workers \in Nat

VARIABLES
  pc,        (* where each call of handle_connection is                     *)
  name,      (* client.username, None until client.joined                   *)
  room,      (* the map's entries, in its order                             *)
  mutex,     (* the session that holds it                                   *)
  at,        (* place of a broadcast in the room                            *)
  stale,     (* sessions whose list of names is of a map that has changed   *)
  hungup,    (* connections whose peer has gone away                        *)
  owed,      (* history: who is still to be written to by a broadcast       *)
  listed,    (* history: whom the list a session was sent has named         *)
  told,      (* history: of whose arrival a session has been told           *)
  undefined  (* a stale list has stopped the process                        *)

history == <<owed, listed, told>>
vars == <<pc, name, room, mutex, at, stale, hungup, history, undefined>>

Broadcasting == {"Entering", "Saying", "Leaving"}

Labels == {"Waiting", "Read", "Exists", "List", "Listing", "Enter", "Add",
           "Say", "Leave", "Remove", "Close", "Done"} \union Broadcasting

Init ==
  /\ pc = [s \in Sessions |-> "Waiting"]
  /\ name = [s \in Sessions |-> None]
  /\ room = <<>>
  /\ mutex = None
  /\ at = [s \in Sessions |-> 0]
  /\ stale = {} /\ hungup = {}
  /\ owed = [s \in Sessions |-> {}]
  /\ listed = [s \in Sessions |-> {}]
  /\ told = [s \in Sessions |-> {}]
  /\ undefined = FALSE

Go(s, from, to) ==
  /\ ~undefined
  /\ pc[s] = from
  /\ pc' = [pc EXCEPT ![s] = to]
  /\ undefined' = FALSE

Taken(n) == \E i \in DOMAIN room : name[room[i]] = n

(* The map holds a name once.                                              *)
IndexOf(n) == CHOOSE i \in DOMAIN room : name[room[i]] = n

(* A write to s may fail, and return from the call, once its peer is gone. *)
MayFail(s) == s \in hungup

(* How a call ends early: by the deferred block if the client has joined.  *)
Exit(s) == IF name[s] = None THEN "Close" ELSE "Leave"

-----------------------------------------------------------------------------
(* Peers, the accept loop and the pool.                                    *)

HangUp(s) ==
  /\ ~undefined
  /\ pc[s] # "Done" /\ s \notin hungup
  /\ hungup' = hungup \union {s}
  /\ UNCHANGED <<pc, name, room, mutex, at, stale, history, undefined>>

Active == {s \in Sessions : pc[s] \notin {"Waiting", "Done"}}

(* A connection comes to a thread of the pool, and is sent the welcome.    *)
Start(s) ==
  /\ \/ Go(s, "Waiting", "Read")
     \/ Go(s, "Waiting", "Close") /\ MayFail(s)
  /\ Cardinality(Active) < Workers
  /\ UNCHANGED <<name, room, mutex, at, stale, hungup, history>>

-----------------------------------------------------------------------------
(* The loop: what a read returns.                                          *)

EndOfStream(s) ==
  /\ Go(s, "Read", Exit(s))
  /\ s \in hungup
  /\ UNCHANGED <<name, room, mutex, at, stale, hungup, history>>

InvalidName(s) ==
  /\ Go(s, "Read", "Close")
  /\ name[s] = None
  /\ UNCHANGED <<name, room, mutex, at, stale, hungup, history>>

ValidName(s, n) ==
  /\ Go(s, "Read", "Exists")
  /\ name[s] = None
  /\ name' = [name EXCEPT ![s] = n]
  /\ UNCHANGED <<room, mutex, at, stale, hungup, history>>

(* A line may be too long for the buffer that it is put together in.       *)
Line(s) ==
  /\ Go(s, "Read", "Say") \/ Go(s, "Read", "Leave")
  /\ name[s] # None
  /\ UNCHANGED <<name, room, mutex, at, stale, hungup, history>>

-----------------------------------------------------------------------------
(* Joining.                                                                *)

(* Mutant: the newcomer is announced before it is sent the list.           *)
ThenSwapped ==
  [Exists |-> "Enter", Listing |-> "Add", Entering |-> "List",
   Saying |-> "Read", Leaving |-> "Remove"]

(* What follows a step that succeeds.                                      *)
Then ==
  [Exists |-> "List", Listing |-> "Enter", Entering |-> "Add",
   Saying |-> "Read", Leaving |-> "Remove"]

(* Clients.exists: a client whose name is taken leaves the chat, deferred  *)
(* block and all.                                                          *)
Exists(s) ==
  /\ mutex = None
  /\ Go(s, "Exists", IF Taken(name[s]) THEN "Leave" ELSE Then["Exists"])
  /\ UNCHANGED <<name, room, mutex, at, stale, hungup, history>>

GetUsernames(s) ==
  /\ Go(s, "List", "Listing")
  /\ mutex = None
  /\ listed' = [listed EXCEPT ![s] = Range(room)]
  /\ UNCHANGED <<name, room, mutex, at, stale, hungup, owed, told>>

(* The names are put together, and sent.  If the map has changed meanwhile *)
(* the process may be gone, or the client be sent anything.                *)
SendList(s) ==
  /\ \/ Go(s, "Listing", Then["Listing"])
     \/ Go(s, "Listing", "Leave") /\ MayFail(s)
  /\ listed' = [listed EXCEPT ![s] = IF s \in stale THEN {} ELSE @]
  /\ stale' = stale \ {s}
  /\ UNCHANGED <<name, room, mutex, at, hungup, owed, told>>

ReadStaleList(s) ==
  /\ ~undefined /\ pc[s] = "Listing" /\ s \in stale
  /\ undefined' = TRUE
  /\ UNCHANGED <<pc, name, room, mutex, at, stale, hungup, history>>

(* Lists handed out before the map changes.                                *)
Outdate == stale' = stale \union {u \in Sessions : pc[u] = "Listing"}

(* Clients.add looks the name up once more.                                *)
Add(s) ==
  /\ mutex = None
  /\ IF Taken(name[s])
     THEN Go(s, "Add", "Leave") /\ UNCHANGED <<room, stale>>
     ELSE Go(s, "Add", "Read") /\ room' = Append(room, s) /\ Outdate
  /\ UNCHANGED <<name, mutex, at, hungup, history>>

-----------------------------------------------------------------------------
(* send_message, to all, and send_message_from, to all but the entry under *)
(* the sender's name, which it has to find first.                          *)

Phase == [Enter |-> "Entering", Say |-> "Saying", Leave |-> "Leaving"]

Skipped(s) ==
  IF pc[s] \in {"Enter", "Entering"} \/ ~Taken(name[s]) THEN 0
  ELSE IndexOf(name[s])

(* Mutant: the mutex is not taken.                                         *)
BeginUnlocked(s, l) ==
  /\ Go(s, l, Phase[l])
  /\ l = "Enter" \/ Taken(name[s])
  /\ owed' = [owed EXCEPT ![s] = Range(room) \ {s}]
  /\ at' = [at EXCEPT ![s] = 1]
  /\ UNCHANGED <<name, room, mutex, stale, hungup, listed, told>>

Begin(s, l) ==
  /\ mutex = None
  /\ Go(s, l, Phase[l])
  /\ l = "Enter" \/ Taken(name[s])
  /\ mutex' = s
  /\ owed' = [owed EXCEPT ![s] = Range(room) \ {s}]
  /\ at' = [at EXCEPT ![s] = 1]
  /\ UNCHANGED <<name, room, stale, hungup, listed, told>>

(* ClientNotFound: another client's leaving has removed the entry.         *)
NotFound(s) ==
  /\ mutex = None
  /\ ~Taken(name[s])
  /\ Go(s, "Say", "Leave") \/ Go(s, "Leave", "Remove")
  /\ UNCHANGED <<name, room, mutex, at, stale, hungup, history>>

Skip(s) ==
  /\ ~undefined
  /\ pc[s] \in Broadcasting /\ at[s] \in DOMAIN room /\ at[s] = Skipped(s)
  /\ at' = [at EXCEPT ![s] = @ + 1]
  /\ UNCHANGED <<pc, name, room, mutex, stale, hungup, history, undefined>>

Write(s) ==
  /\ ~undefined
  /\ pc[s] \in Broadcasting /\ at[s] \in DOMAIN room /\ at[s] # Skipped(s)
  /\ at' = [at EXCEPT ![s] = @ + 1]
  /\ owed' = [owed EXCEPT ![s] = @ \ {room[at[s]]}]
  /\ told' = [told EXCEPT ![room[at[s]]] =
                IF pc[s] = "Entering" THEN @ \union {s} ELSE @]
  /\ UNCHANGED <<pc, name, room, mutex, stale, hungup, listed, undefined>>

(* A broadcast is over.                                                    *)
Reset(s) ==
  /\ at' = [at EXCEPT ![s] = 0]
  /\ owed' = [owed EXCEPT ![s] = {}]

(* Mutant: a client whose leaving cannot be announced stays in the map.    *)
WriteFailsStays(s, l) ==
  /\ Go(s, l, IF l = "Leaving" THEN "Close" ELSE "Leave")
  /\ at[s] \in DOMAIN room /\ at[s] # Skipped(s) /\ MayFail(room[at[s]])
  /\ mutex' = None
  /\ Reset(s)
  /\ UNCHANGED <<name, room, stale, hungup, listed, told>>

(* One failing write ends the broadcast, and the call that makes it.       *)
WriteFails(s, l) ==
  /\ Go(s, l, IF l = "Leaving" THEN "Remove" ELSE "Leave")
  /\ at[s] \in DOMAIN room /\ at[s] # Skipped(s) /\ MayFail(room[at[s]])
  /\ mutex' = None
  /\ Reset(s)
  /\ UNCHANGED <<name, room, stale, hungup, listed, told>>

End(s, l) ==
  /\ Go(s, l, Then[l])
  /\ at[s] > Len(room)
  /\ mutex' = None
  /\ Reset(s)
  /\ UNCHANGED <<name, room, stale, hungup, listed, told>>

-----------------------------------------------------------------------------
(* Leaving.                                                                *)

(* swapRemove: the last entry takes the place of the one removed.          *)
SwapRemove(q, i) ==
  [j \in 1..Len(q) - 1 |-> IF j = i THEN q[Len(q)] ELSE q[j]]

(* Mutant: the mutex is not waited for.                                    *)
RemoveUnlocked(s) ==
  /\ Go(s, "Remove", "Close")
  /\ IF Taken(name[s])
     THEN room' = SwapRemove(room, IndexOf(name[s])) /\ Outdate
     ELSE UNCHANGED <<room, stale>>
  /\ UNCHANGED <<name, mutex, at, hungup, history>>

(* Whoever has the name by now is removed.                                 *)
RemoveEntry(s) ==
  /\ mutex = None
  /\ Go(s, "Remove", "Close")
  /\ IF Taken(name[s])
     THEN room' = SwapRemove(room, IndexOf(name[s])) /\ Outdate
     ELSE UNCHANGED <<room, stale>>
  /\ UNCHANGED <<name, mutex, at, hungup, history>>

(* The call returns, and its stack frame and stream are gone.              *)
Close(s) ==
  /\ Go(s, "Close", "Done")
  /\ name' = [name EXCEPT ![s] = None]
  /\ hungup' = hungup \ {s}
  /\ listed' = [listed EXCEPT ![s] = {}]
  /\ UNCHANGED <<room, mutex, at, stale, owed, told>>

-----------------------------------------------------------------------------
(* What a session's thread can do by itself; reading data takes the peer.  *)
Step(s) ==
  \/ EndOfStream(s)
  \/ Exists(s) \/ GetUsernames(s) \/ SendList(s) \/ ReadStaleList(s) \/ Add(s)
  \/ \E l \in {"Enter", "Say", "Leave"} : Begin(s, l)
  \/ NotFound(s) \/ Skip(s) \/ Write(s)
  \/ \E l \in Broadcasting : WriteFails(s, l) \/ End(s, l)
  \/ RemoveEntry(s) \/ Close(s)

Peer(s) ==
  \/ Start(s) \/ HangUp(s) \/ InvalidName(s) \/ Line(s)
  \/ \E n \in Names : ValidName(s, n)

(* Every thread is waiting for its peer, or for a connection.              *)
Rest ==
  /\ undefined \/ \A s \in Sessions : pc[s] \in {"Waiting", "Read", "Done"}
  /\ UNCHANGED vars

Next == (\E s \in Sessions : Step(s) \/ Peer(s)) \/ Rest

Spec == Init /\ [][Next]_vars

-----------------------------------------------------------------------------
(* Every variable holds a value of its type.                               *)
TypeOK ==
  /\ pc \in [Sessions -> Labels]
  /\ name \in [Sessions -> Names \union {None}]
  /\ room \in Seq(Sessions)
  /\ mutex \in Sessions \union {None}
  /\ at \in [Sessions -> Nat]
  /\ stale \in SUBSET Sessions /\ hungup \in SUBSET Sessions
  /\ owed \in [Sessions -> SUBSET Sessions]
  /\ listed \in [Sessions -> SUBSET Sessions]
  /\ told \in [Sessions -> SUBSET Sessions]
  /\ undefined \in BOOLEAN

InRoom(s) == \E i \in DOMAIN room : room[i] = s

(* A session does not end, nor close its stream, while its entry is in the *)
(* map, whose key lies in the session's stack frame: the deferred block    *)
(* removes whatever entry has its name, so that its own never stays        *)
(* (main.zig:168-179, 81).                                                 *)
LiveEntries == \A s \in Sessions : InRoom(s) => pc[s] \notin {"Close", "Done"}

(* A broadcast that comes to the end of the map has been written to        *)
(* everybody who was in the room when it began but the sender, although    *)
(* clients join and leave meanwhile, and a removal moves the last entry to *)
(* where the broadcast may have been already (main.zig:96-123).  There is  *)
(* one exception.  send_message_from passes over the entry under its       *)
(* sender's name, whoever's it is: a sender that is not in the room itself *)
(* (turned away, or its entry removed by one that was) misses the client   *)
(* that is there under its name, and no other.                             *)
ReachesAllButNamesake ==
  \A s \in Sessions : pc[s] \in Broadcasting /\ at[s] > Len(room) =>
     \A u \in owed[s] : /\ pc[s] # "Entering"
                        /\ ~InRoom(s) /\ name[u] = name[s]

(* Of two clients in the room, one that is on the list the other was sent  *)
(* has been told of the other's arrival, for the list is taken before the  *)
(* arrival is announced, and who cannot be announced does not join         *)
(* (main.zig:237-273).                                                     *)
ListedWereTold ==
  \A s, u \in Sessions :
     InRoom(s) /\ InRoom(u) /\ u \in listed[s] => s \in told[u]

(* main.zig:227: "Ensure unique usernames".  Two clients that have joined, *)
(* and are not about to leave, do not have the same name.                  *)
UniqueUsernames ==
  \A s, u \in Sessions :
     s # u /\ pc[s] \in {"Read", "Say"} /\ pc[u] \in {"Read", "Say"}
     /\ name[s] # None => name[s] # name[u]
-----------------------------------------------------------------------------
(* The inductive invariant of the proofs in ChatRoomProofs.                *)

(* A call has a name from the moment it is valid to its end.               *)
NameInv ==
  \A s \in Sessions :
     /\ pc[s] \in {"Waiting", "Done"} => name[s] = None
     /\ pc[s] \notin {"Waiting", "Read", "Close", "Done"} => name[s] # None

Members == {"Read", "Say", "Saying", "Leave", "Leaving", "Remove"}

(* A member's own deferred block is still to come; and the name it will    *)
(* remove is in the map once, so that the entry is the member's if it is   *)
(* there at all.                                                           *)
RoomInv ==
  /\ \A i \in DOMAIN room :
       name[room[i]] # None /\ pc[room[i]] \in Members
  /\ \A i, j \in DOMAIN room : name[room[i]] = name[room[j]] => i = j

(* The mutex is held by the one session that is broadcasting, if any.      *)
MutexInv ==
  \A s \in Sessions : mutex = s <=> pc[s] \in Broadcasting

(* A broadcast owes its message to entries that it has not come to yet,    *)
(* and to the one under its sender's name, which it passes over.           *)
OwedInv ==
  \A s \in Sessions : pc[s] \in Broadcasting =>
     \A u \in owed[s] :
        /\ u # s
        /\ \E i \in DOMAIN room :
             /\ room[i] = u
             /\ i >= at[s] \/ (pc[s] # "Entering" /\ name[u] = name[s])

(* A session that has been in the room is not added to it again.           *)
HasJoined(u) ==
  /\ pc[u] \in Members \union {"Close", "Done"}
  /\ pc[u] = "Read" => name[u] # None

(* Who is on a newcomer's list and still in the room is told of it by the  *)
(* announcement under way, or has been.                                    *)
ListInv ==
  \A s \in Sessions : \A u \in listed[s] :
     /\ HasJoined(u)
     /\ pc[s] = "Entering" /\ InRoom(u) => u \in owed[s] \/ s \in told[u]
     /\ (pc[s] = "Add" \/ InRoom(s)) /\ InRoom(u) => s \in told[u]

ChatInv == TypeOK /\ NameInv /\ RoomInv /\ MutexInv /\ OwedInv /\ ListInv
=============================================================================
