---------------------------- MODULE ChatRoomProofs ----------------------------
(***************************************************************************)
(* Proofs about ChatRoom for any sessions and names and any number of      *)
(* threads: its inductive invariant, conjunct by conjunct, and the         *)
(* properties of the room that follow from it.                             *)
(***************************************************************************)
EXTENDS ChatRoom, SequenceTheorems, TLAPS

(* What removing an entry leaves: the others, each once.                   *)
LEMMA SwapRemoveProperties ==
  ASSUME NEW S, NEW q \in Seq(S), NEW i \in DOMAIN q
  PROVE  /\ SwapRemove(q, i) \in Seq(S)
         /\ DOMAIN SwapRemove(q, i) = 1..Len(q) - 1
         /\ \A j \in 1..Len(q) - 1 :
              SwapRemove(q, i)[j] = q[IF j = i THEN Len(q) ELSE j]
<1>1. Len(q) \in Nat \ {0} /\ DOMAIN q = 1..Len(q) /\ Len(q) - 1 \in Nat
  OBVIOUS
<1>2. \A j \in 1..Len(q) - 1 :
         (IF j = i THEN q[Len(q)] ELSE q[j]) \in S
  BY <1>1
<1>3. SwapRemove(q, i) \in [1..Len(q) - 1 -> S]
  BY <1>2 DEF SwapRemove
<1> QED
  BY <1>1, <1>3 DEF SwapRemove

(* The entry under a name that is in the map.                              *)
LEMMA IndexOfTaken ==
  ASSUME NEW n, Taken(n)
  PROVE  IndexOf(n) \in DOMAIN room /\ name[room[IndexOf(n)]] = n
BY DEF Taken, IndexOf

LEMMA TypeStep == TypeOK /\ [Next]_vars => TypeOK'
<1> SUFFICES ASSUME TypeOK, [Next]_vars PROVE TypeOK'
  OBVIOUS
<1> USE DEF TypeOK, Labels, Broadcasting, Go, history
<1>1. ASSUME NEW s \in Sessions, HangUp(s) PROVE TypeOK'
  BY <1>1 DEF HangUp
<1>2. ASSUME NEW s \in Sessions, Start(s) PROVE TypeOK'
  BY <1>2 DEF Start
<1>3. ASSUME NEW s \in Sessions, EndOfStream(s) PROVE TypeOK'
  BY <1>3 DEF EndOfStream, Exit
<1>4. ASSUME NEW s \in Sessions, InvalidName(s) PROVE TypeOK'
  BY <1>4 DEF InvalidName
<1>5. ASSUME NEW s \in Sessions, NEW n \in Names, ValidName(s, n) PROVE TypeOK'
  BY <1>5 DEF ValidName
<1>6. ASSUME NEW s \in Sessions, Line(s) PROVE TypeOK'
  BY <1>6 DEF Line
<1>7. ASSUME NEW s \in Sessions, Exists(s) PROVE TypeOK'
  BY <1>7 DEF Exists, Then
<1>8. ASSUME NEW s \in Sessions, GetUsernames(s) PROVE TypeOK'
  <2>1. Range(room) \in SUBSET Sessions
    BY DEF Range
  <2> QED
    BY <1>8, <2>1 DEF GetUsernames
<1>9. ASSUME NEW s \in Sessions, SendList(s) PROVE TypeOK'
  BY <1>9 DEF SendList, Then
<1>10. ASSUME NEW s \in Sessions, ReadStaleList(s) PROVE TypeOK'
  BY <1>10 DEF ReadStaleList
<1>11. ASSUME NEW s \in Sessions, Add(s) PROVE TypeOK'
  <2>1. room' \in Seq(Sessions) /\ stale' \in SUBSET Sessions
    <3>1. Append(room, s) \in Seq(Sessions)
      OBVIOUS
    <3> QED
      BY <1>11, <3>1 DEF Add, Outdate
  <2>2. pc' \in [Sessions -> Labels]
    BY <1>11 DEF Add
  <2> QED
    BY <1>11, <2>1, <2>2 DEF Add
<1>12. ASSUME NEW s \in Sessions, NEW l \in {"Enter", "Say", "Leave"}, Begin(s, l)
       PROVE  TypeOK'
  <2>1. Phase[l] \in Labels
    BY DEF Phase
  <2>2. Range(room) \ {s} \in SUBSET Sessions
    BY DEF Range
  <2>3. mutex' \in Sessions \union {None}
    BY <1>12 DEF Begin
  <2> QED
    BY <1>12, <2>1, <2>2, <2>3 DEF Begin
<1>13. ASSUME NEW s \in Sessions, NotFound(s) PROVE TypeOK'
  BY <1>13 DEF NotFound
<1>14. ASSUME NEW s \in Sessions, Skip(s) PROVE TypeOK'
  BY <1>14 DEF Skip
<1>15. ASSUME NEW s \in Sessions, Write(s) PROVE TypeOK'
  BY <1>15 DEF Write
<1>16. ASSUME NEW s \in Sessions, NEW l \in Broadcasting, WriteFails(s, l)
       PROVE  TypeOK'
  BY <1>16 DEF WriteFails, Reset
<1>17. ASSUME NEW s \in Sessions, NEW l \in Broadcasting, End(s, l)
       PROVE  TypeOK'
  <2>1. Then[l] \in Labels
    BY DEF Then
  <2> QED
    BY <1>17, <2>1 DEF End, Reset
<1>18. ASSUME NEW s \in Sessions, RemoveEntry(s) PROVE TypeOK'
  <2>1. room' \in Seq(Sessions)
    BY <1>18, IndexOfTaken, SwapRemoveProperties DEF RemoveEntry
  <2>2. stale' \in SUBSET Sessions
    BY <1>18 DEF RemoveEntry, Outdate
  <2> QED
    BY <1>18, <2>1, <2>2 DEF RemoveEntry
<1>19. ASSUME NEW s \in Sessions, Close(s) PROVE TypeOK'
  BY <1>19 DEF Close
<1>20. CASE UNCHANGED vars
  BY <1>20 DEF vars
<1> QED
  BY <1>1, <1>2, <1>3, <1>4, <1>5, <1>6, <1>7, <1>8, <1>9, <1>10, <1>11, <1>12,
     <1>13, <1>14, <1>15, <1>16, <1>17, <1>18, <1>19, <1>20
     DEF Next, Step, Peer, Rest

(* A step of s that leaves the map alone, and s its name and its deferred  *)
(* block.                                                                  *)
LEMMA RoomKept ==
  ASSUME TypeOK, RoomInv, NEW s \in Sessions, room' = room,
         \A u \in Sessions \ {s} : pc'[u] = pc[u] /\ name'[u] = name[u],
         InRoom(s) => pc'[s] \in Members /\ name'[s] = name[s]
  PROVE  RoomInv'
<1>1. \A i \in DOMAIN room : room[i] \in Sessions
  BY DEF TypeOK
<1>2. \A i \in DOMAIN room :
         name'[room[i]] = name[room[i]]
         /\ (pc'[room[i]] = pc[room[i]] \/ pc'[room[i]] \in Members)
  BY <1>1 DEF InRoom
<1> QED
  BY <1>2 DEF RoomInv

(* A newcomer's name is not in the map yet.                                *)
LEMMA RoomAdd ==
  ASSUME TypeOK, NameInv, RoomInv, NEW s \in Sessions, Add(s)
  PROVE  RoomInv'
<1>1. \A i \in DOMAIN room : room[i] \in Sessions
  BY DEF TypeOK
<1>2. pc[s] = "Add" /\ ~InRoom(s) /\ name[s] # None
  BY DEF Add, Go, RoomInv, InRoom, Members, NameInv
<1>3. CASE Taken(name[s])
  BY <1>2, <1>3, RoomKept DEF Add, Go, TypeOK
<1>4. CASE ~Taken(name[s])
  <2>1. /\ room' = Append(room, s) /\ name' = name
        /\ pc' = [pc EXCEPT ![s] = "Read"]
    BY <1>4 DEF Add, Go
  <2>2. /\ DOMAIN room = 1..Len(room) /\ Len(room) \in Nat
        /\ DOMAIN room' = 1..Len(room) + 1
        /\ room'[Len(room) + 1] = s
        /\ \A i \in 1..Len(room) : room'[i] = room[i]
    BY <2>1 DEF TypeOK
  <2>3. \A i \in 1..Len(room) :
           room[i] # s /\ name[room[i]] # name[s] /\ name[room[i]] # None
           /\ pc[room[i]] \in Members
    BY <1>2, <1>4, <2>2 DEF InRoom, Taken, RoomInv
  <2>4. \A i \in DOMAIN room' : name'[room'[i]] # None /\ pc'[room'[i]] \in Members
    BY <1>1, <1>2, <2>1, <2>2, <2>3 DEF TypeOK, Members
  <2>5. ASSUME NEW i \in DOMAIN room', NEW j \in DOMAIN room',
               name'[room'[i]] = name'[room'[j]]
        PROVE  i = j
    BY <2>1, <2>2, <2>3, <2>5 DEF RoomInv
  <2> QED
    BY <2>4, <2>5 DEF RoomInv
<1> QED
  BY <1>3, <1>4

(* The entry that goes is the leaver's own, if that is in the map.         *)
LEMMA RoomRemove ==
  ASSUME TypeOK, NameInv, RoomInv, NEW s \in Sessions, RemoveEntry(s)
  PROVE  RoomInv'
<1>1. /\ pc[s] = "Remove" /\ name' = name /\ pc' = [pc EXCEPT ![s] = "Close"]
      /\ DOMAIN room = 1..Len(room) /\ Len(room) \in Nat
      /\ \A i \in DOMAIN room : room[i] \in Sessions
  BY DEF RemoveEntry, Go, TypeOK
<1>2. CASE ~Taken(name[s])
  <2>1. room' = room /\ ~InRoom(s)
    BY <1>2 DEF RemoveEntry, InRoom, Taken
  <2> QED
    BY <1>1, <2>1, RoomKept DEF TypeOK
<1>3. CASE Taken(name[s])
  <2> DEFINE k == IndexOf(name[s])
  <2>1. k \in DOMAIN room /\ name[room[k]] = name[s]
    BY <1>3, IndexOfTaken
  <2>2. \A i \in DOMAIN room : i # k => room[i] # s
    BY <2>1 DEF RoomInv
  <2>3. room' = SwapRemove(room, k)
    BY <1>3 DEF RemoveEntry
  <2> HIDE DEF k
  <2>4. /\ DOMAIN room' = 1..Len(room) - 1
        /\ \A j \in 1..Len(room) - 1 :
             room'[j] = room[IF j = k THEN Len(room) ELSE j]
    BY <2>1, <2>3, SwapRemoveProperties, ZenonT(30) DEF TypeOK
  <2>5. \A j \in DOMAIN room' : \E i \in DOMAIN room \ {k} :
           room'[j] = room[i] /\ i = IF j = k THEN Len(room) ELSE j
    BY <1>1, <2>1, <2>4
  <2>6. \A j \in DOMAIN room' :
           name'[room'[j]] # None /\ pc'[room'[j]] \in Members
    BY <1>1, <2>2, <2>5 DEF RoomInv, TypeOK
  <2>7. ASSUME NEW i \in DOMAIN room', NEW j \in DOMAIN room',
               name'[room'[i]] = name'[room'[j]]
        PROVE  i = j
    BY <1>1, <2>1, <2>4, <2>5, <2>7 DEF RoomInv
  <2> QED
    BY <2>6, <2>7 DEF RoomInv
<1> QED
  BY <1>2, <1>3

LEMMA RoomStep ==
  TypeOK /\ NameInv /\ RoomInv /\ [Next]_vars => NameInv' /\ RoomInv'
<1> SUFFICES ASSUME TypeOK, NameInv, RoomInv, [Next]_vars
             PROVE  NameInv' /\ RoomInv'
  OBVIOUS
<1> DEFINE Quiet(s) == /\ room' = room
                       /\ \A u \in Sessions \ {s} :
                            pc'[u] = pc[u] /\ name'[u] = name[u]
                       /\ InRoom(s) => pc'[s] \in Members /\ name'[s] = name[s]
<1>q. ASSUME NEW s \in Sessions, Quiet(s) PROVE RoomInv'
  BY <1>q, RoomKept
<1>m. \A s \in Sessions : InRoom(s) => pc[s] \in Members /\ name[s] # None
  BY DEF InRoom, RoomInv
<1> USE ChatAssumption DEF ChatAssumption, Go, Members
<1>1. ASSUME NEW s \in Sessions, HangUp(s) PROVE NameInv' /\ Quiet(s)
  BY <1>1, <1>m DEF HangUp, NameInv, TypeOK
<1>2. ASSUME NEW s \in Sessions, Start(s) PROVE NameInv' /\ Quiet(s)
  BY <1>2, <1>m DEF Start, NameInv, TypeOK
<1>3. ASSUME NEW s \in Sessions, EndOfStream(s) PROVE NameInv' /\ Quiet(s)
  BY <1>3, <1>m DEF EndOfStream, Exit, NameInv, TypeOK
<1>4. ASSUME NEW s \in Sessions, InvalidName(s) PROVE NameInv' /\ Quiet(s)
  BY <1>4, <1>m DEF InvalidName, NameInv, TypeOK
<1>5. ASSUME NEW s \in Sessions, NEW n \in Names, ValidName(s, n)
      PROVE  NameInv' /\ Quiet(s)
  BY <1>5, <1>m DEF ValidName, NameInv, TypeOK
<1>6. ASSUME NEW s \in Sessions, Line(s) PROVE NameInv' /\ Quiet(s)
  BY <1>6, <1>m DEF Line, NameInv, TypeOK
<1>7. ASSUME NEW s \in Sessions, Exists(s) PROVE NameInv' /\ Quiet(s)
  BY <1>7, <1>m DEF Exists, Then, NameInv, TypeOK
<1>8. ASSUME NEW s \in Sessions, GetUsernames(s) PROVE NameInv' /\ Quiet(s)
  BY <1>8, <1>m DEF GetUsernames, NameInv, TypeOK
<1>9. ASSUME NEW s \in Sessions, SendList(s) PROVE NameInv' /\ Quiet(s)
  BY <1>9, <1>m DEF SendList, Then, NameInv, TypeOK
<1>10. ASSUME NEW s \in Sessions, ReadStaleList(s) PROVE NameInv' /\ Quiet(s)
  BY <1>10, <1>m DEF ReadStaleList, NameInv, TypeOK
<1>11. ASSUME NEW s \in Sessions, Add(s) PROVE NameInv' /\ RoomInv'
  <2>1. NameInv'
    BY <1>11 DEF Add, NameInv, TypeOK
  <2> QED
    BY <1>11, <2>1, RoomAdd
<1>12. ASSUME NEW s \in Sessions, NEW l \in {"Enter", "Say", "Leave"}, Begin(s, l)
       PROVE  NameInv' /\ Quiet(s)
  <2>1. /\ pc[s] = l /\ pc' = [pc EXCEPT ![s] = Phase[l]]
        /\ room' = room /\ name' = name
    BY <1>12 DEF Begin
  <2>2. /\ Phase[l] \in Broadcasting
        /\ l \in Members => Phase[l] \in Members
    BY DEF Phase, Broadcasting
  <2> QED
    BY <1>m, <2>1, <2>2 DEF NameInv, TypeOK, Broadcasting
<1>13. ASSUME NEW s \in Sessions, NotFound(s) PROVE NameInv' /\ Quiet(s)
  BY <1>13, <1>m, ZenonT(30) DEF NotFound, NameInv, TypeOK
<1>14. ASSUME NEW s \in Sessions, Skip(s) PROVE NameInv' /\ Quiet(s)
  BY <1>14, <1>m DEF Skip, NameInv, TypeOK
<1>15. ASSUME NEW s \in Sessions, Write(s) PROVE NameInv' /\ Quiet(s)
  BY <1>15, <1>m DEF Write, NameInv, TypeOK
<1>16. ASSUME NEW s \in Sessions, NEW l \in Broadcasting, WriteFails(s, l)
       PROVE  NameInv' /\ Quiet(s)
  BY <1>16, <1>m DEF WriteFails, NameInv, TypeOK, Broadcasting
<1>17. ASSUME NEW s \in Sessions, NEW l \in Broadcasting, End(s, l)
       PROVE  NameInv' /\ Quiet(s)
  <2>1. /\ pc[s] = l /\ pc' = [pc EXCEPT ![s] = Then[l]]
        /\ room' = room /\ name' = name
    BY <1>17 DEF End
  <2>2. /\ Then[l] \in {"Add", "Read", "Remove"}
        /\ l \in Members => Then[l] \in Members
    BY DEF Then, Broadcasting
  <2> QED
    BY <1>m, <2>1, <2>2 DEF NameInv, TypeOK, Broadcasting
<1>18. ASSUME NEW s \in Sessions, RemoveEntry(s) PROVE NameInv' /\ RoomInv'
  <2>1. NameInv'
    BY <1>18 DEF RemoveEntry, NameInv, TypeOK
  <2> QED
    BY <1>18, <2>1, RoomRemove
<1>19. ASSUME NEW s \in Sessions, Close(s) PROVE NameInv' /\ Quiet(s)
  BY <1>19, <1>m DEF Close, NameInv, TypeOK
<1>20. CASE UNCHANGED vars
  BY <1>20 DEF vars, NameInv, RoomInv
<1> HIDE DEF Quiet
<1> QED
  BY <1>q, <1>1, <1>2, <1>3, <1>4, <1>5, <1>6, <1>7, <1>8, <1>9, <1>10, <1>11,
     <1>12, <1>13, <1>14, <1>15, <1>16, <1>17, <1>18, <1>19, <1>20
     DEF Next, Step, Peer, Rest

LEMMA MutexStep == TypeOK /\ MutexInv /\ [Next]_vars => MutexInv'
<1> SUFFICES ASSUME TypeOK, MutexInv, [Next]_vars PROVE MutexInv'
  OBVIOUS
<1> USE ChatAssumption DEF ChatAssumption, TypeOK, MutexInv, Go
<1>1. ASSUME NEW s \in Sessions, HangUp(s) PROVE MutexInv'
  BY <1>1 DEF HangUp, Broadcasting
<1>2. ASSUME NEW s \in Sessions, Start(s) PROVE MutexInv'
  BY <1>2 DEF Start, Broadcasting
<1>3. ASSUME NEW s \in Sessions, EndOfStream(s) PROVE MutexInv'
  BY <1>3 DEF EndOfStream, Exit, Broadcasting
<1>4. ASSUME NEW s \in Sessions, InvalidName(s) PROVE MutexInv'
  BY <1>4 DEF InvalidName, Broadcasting
<1>5. ASSUME NEW s \in Sessions, NEW n \in Names, ValidName(s, n)
      PROVE  MutexInv'
  BY <1>5 DEF ValidName, Broadcasting
<1>6. ASSUME NEW s \in Sessions, Line(s) PROVE MutexInv'
  BY <1>6 DEF Line, Broadcasting
<1>7. ASSUME NEW s \in Sessions, Exists(s) PROVE MutexInv'
  BY <1>7 DEF Exists, Then, Broadcasting
<1>8. ASSUME NEW s \in Sessions, GetUsernames(s) PROVE MutexInv'
  BY <1>8 DEF GetUsernames, Broadcasting
<1>9. ASSUME NEW s \in Sessions, SendList(s) PROVE MutexInv'
  BY <1>9, ZenonT(30) DEF SendList, Then, Broadcasting
<1>10. ASSUME NEW s \in Sessions, ReadStaleList(s) PROVE MutexInv'
  BY <1>10 DEF ReadStaleList, Broadcasting
<1>11. ASSUME NEW s \in Sessions, Add(s) PROVE MutexInv'
  BY <1>11 DEF Add, Broadcasting
<1>12. ASSUME NEW s \in Sessions, NEW l \in {"Enter", "Say", "Leave"}, Begin(s, l)
       PROVE  MutexInv'
  <2>1. Phase[l] \in Broadcasting
    BY DEF Phase, Broadcasting
  <2> QED
    BY <1>12, <2>1 DEF Begin
<1>13. ASSUME NEW s \in Sessions, NotFound(s) PROVE MutexInv'
  BY <1>13 DEF NotFound, Broadcasting
<1>14. ASSUME NEW s \in Sessions, Skip(s) PROVE MutexInv'
  BY <1>14 DEF Skip, Broadcasting
<1>15. ASSUME NEW s \in Sessions, Write(s) PROVE MutexInv'
  BY <1>15 DEF Write, Broadcasting
<1>16. ASSUME NEW s \in Sessions, NEW l \in Broadcasting, WriteFails(s, l)
       PROVE  MutexInv'
  BY <1>16 DEF WriteFails, Broadcasting
<1>17. ASSUME NEW s \in Sessions, NEW l \in Broadcasting, End(s, l)
       PROVE  MutexInv'
  <2>1. Then[l] \notin Broadcasting
    BY DEF Then, Broadcasting
  <2> QED
    BY <1>17, <2>1 DEF End
<1>18. ASSUME NEW s \in Sessions, RemoveEntry(s) PROVE MutexInv'
  BY <1>18 DEF RemoveEntry, Broadcasting
<1>19. ASSUME NEW s \in Sessions, Close(s) PROVE MutexInv'
  BY <1>19 DEF Close, Broadcasting
<1>20. CASE UNCHANGED vars
  BY <1>20 DEF vars
<1> QED
  BY <1>1, <1>2, <1>3, <1>4, <1>5, <1>6, <1>7, <1>8, <1>9, <1>10, <1>11,
     <1>12, <1>13, <1>14, <1>15, <1>16, <1>17, <1>18, <1>19, <1>20
     DEF Next, Step, Peer, Rest

(* A step of s that does not broadcast: nobody else's broadcast notices.   *)
LEMMA OwedKept ==
  ASSUME TypeOK, OwedInv, NEW s \in Sessions, room' = room,
         \A v \in Sessions \ {s} : /\ pc'[v] = pc[v] /\ name'[v] = name[v]
                                   /\ at'[v] = at[v] /\ owed'[v] = owed[v],
         pc'[s] \notin Broadcasting, InRoom(s) => name'[s] = name[s]
  PROVE  OwedInv'
<1> SUFFICES ASSUME NEW v \in Sessions, pc'[v] \in Broadcasting, NEW u \in owed'[v]
             PROVE  /\ u # v
                    /\ \E i \in DOMAIN room' :
                         /\ room'[i] = u
                         /\ \/ i >= at'[v]
                            \/ pc'[v] # "Entering" /\ name'[u] = name'[v]
  BY DEF OwedInv
<1>1. v # s /\ pc[v] \in Broadcasting /\ u \in owed[v] /\ u \in Sessions
  BY DEF TypeOK
<1>2. /\ u # v
      /\ \E i \in DOMAIN room :
           /\ room[i] = u
           /\ i >= at[v] \/ (pc[v] # "Entering" /\ name[u] = name[v])
  BY <1>1 DEF OwedInv
<1>3. name'[u] = name[u]
  BY <1>1, <1>2 DEF InRoom
<1> QED
  BY <1>1, <1>2, <1>3

(* Nothing is broadcast while the mutex is free.                           *)
LEMMA OwedNone ==
  ASSUME MutexInv, ChatAssumption, mutex = None, NEW s \in Sessions,
         \A v \in Sessions \ {s} : pc'[v] = pc[v], pc'[s] \notin Broadcasting
  PROVE  OwedInv'
BY DEF MutexInv, OwedInv, ChatAssumption

LEMMA OwedBegin ==
  ASSUME TypeOK, MutexInv, NEW s \in Sessions,
         NEW l \in {"Enter", "Say", "Leave"}, Begin(s, l)
  PROVE  OwedInv'
<1>1. \A v \in Sessions : pc[v] \notin Broadcasting
  BY ChatAssumption DEF ChatAssumption, Begin, MutexInv
<1>2. /\ pc' = [pc EXCEPT ![s] = Phase[l]]
      /\ room' = room /\ at' = [at EXCEPT ![s] = 1]
      /\ owed' = [owed EXCEPT ![s] = Range(room) \ {s}]
  BY DEF Begin, Go
<1>3. ASSUME NEW u \in owed'[s]
      PROVE  u # s /\ \E i \in DOMAIN room : room[i] = u /\ i >= 1
  BY <1>2, <1>3 DEF TypeOK, Range
<1> QED
  BY <1>1, <1>2, <1>3 DEF OwedInv, TypeOK

(* The place moves on past the entry under the sender's name ...           *)
LEMMA OwedSkip ==
  ASSUME TypeOK, OwedInv, NEW s \in Sessions, Skip(s)
  PROVE  OwedInv'
<1>1. /\ pc[s] \in Broadcasting /\ at[s] \in DOMAIN room /\ at[s] = Skipped(s)
      /\ at' = [at EXCEPT ![s] = @ + 1]
      /\ pc' = pc /\ room' = room /\ name' = name /\ owed' = owed
  BY DEF Skip, history
<1>2. pc[s] # "Entering" /\ name[room[at[s]]] = name[s]
  <2>1. at[s] # 0
    BY <1>1 DEF TypeOK
  <2> QED
    BY <1>1, <2>1, IndexOfTaken DEF Skipped
<1>3. ASSUME NEW u \in owed[s]
      PROVE  \E i \in DOMAIN room :
               room[i] = u /\ (i >= at[s] + 1 \/ name[u] = name[s])
  <2>1. PICK i \in DOMAIN room :
          room[i] = u /\ (i >= at[s] \/ name[u] = name[s])
    BY <1>1 DEF OwedInv
  <2>2. CASE i = at[s]
    BY <1>2, <2>1, <2>2
  <2>3. CASE i # at[s]
    BY <2>1, <2>3 DEF TypeOK
  <2> QED
    BY <2>2, <2>3
<1> QED
  BY <1>1, <1>2, <1>3 DEF OwedInv, TypeOK

(* ... and past those that have been written to.                           *)
LEMMA OwedWrite ==
  ASSUME TypeOK, OwedInv, NEW s \in Sessions, Write(s)
  PROVE  OwedInv'
<1>1. /\ pc[s] \in Broadcasting /\ at[s] \in DOMAIN room
      /\ at' = [at EXCEPT ![s] = @ + 1]
      /\ owed' = [owed EXCEPT ![s] = @ \ {room[at[s]]}]
      /\ pc' = pc /\ room' = room /\ name' = name
  BY DEF Write
<1>2. ASSUME NEW u \in owed'[s]
      PROVE  /\ u # s
             /\ \E i \in DOMAIN room :
                  /\ room[i] = u
                  /\ \/ i >= at[s] + 1
                     \/ pc[s] # "Entering" /\ name[u] = name[s]
  <2>1. u \in owed[s] /\ u # room[at[s]]
    BY <1>1 DEF TypeOK
  <2>2. /\ u # s
        /\ \E i \in DOMAIN room :
             /\ room[i] = u
             /\ i >= at[s] \/ (pc[s] # "Entering" /\ name[u] = name[s])
    BY <1>1, <2>1 DEF OwedInv
  <2> QED
    BY <2>1, <2>2 DEF TypeOK
<1> QED
  BY <1>1, <1>2 DEF OwedInv, TypeOK

LEMMA OwedStep ==
  TypeOK /\ RoomInv /\ MutexInv /\ OwedInv /\ [Next]_vars => OwedInv'
<1> SUFFICES ASSUME TypeOK, RoomInv, MutexInv, OwedInv, [Next]_vars PROVE OwedInv'
  OBVIOUS
<1>m. \A s \in Sessions : InRoom(s) => pc[s] \in Members /\ name[s] # None
  BY DEF InRoom, RoomInv
<1> USE ChatAssumption DEF Go, Broadcasting, Members, history
<1>1. ASSUME NEW s \in Sessions, HangUp(s) PROVE OwedInv'
  BY <1>1 DEF HangUp, OwedInv
<1>2. ASSUME NEW s \in Sessions, Start(s) PROVE OwedInv'
  BY <1>2, OwedKept, <1>m DEF Start, TypeOK
<1>3. ASSUME NEW s \in Sessions, EndOfStream(s) PROVE OwedInv'
  BY <1>3, OwedKept, <1>m DEF EndOfStream, Exit, TypeOK
<1>4. ASSUME NEW s \in Sessions, InvalidName(s) PROVE OwedInv'
  BY <1>4, OwedKept, <1>m DEF InvalidName, TypeOK
<1>5. ASSUME NEW s \in Sessions, NEW n \in Names, ValidName(s, n)
      PROVE  OwedInv'
  BY <1>5, OwedKept, <1>m DEF ValidName, TypeOK
<1>6. ASSUME NEW s \in Sessions, Line(s) PROVE OwedInv'
  BY <1>6, OwedKept, <1>m DEF Line, TypeOK
<1>7. ASSUME NEW s \in Sessions, Exists(s) PROVE OwedInv'
  BY <1>7, OwedKept, <1>m DEF Exists, Then, TypeOK
<1>8. ASSUME NEW s \in Sessions, GetUsernames(s) PROVE OwedInv'
  BY <1>8, OwedKept, <1>m DEF GetUsernames, TypeOK
<1>9. ASSUME NEW s \in Sessions, SendList(s) PROVE OwedInv'
  BY <1>9, OwedKept, <1>m DEF SendList, Then, TypeOK
<1>10. ASSUME NEW s \in Sessions, ReadStaleList(s) PROVE OwedInv'
  BY <1>10, OwedKept, <1>m DEF ReadStaleList, TypeOK
<1>11. ASSUME NEW s \in Sessions, Add(s) PROVE OwedInv'
  BY <1>11, OwedNone DEF Add, TypeOK
<1>12. ASSUME NEW s \in Sessions, NEW l \in {"Enter", "Say", "Leave"}, Begin(s, l)
       PROVE  OwedInv'
  BY <1>12, OwedBegin
<1>13. ASSUME NEW s \in Sessions, NotFound(s) PROVE OwedInv'
  BY <1>13, OwedKept, <1>m DEF NotFound, TypeOK
<1>14. ASSUME NEW s \in Sessions, Skip(s) PROVE OwedInv'
  BY <1>14, OwedSkip
<1>15. ASSUME NEW s \in Sessions, Write(s) PROVE OwedInv'
  BY <1>15, OwedWrite
<1>16. ASSUME NEW s \in Sessions, NEW l \in Broadcasting, WriteFails(s, l)
       PROVE  OwedInv'
  BY <1>16, OwedKept, <1>m DEF WriteFails, TypeOK, Reset
<1>17. ASSUME NEW s \in Sessions, NEW l \in Broadcasting, End(s, l)
       PROVE  OwedInv'
  <2>1. Then[l] \notin Broadcasting
    BY DEF Then, Broadcasting
  <2> QED
    BY <1>17, <2>1, OwedKept DEF End, Reset, TypeOK
<1>18. ASSUME NEW s \in Sessions, RemoveEntry(s) PROVE OwedInv'
  BY <1>18, OwedNone DEF RemoveEntry, TypeOK
<1>19. ASSUME NEW s \in Sessions, Close(s) PROVE OwedInv'
  BY <1>19, OwedKept, <1>m DEF Close, TypeOK
<1>20. CASE UNCHANGED vars
  BY <1>20 DEF vars, OwedInv
<1> QED
  BY <1>1, <1>2, <1>3, <1>4, <1>5, <1>6, <1>7, <1>8, <1>9, <1>10, <1>11,
     <1>12, <1>13, <1>14, <1>15, <1>16, <1>17, <1>18, <1>19, <1>20
     DEF Next, Step, Peer, Rest
(* A step by which nobody comes into the room: lists do not grow, or are   *)
(* of who is there; and an announcement begins with everybody there, and   *)
(* ends when it is owed to nobody.                                         *)
LEMMA ListKept ==
  ASSUME ListInv,
         \A u \in Sessions : HasJoined(u) => HasJoined(u)',
         \A u \in Sessions : InRoom(u)' => InRoom(u),
         \A u \in Sessions : told[u] \subseteq told'[u],
         \A v \in Sessions :
            \/ listed'[v] \subseteq listed[v]
            \/ /\ \A u \in listed'[v] : HasJoined(u)
               /\ pc'[v] = "Listing" /\ ~InRoom(v),
         \A v \in Sessions : pc'[v] = "Entering" =>
            \/ \A u \in Sessions : InRoom(u) => u \in owed'[v]
            \/ /\ pc[v] = "Entering"
               /\ \A u \in owed[v] : u \in owed'[v] \/ v \in told'[u],
         \A v \in Sessions : pc'[v] = "Add" =>
            \/ pc[v] = "Add"
            \/ pc[v] = "Entering" /\ owed[v] = {},
         \A v \in Sessions : listed'[v] \subseteq Sessions
  PROVE  ListInv'
<1> SUFFICES ASSUME NEW v \in Sessions, NEW u \in listed'[v]
             PROVE  /\ HasJoined(u)'
                    /\ pc'[v] = "Entering" /\ InRoom(u)' =>
                         u \in owed'[v] \/ v \in told'[u]
                    /\ (pc'[v] = "Add" \/ InRoom(v)') /\ InRoom(u)' =>
                         v \in told'[u]
  BY DEF ListInv
<1>1. u \in Sessions
  OBVIOUS
<1>2. CASE u \in listed[v]
  <2>1. /\ HasJoined(u)
        /\ pc[v] = "Entering" /\ InRoom(u) => u \in owed[v] \/ v \in told[u]
        /\ (pc[v] = "Add" \/ InRoom(v)) /\ InRoom(u) => v \in told[u]
    BY <1>2 DEF ListInv
  <2> QED
    BY <1>1, <2>1
<1>3. CASE u \notin listed[v]
  BY <1>1, <1>3
<1> QED
  BY <1>2, <1>3

(* Who comes into the room is on no list yet, and has told it to whoever   *)
(* is on its own.                                                          *)
LEMMA ListAdd ==
  ASSUME TypeOK, RoomInv, ListInv, NEW s \in Sessions, Add(s)
  PROVE  ListInv'
<1>1. /\ pc[s] = "Add" /\ pc'[s] \in {"Read", "Leave"} /\ name' = name
      /\ \A u \in Sessions \ {s} : pc'[u] = pc[u]
      /\ listed' = listed /\ owed' = owed /\ told' = told
  BY DEF Add, Go, history, TypeOK
<1>2. ASSUME NEW u \in Sessions \ {s}, InRoom(u)' PROVE InRoom(u)
  <2>1. room' = room \/ room' = Append(room, s)
    BY DEF Add
  <2>2. PICK i \in DOMAIN room' : room'[i] = u
    BY <1>2 DEF InRoom
  <2>3. i \in DOMAIN room /\ room[i] = u
    <3>1. room \in Seq(Sessions) /\ u # s
      BY DEF TypeOK
    <3>2. CASE room' = room
      BY <2>2, <3>2
    <3>3. CASE room' = Append(room, s)
      <4>1. /\ DOMAIN room = 1..Len(room) /\ DOMAIN room' = 1..Len(room) + 1
            /\ room'[Len(room) + 1] = s
            /\ \A j \in 1..Len(room) : room'[j] = room[j]
        BY <3>1, <3>3
      <4> QED
        BY <2>2, <3>1, <4>1
    <3> QED
      BY <2>1, <3>2, <3>3
  <2> QED
    BY <2>3 DEF InRoom
<1>3. ~HasJoined(s)
  BY <1>1 DEF HasJoined, Members
<1> SUFFICES ASSUME NEW v \in Sessions, NEW u \in listed[v]
             PROVE  /\ HasJoined(u)'
                    /\ pc'[v] = "Entering" /\ InRoom(u)' =>
                         u \in owed[v] \/ v \in told[u]
                    /\ (pc'[v] = "Add" \/ InRoom(v)') /\ InRoom(u)' =>
                         v \in told[u]
  BY <1>1 DEF ListInv
<1>4. /\ HasJoined(u)
      /\ pc[v] = "Entering" /\ InRoom(u) => u \in owed[v] \/ v \in told[u]
      /\ (pc[v] = "Add" \/ InRoom(v)) /\ InRoom(u) => v \in told[u]
  BY DEF ListInv
<1>5. u # s /\ u \in Sessions
  BY <1>3, <1>4 DEF TypeOK
<1>6. HasJoined(u)'
  BY <1>1, <1>4, <1>5 DEF HasJoined
<1>7. InRoom(u)' => InRoom(u)
  BY <1>2, <1>5
<1> QED
  BY <1>1, <1>2, <1>4, <1>6, <1>7

(* A removal brings nobody into the room.                                  *)
LEMMA RemoveEntryShrinks ==
  ASSUME TypeOK, NEW s \in Sessions, RemoveEntry(s), NEW u, InRoom(u)'
  PROVE  InRoom(u)
<1>1. CASE ~Taken(name[s])
  BY <1>1 DEF RemoveEntry, InRoom
<1>2. CASE Taken(name[s])
  <2> DEFINE k == IndexOf(name[s])
  <2>1. k \in DOMAIN room
    BY <1>2, IndexOfTaken
  <2>2. room' = SwapRemove(room, k)
    BY <1>2 DEF RemoveEntry
  <2> HIDE DEF k
  <2>r. room \in Seq(Sessions)
    BY DEF TypeOK
  <2>3. /\ DOMAIN room' = 1..Len(room) - 1
        /\ \A j \in 1..Len(room) - 1 :
             room'[j] = room[IF j = k THEN Len(room) ELSE j]
    BY <2>1, <2>2, <2>r, SwapRemoveProperties
  <2>4. PICK j \in 1..Len(room) - 1 : room'[j] = u
    BY <2>3 DEF InRoom
  <2>5. (IF j = k THEN Len(room) ELSE j) \in DOMAIN room
    BY <2>4 DEF TypeOK
  <2> QED
    BY <2>3, <2>4, <2>5 DEF InRoom
<1> QED
  BY <1>1, <1>2

LEMMA ListStep ==
  TypeOK /\ NameInv /\ RoomInv /\ OwedInv /\ ListInv /\ [Next]_vars => ListInv'
<1> SUFFICES ASSUME TypeOK, NameInv, RoomInv, OwedInv, ListInv, [Next]_vars
             PROVE  ListInv'
  OBVIOUS
<1>t. TypeOK'
  BY TypeStep
<1>l. \A v \in Sessions : listed'[v] \subseteq Sessions
  BY <1>t DEF TypeOK
<1>m. \A s \in Sessions : InRoom(s) => pc[s] \in Members /\ name[s] # None
  BY DEF InRoom, RoomInv
<1> DEFINE Keeps ==
      /\ \A u \in Sessions : HasJoined(u) => HasJoined(u)'
      /\ \A u \in Sessions : InRoom(u)' => InRoom(u)
      /\ \A u \in Sessions : told[u] \subseteq told'[u]
      /\ \A v \in Sessions : listed'[v] \subseteq listed[v]
      /\ \A v \in Sessions : pc'[v] = "Entering" =>
            \/ \A u \in Sessions : InRoom(u) => u \in owed'[v]
            \/ /\ pc[v] = "Entering"
               /\ \A u \in owed[v] : u \in owed'[v] \/ v \in told'[u]
      /\ \A v \in Sessions : pc'[v] = "Add" =>
            \/ pc[v] = "Add"
            \/ pc[v] = "Entering" /\ owed[v] = {}
<1>k. ASSUME Keeps PROVE ListInv'
  BY <1>k, <1>l, ListKept
<1> USE DEF Go, Broadcasting, Members, history, TypeOK, HasJoined, InRoom
<1>1. ASSUME NEW s \in Sessions, HangUp(s) PROVE Keeps
  BY <1>1 DEF HangUp
<1>2. ASSUME NEW s \in Sessions, Start(s) PROVE Keeps
  BY <1>2 DEF Start
<1>3. ASSUME NEW s \in Sessions, EndOfStream(s) PROVE Keeps
  BY <1>3 DEF EndOfStream, Exit
<1>4. ASSUME NEW s \in Sessions, InvalidName(s) PROVE Keeps
  BY <1>4 DEF InvalidName
<1>5. ASSUME NEW s \in Sessions, NEW n \in Names, ValidName(s, n) PROVE Keeps
  BY <1>5 DEF ValidName
<1>6. ASSUME NEW s \in Sessions, Line(s) PROVE Keeps
  BY <1>6 DEF Line
<1>7. ASSUME NEW s \in Sessions, Exists(s) PROVE Keeps
  BY <1>7 DEF Exists, Then
<1>8. ASSUME NEW s \in Sessions, GetUsernames(s) PROVE ListInv'
  <2>1. /\ pc[s] = "List" /\ pc' = [pc EXCEPT ![s] = "Listing"]
        /\ listed' = [listed EXCEPT ![s] = Range(room)]
        /\ name' = name /\ room' = room /\ owed' = owed /\ told' = told
    BY <1>8 DEF GetUsernames
  <2>2. \A u \in Range(room) : u \in Sessions /\ HasJoined(u)
    BY <1>m DEF Range
  <2>3. ~InRoom(s)
    BY <1>m, <2>1
  <2>4. \A u \in Sessions : HasJoined(u) => HasJoined(u)'
    BY <2>1
  <2>5. \A u \in Sessions : InRoom(u)' => InRoom(u)
    BY <2>1
  <2>6. \A v \in Sessions :
            \/ listed'[v] \subseteq listed[v]
            \/ /\ \A u \in listed'[v] : HasJoined(u)
               /\ pc'[v] = "Listing" /\ ~InRoom(v)
    BY <2>1, <2>2, <2>3
  <2>7. \A v \in Sessions : /\ pc'[v] = "Entering" => pc[v] = "Entering"
                            /\ pc'[v] = "Add" => pc[v] = "Add"
    BY <2>1
  <2> HIDE DEF HasJoined, InRoom
  <2> QED
    BY <1>l, <2>1, <2>4, <2>5, <2>6, <2>7, ListKept
<1>9. ASSUME NEW s \in Sessions, SendList(s) PROVE Keeps
  BY <1>9 DEF SendList, Then
<1>10. ASSUME NEW s \in Sessions, ReadStaleList(s) PROVE Keeps
  BY <1>10 DEF ReadStaleList
<1>11. ASSUME NEW s \in Sessions, Add(s) PROVE ListInv'
  BY <1>11, ListAdd
<1>12. ASSUME NEW s \in Sessions, NEW l \in {"Enter", "Say", "Leave"}, Begin(s, l)
       PROVE  Keeps
  <2>1. /\ pc[s] = l /\ pc' = [pc EXCEPT ![s] = Phase[l]]
        /\ owed' = [owed EXCEPT ![s] = Range(room) \ {s}]
        /\ name' = name /\ room' = room /\ listed' = listed /\ told' = told
    BY <1>12 DEF Begin
  <2>2. /\ Phase[l] \in Broadcasting
        /\ Phase[l] = "Entering" <=> l = "Enter"
    BY DEF Phase
  <2>3. ASSUME l = "Enter", NEW u \in Sessions, InRoom(u) PROVE u \in owed'[s]
    <3>1. u # s
      BY <2>1, <2>3 DEF RoomInv
    <3>2. u \in Range(room)
      BY <2>3 DEF Range
    <3> QED
      BY <2>1, <3>1, <3>2
  <2> QED
    BY <2>1, <2>2, <2>3
<1>13. ASSUME NEW s \in Sessions, NotFound(s) PROVE Keeps
  BY <1>13 DEF NotFound
<1>14. ASSUME NEW s \in Sessions, Skip(s) PROVE Keeps
  BY <1>14 DEF Skip
<1>15. ASSUME NEW s \in Sessions, Write(s) PROVE Keeps
  <2>1. /\ at[s] \in DOMAIN room /\ room[at[s]] \in Sessions
        /\ owed' = [owed EXCEPT ![s] = @ \ {room[at[s]]}]
        /\ told' = [told EXCEPT ![room[at[s]]] =
                      IF pc[s] = "Entering" THEN @ \union {s} ELSE @]
        /\ pc' = pc /\ name' = name /\ room' = room /\ listed' = listed
    BY <1>15 DEF Write
  <2> QED
    BY <2>1
<1>16. ASSUME NEW s \in Sessions, NEW l \in Broadcasting, WriteFails(s, l)
       PROVE  Keeps
  BY <1>16 DEF WriteFails, Reset
<1>17. ASSUME NEW s \in Sessions, NEW l \in Broadcasting, End(s, l)
       PROVE  Keeps
  <2>1. /\ pc[s] = l /\ pc' = [pc EXCEPT ![s] = Then[l]]
        /\ owed' = [owed EXCEPT ![s] = {}] /\ at[s] > Len(room)
        /\ name' = name /\ room' = room /\ listed' = listed /\ told' = told
    BY <1>17 DEF End, Reset
  <2>2. /\ Then[l] \in {"Add", "Read", "Remove"}
        /\ Then[l] = "Add" <=> l = "Entering"
        /\ l # "Entering" => Then[l] \in Members
        /\ Then[l] = "Read" => l = "Saying"
    BY DEF Then
  <2>3. l = "Entering" => owed[s] = {}
    BY <2>1 DEF OwedInv
  <2>4. name[s] # None
    BY <2>1 DEF NameInv
  <2> QED
    BY <2>1, <2>2, <2>3, <2>4
<1>18. ASSUME NEW s \in Sessions, RemoveEntry(s) PROVE Keeps
  <2>1. /\ pc[s] = "Remove" /\ pc' = [pc EXCEPT ![s] = "Close"]
        /\ name' = name /\ listed' = listed /\ told' = told /\ owed' = owed
    BY <1>18 DEF RemoveEntry
  <2>2. \A u \in Sessions : InRoom(u)' => InRoom(u)
    BY <1>18, RemoveEntryShrinks
  <2> HIDE DEF InRoom
  <2> QED
    BY <2>1, <2>2
<1>19. ASSUME NEW s \in Sessions, Close(s) PROVE Keeps
  BY <1>19 DEF Close
<1>20. CASE UNCHANGED vars
  BY <1>20 DEF vars, ListInv
<1> HIDE DEF Keeps
<1> QED
  BY <1>k, <1>1, <1>2, <1>3, <1>4, <1>5, <1>6, <1>7, <1>8, <1>9, <1>10, <1>11,
     <1>12, <1>13, <1>14, <1>15, <1>16, <1>17, <1>18, <1>19, <1>20
     DEF Next, Step, Peer, Rest

-----------------------------------------------------------------------------
LEMMA InitInv == Init => ChatInv
<1> SUFFICES ASSUME Init PROVE ChatInv
  OBVIOUS
<1> USE ChatAssumption DEF ChatAssumption, Init
<1>1. TypeOK
  <2>1. room \in Seq(Sessions)
    OBVIOUS
  <2>2. /\ pc \in [Sessions -> Labels] /\ name \in [Sessions -> Names \union {None}]
        /\ at \in [Sessions -> Nat]
    BY DEF Labels
  <2> QED
    BY <2>1, <2>2 DEF TypeOK
<1>2. NameInv /\ RoomInv
  BY DEF NameInv, RoomInv
<1>3. MutexInv /\ OwedInv
  BY DEF MutexInv, OwedInv, Broadcasting
<1>4. ListInv
  BY DEF ListInv
<1> QED
  BY <1>1, <1>2, <1>3, <1>4 DEF ChatInv

LEMMA StepInv == ChatInv /\ [Next]_vars => ChatInv'
BY TypeStep, RoomStep, MutexStep, OwedStep, ListStep DEF ChatInv

(* Whatever clients join, talk and leave in whatever order, with however   *)
(* many threads: the mutex has one holder, the one that broadcasts         *)
(* (main.zig:96-123); and the entries of the map have different names, and *)
(* belong to calls whose deferred block is still to come (168-179).        *)
THEOREM ChatInvariant == Spec => []ChatInv
<1> QED
  BY InitInv, StepInv, PTL DEF Spec

(* The map never holds the entry of a call of handle_connection that has   *)
(* returned, in whose stack frame the entry's key was: the deferred block  *)
(* removes an entry by name (main.zig:168-179), which may be that of       *)
(* another client, but then its own is not there.                          *)
THEOREM EntriesAreLive == Spec => []LiveEntries
<1>1. ChatInv => LiveEntries
  <2> SUFFICES ASSUME ChatInv, NEW s \in Sessions, InRoom(s)
               PROVE  pc[s] \notin {"Close", "Done"}
    BY DEF LiveEntries
  <2> QED
    BY DEF ChatInv, RoomInv, InRoom, Members
<1> QED
  BY <1>1, ChatInvariant, PTL

(* A broadcast that comes to the end of the map owes its message to nobody *)
(* who was there when it began and is not its sender (main.zig:96-123):    *)
(* the mutex keeps the swapRemove of a removal (90-94) from moving an      *)
(* entry past it.  Only a sender that is not in the room itself misses     *)
(* somebody: the client that is there under its name.                      *)
THEOREM BroadcastReachesOthers == Spec => []ReachesAllButNamesake
<1>1. ChatInv => ReachesAllButNamesake
  <2> SUFFICES ASSUME ChatInv, NEW s \in Sessions, pc[s] \in Broadcasting,
                      at[s] > Len(room), NEW u \in owed[s]
               PROVE  pc[s] # "Entering" /\ ~InRoom(s) /\ name[u] = name[s]
    BY DEF ReachesAllButNamesake
  <2>1. PICK i \in DOMAIN room : room[i] = u
    BY DEF ChatInv, OwedInv
  <2>2. u # s /\ pc[s] # "Entering" /\ name[u] = name[s]
    BY DEF ChatInv, TypeOK, OwedInv
  <2>3. ~InRoom(s)
    BY <2>1, <2>2 DEF ChatInv, RoomInv, InRoom
  <2> QED
    BY <2>2, <2>3
<1> QED
  BY <1>1, ChatInvariant, PTL

(* Of two clients in the room, one that is on the other's list has been    *)
(* told of the other's arrival (main.zig:237-273), although the list, the  *)
(* announcement and the adding are critical sections of their own.         *)
THEOREM ListedAreTold == Spec => []ListedWereTold
<1>1. ChatInv => ListedWereTold
  BY DEF ChatInv, ListInv, ListedWereTold
<1> QED
  BY <1>1, ChatInvariant, PTL
=============================================================================
