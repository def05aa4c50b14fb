--------------------------- MODULE ByteQueueProofs ---------------------------
(* The byte queue's invariant, for buffers and pushes of every size.       *)
EXTENDS ByteQueue, TLAPS

(* Pushes are sequences of bytes.                                          *)
LEMMA PushesAreSequences == \A b \in Pushes : b \in Seq(Bytes)
  BY QueueAssumption DEF Pushes

(* Writing behind head leaves the bytes before it alone.                   *)
LEMMA WriteKeeps ==
  ASSUME NEW c \in Nat \ {0}, NEW d \in [1..c -> Bytes \union {Junk}],
         NEW h \in Nat, NEW b \in Seq(Bytes)
  PROVE  /\ Write(d, h, b) \in [1..c -> Bytes \union {Junk}]
         /\ \A i \in 1..c : i <= h => Write(d, h, b)[i] = d[i]
         /\ \A i \in 1..Len(b) : h + i <= c => Write(d, h, b)[h + i] = b[i]
  <1>1. DOMAIN d = 1..c
    OBVIOUS
  <1>2. \A i \in 1..c : h < i /\ i <= h + Len(b) =>
          i - h \in 1..Len(b) /\ b[i - h] \in Bytes
    OBVIOUS
  <1>3. Write(d, h, b) \in [1..c -> Bytes \union {Junk}]
    BY <1>1, <1>2 DEF Write
  <1>4. \A i \in 1..c : i <= h => Write(d, h, b)[i] = d[i]
    BY <1>1 DEF Write
  <1>5. ASSUME NEW i \in 1..Len(b), h + i <= c
        PROVE  Write(d, h, b)[h + i] = b[i]
    <2>1. h + i \in 1..c /\ h < h + i /\ h + i <= h + Len(b) /\ (h + i) - h = i
      BY <1>5
    <2>2. QED
      BY <2>1, <1>1 DEF Write
  <1>6. QED
    BY <1>3, <1>4, <1>5

(* When nothing is too full, the bytes fit, with a byte to spare.          *)
LEMMA RoomLeft ==
  ASSUME TypeOK, NEW m \in Nat \ {0}, NEW free \in Int, ~TooFull(m, free)
  PROVE  m < free /\ size < free
  BY SMT DEF TooFull, TypeOK

LEMMA InitQueue == Init => QueueInv
  <1> SUFFICES ASSUME Init PROVE QueueInv
    OBVIOUS
  <1>1. TypeOK
    BY QueueAssumption DEF Init, TypeOK
  <1>2. FieldsAgree /\ AlwaysRoom /\ CopyFits /\ Contents /\ Received
        /\ Expanding /\ Calls
    BY QueueAssumption
    DEF Init, FieldsAgree, AlwaysRoom, CopyFits, Contents, Received, Expanding,
        Calls
  <1>3. QED
    BY <1>1, <1>2 DEF QueueInv

(* queue_push's call begins.                                               *)
LEMMA PushStep ==
  ASSUME QueueInv, NEW b \in Seq(Bytes), Push(b)
  PROVE  QueueInv'
  <1> USE DEF QueueInv, TypeOK, FieldsAgree, AlwaysRoom, Push, fields
  <1>1. Len(b) \in Nat \ {0}
    OBVIOUS
  <1>2. TypeOK' /\ FieldsAgree' /\ AlwaysRoom'
    BY <1>1
  <1>3. CopyFits'
    <2>1. CASE TooFull(Len(b), free_capacity)
      BY <2>1 DEF CopyFits
    <2>2. CASE ~TooFull(Len(b), free_capacity)
      BY <1>1, <2>2, RoomLeft DEF CopyFits, n
    <2>3. QED
      BY <2>1, <2>2
  <1>4. Contents' /\ Received' /\ Expanding' /\ Calls'
    BY <1>1 DEF Contents, Received, Expanding, Calls
  <1>5. QED
    BY <1>2, <1>3, <1>4

(* recv fills free space, and queue_push_ex's call begins.                 *)
LEMMA RecvStep ==
  ASSUME QueueInv, NEW b \in Seq(Bytes), Recv(b)
  PROVE  QueueInv'
  <1> USE DEF QueueInv, TypeOK, FieldsAgree, AlwaysRoom, Recv
  <1>1. Len(b) \in Nat \ {0} /\ head + Len(b) <= capacity
    OBVIOUS
  <1>2. /\ Write(data, head, b) \in [1..capacity -> Bytes \union {Junk}]
        /\ \A i \in 1..capacity : i <= head => Write(data, head, b)[i] = data[i]
        /\ \A i \in 1..Len(b) :
             head + i <= capacity => Write(data, head, b)[head + i] = b[i]
    <2>1. /\ capacity \in Nat \ {0} /\ head \in Nat
          /\ data \in [1..capacity -> Bytes \union {Junk}]
      OBVIOUS
    <2>2. QED
      BY ONLY <2>1, WriteKeeps, b \in Seq(Bytes)
  <1>3. TypeOK' /\ FieldsAgree' /\ AlwaysRoom'
    BY <1>1, <1>2
  <1>4. CopyFits'
    <2>1. CASE TooFull(Len(b), free_capacity)
      BY <2>1 DEF CopyFits
    <2>2. CASE ~TooFull(Len(b), free_capacity)
      BY <1>1, <2>2, RoomLeft DEF CopyFits, n
    <2>3. QED
      BY <2>1, <2>2
  <1>5. Contents'
    BY <1>1, <1>2 DEF Contents
  <1>6. Received'
    BY <1>1, <1>2 DEF Received, n
  <1>7. Expanding' /\ Calls'
    BY <1>1 DEF Expanding, Calls
  <1>8. QED
    BY <1>3, <1>4, <1>5, <1>6, <1>7

(* The buffer has grown: what it held is kept, and there is room now.      *)
LEMMA ReallocStep ==
  ASSUME QueueInv, Realloc
  PROVE  QueueInv'
  <1> USE DEF QueueInv, TypeOK, FieldsAgree, Realloc
  <1>1. op.bytes \in Seq(Bytes) /\ n \in Nat
    BY DEF n
  <1>2. n # 0 \/ ~TooFull(n, new_cap - size)
    OBVIOUS
  <1>3. new_cap > capacity /\ size < new_cap - size /\ n < new_cap - size
    BY <1>1 DEF Expanding, TooFull
  <1>4. TypeOK' /\ FieldsAgree'
    BY <1>3
  <1>5. AlwaysRoom' /\ CopyFits'
    BY <1>1, <1>3 DEF AlwaysRoom, CopyFits, n
  <1>6. Contents'
    BY <1>3 DEF Contents, AlwaysRoom
  <1>7. Received'
    BY <1>1, <1>3 DEF Received, n
  <1>8. Expanding' /\ Calls'
    BY DEF Expanding, Calls
  <1>9. QED
    BY <1>4, <1>5, <1>6, <1>7, <1>8

(* The bytes are in the queue.                                             *)
LEMMA CopyStep ==
  ASSUME QueueInv, Copy
  PROVE  QueueInv'
  <1> USE DEF QueueInv, TypeOK, FieldsAgree, Copy
  <1> DEFINE b == op.bytes
  <1>1. b \in Seq(Bytes) /\ n = Len(b) /\ n \in Nat /\ head + n < capacity
    BY DEF n, CopyFits
  <1>2. op.call \in {"push", "recv"}
    BY DEF Calls
  <1>3. /\ data' \in [1..capacity -> Bytes \union {Junk}]
        /\ \A i \in 1..capacity : i <= head => data'[i] = data[i]
        /\ \A i \in 1..n : data'[head + i] = b[i]
    <2>1. CASE op.call = "push"
      <3>1. /\ Write(data, head, b) \in [1..capacity -> Bytes \union {Junk}]
            /\ \A i \in 1..capacity : i <= head => Write(data, head, b)[i] = data[i]
            /\ \A i \in 1..Len(b) :
                 head + i <= capacity => Write(data, head, b)[head + i] = b[i]
        <4>1. /\ capacity \in Nat \ {0} /\ head \in Nat
              /\ data \in [1..capacity -> Bytes \union {Junk}]
          OBVIOUS
        <4>2. \A s \in Seq(Bytes) :
                /\ Write(data, head, s) \in [1..capacity -> Bytes \union {Junk}]
                /\ \A i \in 1..capacity :
                     i <= head => Write(data, head, s)[i] = data[i]
                /\ \A i \in 1..Len(s) :
                     head + i <= capacity => Write(data, head, s)[head + i] = s[i]
          BY ONLY <4>1, WriteKeeps
        <4>3. QED
          BY ONLY <4>2, <1>1
      <3>2. QED
        BY <1>1, <2>1, <3>1
    <2>2. CASE op.call = "recv"
      BY <1>1, <2>2 DEF Received
    <2>3. QED
      BY <1>2, <2>1, <2>2
  <1>4. TypeOK' /\ FieldsAgree' /\ AlwaysRoom'
    BY <1>1, <1>3 DEF AlwaysRoom
  <1>5. Contents'
    <2>1. size' = Len(pushed')
      BY <1>1 DEF Contents
    <2>2. ASSUME NEW i \in 1..size'
          PROVE  data'[i] = pushed'[i]
      <3>1. CASE i <= size
        BY <1>1, <1>3, <3>1 DEF Contents
      <3>2. CASE i > size
        <4> DEFINE k == i - size
        <4>1. k \in 1..n /\ i = head + k /\ i = Len(pushed) + k
          BY <1>1, <3>2 DEF Contents
        <4>2. pushed'[i] = b[k]
          BY <1>1, <4>1
        <4>3. QED
          BY <1>3, <4>1, <4>2
      <3>3. size \in Int /\ i \in Int
        BY <1>1
      <3>4. QED
        BY ONLY <3>1, <3>2, <3>3
    <2>3. QED
      BY <2>1, <2>2 DEF Contents
  <1>6. CopyFits' /\ Received' /\ Expanding' /\ Calls'
    BY DEF CopyFits, Received, Expanding, Calls
  <1>7. QED
    BY <1>4, <1>5, <1>6

(* The queue has been emptied, or the capacity tried has been doubled.     *)
LEMMA OtherSteps ==
  ASSUME QueueInv, Empty \/ Double
  PROVE  QueueInv'
  <1> USE DEF QueueInv, TypeOK, FieldsAgree
  <1>1. CASE Empty
    BY <1>1 DEF Empty, AlwaysRoom, CopyFits, Contents, Received, Expanding,
                Calls, n
  <1>2. CASE Double
    <2>1. TypeOK' /\ FieldsAgree' /\ AlwaysRoom'
      BY <1>2 DEF Double, fields, AlwaysRoom
    <2>2. CopyFits' /\ Contents' /\ Calls'
      BY <1>2 DEF Double, fields, CopyFits, Contents, Calls
    <2>3. Received'
      BY <1>2 DEF Double, fields, Received, n
    <2>4. Expanding'
      BY <1>2 DEF Double, fields, Expanding
    <2>5. QED
      BY <2>1, <2>2, <2>3, <2>4
  <1>3. QED
    BY <1>1, <1>2

(* The queue's fields agree, there is always room for recv, no copy        *)
(* overruns the buffer and no byte is lost or reordered (queue.c:115-167,  *)
(* utils.c:51-78).                                                         *)
THEOREM QueueInvariant == Spec => []QueueInv
  <1>1. Init => QueueInv
    BY InitQueue
  <1>2. QueueInv /\ [Next]_vars => QueueInv'
    <2> SUFFICES ASSUME QueueInv, [Next]_vars
                 PROVE  QueueInv'
      OBVIOUS
    <2>1. ASSUME NEW b \in Pushes, Push(b) PROVE QueueInv'
      BY <2>1, PushStep, PushesAreSequences
    <2>2. ASSUME NEW b \in Pushes, Recv(b) PROVE QueueInv'
      BY <2>2, RecvStep, PushesAreSequences
    <2>3. CASE Double
      BY <2>3, OtherSteps
    <2>4. CASE Realloc
      BY <2>4, ReallocStep
    <2>5. CASE Copy
      BY <2>5, CopyStep
    <2>6. CASE PopNoCopy \/ Reset \/ \E room \in 0..MaxSize : Pop(room)
      BY <2>6, OtherSteps DEF PopNoCopy, Reset, Pop
    <2>7. CASE UNCHANGED vars
      BY <2>7 DEF vars, fields, QueueInv, TypeOK, FieldsAgree, AlwaysRoom,
                  CopyFits, Contents, Received, Expanding, Calls, n
    <2>8. QED
      BY <2>1, <2>2, <2>3, <2>4, <2>5, <2>6, <2>7 DEF Next
  <1>3. QED
    BY <1>1, <1>2, PTL DEF Spec

(* recv is never called with no room, which it would answer with the 0     *)
(* that stands for a closed connection (utils.c:60-64).                    *)
THEOREM AlwaysRoomForRecv == Spec => []AlwaysRoom
  <1>1. QueueInv => AlwaysRoom
    BY DEF QueueInv
  <1>2. QED
    BY <1>1, QueueInvariant, PTL

(* queue_push never writes behind the buffer's end (queue.c:125-135).      *)
THEOREM CopiesFit == Spec => []CopyFits
  <1>1. QueueInv => CopyFits
    BY DEF QueueInv
  <1>2. QED
    BY <1>1, QueueInvariant, PTL

(* The queue holds what was put in since it was emptied, in order, across  *)
(* every reallocation (queue.c:16-34).                                     *)
THEOREM ContentsKept == Spec => []Contents
  <1>1. QueueInv => Contents
    BY DEF QueueInv
  <1>2. QED
    BY <1>1, QueueInvariant, PTL
=============================================================================
