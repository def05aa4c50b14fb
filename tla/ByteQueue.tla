------------------------------ MODULE ByteQueue ------------------------------
(***************************************************************************)
(* The C servers' byte queue: c/source/utils/queue.c, and recv_request of  *)
(* utils.c, which receives into its free space behind its back.            *)
(*                                                                         *)
(* The queue is a buffer that bytes are appended to at head and that is    *)
(* emptied as a whole.  A push that would leave less than a fifth of the   *)
(* free space, or so, first doubles the buffer until it would not.         *)
(***************************************************************************)
EXTENDS Integers, Sequences

CONSTANTS
  Bytes,        (* values of a byte                                         *)
  Junk,         (* the content of a byte that nothing has written           *)
  InitCapacity, (* the capacity queue_init is called with                   *)
  MaxPush,      (* bound: bytes pushed or received at once                  *)
  MaxSize       (* bound: bytes in the queue before a push                  *)

ASSUME QueueAssumption ==
  /\ InitCapacity \in Nat \ {0}
  /\ MaxPush \in Nat
  /\ MaxSize \in Nat

VARIABLES
  capacity,       (* struct queue: bytes allocated                          *)
  size,           (* bytes in the queue                                     *)
  free_capacity,  (* bytes free                                             *)
  head,           (* offset of the next free byte                           *)
  data,           (* the allocated bytes                                    *)
  pc,             (* inside which call                                      *)
  new_cap,        (* queue_expand_capacity's capacity so far                *)
  op,             (* the call being made, and its bytes                     *)
  pushed          (* history: the bytes pushed since the queue was emptied  *)

fields == <<capacity, size, free_capacity, head, data>>
vars == <<fields, pc, new_cap, op, pushed>>

Init ==
  /\ capacity = InitCapacity
  /\ size = 0
  /\ free_capacity = InitCapacity
  /\ head = 0
  /\ data = [i \in 1..InitCapacity |-> Junk]
  /\ pc = "Idle"
  /\ new_cap = 0
  /\ op = [call |-> "none", bytes |-> <<>>]
  /\ pushed = <<>>

n == Len(op.bytes)

(* Mutant: no reserve is kept.                                             *)
TooFullExact(m, free) == m > free

(* Whether the queue with m more bytes would take up four fifths of the    *)
(* free ones, however many it had before: the factor is 0.8, rounded down. *)
TooFull(m, free) == size + m >= (4 * free) \div 5

(* d with b written behind its first h bytes.                              *)
Write(d, h, b) ==
  [i \in DOMAIN d |-> IF h < i /\ i <= h + Len(b) THEN b[i - h] ELSE d[i]]

(* queue_push of no byte does nothing; otherwise there has to be room.     *)
Push(b) ==
  /\ pc = "Idle" /\ b # <<>>
  /\ op' = [call |-> "push", bytes |-> b]
  /\ pc' = IF TooFull(Len(b), free_capacity) THEN "Expand" ELSE "Copy"
  /\ new_cap' = 2 * capacity
  /\ UNCHANGED <<fields, pushed>>

(* Mutant: recv is given the whole capacity, whatever is in the queue.     *)
RecvOver(b) ==
  /\ pc = "Idle" /\ b # <<>>
  /\ Len(b) <= capacity
  /\ data' = Write(data, head, b)
  /\ op' = [call |-> "recv", bytes |-> b]
  /\ pc' = IF TooFull(Len(b), free_capacity) THEN "Expand" ELSE "Copy"
  /\ new_cap' = 2 * capacity
  /\ UNCHANGED <<capacity, size, free_capacity, head, pushed>>

(* One turn of recv_request's loop: recv may fill all of the free space,   *)
(* then queue_push_ex makes room as if the bytes were still to come.       *)
Recv(b) ==
  /\ pc = "Idle" /\ b # <<>>
  /\ Len(b) <= free_capacity
  /\ data' = Write(data, head, b)
  /\ op' = [call |-> "recv", bytes |-> b]
  /\ pc' = IF TooFull(Len(b), free_capacity) THEN "Expand" ELSE "Copy"
  /\ new_cap' = 2 * capacity
  /\ UNCHANGED <<capacity, size, free_capacity, head, pushed>>

Double ==
  /\ pc = "Expand"
  /\ TooFull(n, new_cap - size)
  /\ new_cap' = 2 * new_cap
  /\ UNCHANGED <<fields, pc, op, pushed>>

(* Mutant: what is in the buffer is not kept.                              *)
ReallocFresh ==
  /\ pc = "Expand"
  /\ ~TooFull(n, new_cap - size)
  /\ data' = [i \in 1..new_cap |-> IF i <= size THEN data[i] ELSE Junk]
  /\ capacity' = new_cap
  /\ free_capacity' = new_cap - size
  /\ head' = size
  /\ pc' = "Copy"
  /\ UNCHANGED <<size, new_cap, op, pushed>>

(* queue_init_data: realloc keeps the old buffer's bytes, those that have  *)
(* been received behind head included.                                     *)
Realloc ==
  /\ pc = "Expand"
  /\ ~TooFull(n, new_cap - size)
  /\ data' = [i \in 1..new_cap |-> IF i <= capacity THEN data[i] ELSE Junk]
  /\ capacity' = new_cap
  /\ free_capacity' = new_cap - size
  /\ head' = size
  /\ pc' = "Copy"
  /\ UNCHANGED <<size, new_cap, op, pushed>>

(* The end of queue_push, which copies, and of queue_push_ex.              *)
Copy ==
  /\ pc = "Copy"
  /\ data' = IF op.call = "push" THEN Write(data, head, op.bytes) ELSE data
  /\ head' = head + n
  /\ size' = size + n
  /\ free_capacity' = capacity - size'
  /\ pushed' = pushed \o op.bytes
  /\ pc' = "Idle"
  /\ op' = [call |-> "none", bytes |-> <<>>]
  /\ UNCHANGED <<capacity, new_cap>>

Empty ==
  /\ pc = "Idle"
  /\ size' = 0
  /\ head' = 0
  /\ free_capacity' = capacity
  /\ pushed' = <<>>
  /\ UNCHANGED <<capacity, data, pc, new_cap, op>>

(* queue_pop into a buffer of room bytes, nothing if they are not enough.  *)
Pop(room) == size # 0 /\ size <= room /\ Empty

PopNoCopy == size # 0 /\ Empty

Reset == Empty

Pushes == UNION {[1..k -> Bytes] : k \in 0..MaxPush}

Next ==
  \/ /\ size <= MaxSize
     /\ \E b \in Pushes : Push(b) \/ Recv(b)
  \/ Double \/ Realloc \/ Copy
  \/ \E room \in 0..MaxSize : Pop(room)
  \/ PopNoCopy
  \/ Reset

Spec == Init /\ [][Next]_vars

-----------------------------------------------------------------------------
TypeOK ==
  /\ capacity \in Nat \ {0}
  /\ size \in Nat /\ free_capacity \in Int /\ head \in Nat
  /\ data \in [1..capacity -> Bytes \union {Junk}]
  /\ pc \in {"Idle", "Expand", "Copy"}
  /\ new_cap \in Nat
  /\ op \in [call : {"none", "push", "recv"}, bytes : Seq(Bytes)]
  /\ pushed \in Seq(Bytes)

(* The fields agree with each other between any two statements: bytes are  *)
(* appended where those in the queue end.                                  *)
FieldsAgree == head = size /\ free_capacity = capacity - size

(* There is always a free byte.  recv_request hands recv the free space,   *)
(* and a recv of no bytes would return 0, which it takes for a connection  *)
(* closed by the peer (utils.c:60-64).                                     *)
AlwaysRoom == free_capacity > 0

(* When the bytes are copied they fit into the buffer, and leave room.     *)
CopyFits == pc = "Copy" => head + n < capacity

(* What is in the queue is what has been pushed and received since it was  *)
(* last emptied, in order, however often the buffer has been reallocated.  *)
Contents ==
  /\ size = Len(pushed)
  /\ \A i \in 1..size : data[i] = pushed[i]

(* Received bytes lie behind head until they are accounted for.            *)
Received ==
  op.call = "recv" =>
     /\ head + n <= capacity
     /\ \A i \in 1..n : data[head + i] = op.bytes[i]

Expanding == pc = "Expand" => op.call # "none" /\ new_cap > capacity

Calls == pc = "Idle" <=> op.call = "none"

(* The inductive invariant of ByteQueueProofs.                             *)
QueueInv ==
  /\ TypeOK /\ FieldsAgree /\ AlwaysRoom /\ CopyFits /\ Contents
  /\ Received /\ Expanding /\ Calls
=============================================================================
