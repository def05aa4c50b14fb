---------------------------- MODULE TicketService ----------------------------
(***************************************************************************)
(* What the speed daemon's dispatch promises, without its threads and      *)
(* locks: a ticket is pending from the moment it is issued until it is     *)
(* delivered; it is delivered by being assigned to one descriptor that     *)
(* watches the ticket's road at that moment; a delivery that fails leaves  *)
(* it pending.  SpeedDispatch implements this.                             *)
(***************************************************************************)
EXTENDS Naturals

CONSTANTS Fds, Roads, MaxTickets

VARIABLES
  issued,    (* how many tickets have been issued                           *)
  pending,   (* issued tickets that have not been delivered                 *)
  watching,  (* the descriptors registered for each road                    *)
  assigned   (* at most one <<ticket, descriptor>>: the delivery under way  *)

vars == <<issued, pending, watching, assigned>>

Init ==
  /\ issued = 0
  /\ pending = {}
  /\ watching = [r \in Roads |-> {}]
  /\ assigned = {}

Issue(r) ==
  /\ issued < MaxTickets
  /\ issued' = issued + 1
  /\ pending' = pending \union {[id |-> issued + 1, road |-> r]}
  /\ UNCHANGED <<watching, assigned>>

Watch(f, r) ==
  /\ watching' = [watching EXCEPT ![r] = @ \union {f}]
  /\ UNCHANGED <<issued, pending, assigned>>

Unwatch(f, r) ==
  /\ watching' = [watching EXCEPT ![r] = @ \ {f}]
  /\ UNCHANGED <<issued, pending, assigned>>

Assign(tk, f) ==
  /\ assigned = {}
  /\ tk \in pending
  /\ f \in watching[tk.road]
  /\ assigned' = {<<tk, f>>}
  /\ UNCHANGED <<issued, pending, watching>>

(* The descriptor need not watch the road any more, nor still belong to    *)
(* the client that did: between the choice and the write it may be closed  *)
(* and reused.                                                             *)
Deliver ==
  \E a \in assigned :
     /\ pending' = pending \ {a[1]}
     /\ assigned' = {}
     /\ UNCHANGED <<issued, watching>>

Fail ==
  /\ assigned # {}
  /\ assigned' = {}
  /\ UNCHANGED <<issued, pending, watching>>

Next ==
  \/ \E r \in Roads : Issue(r)
  \/ \E f \in Fds, r \in Roads : Watch(f, r) \/ Unwatch(f, r)
  \/ \E tk \in pending, f \in Fds : Assign(tk, f)
  \/ Deliver
  \/ Fail

Spec == Init /\ [][Next]_vars
=============================================================================
