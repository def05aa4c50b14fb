---------------------------- MODULE MCSpeedTickets ----------------------------
(* Instances of SpeedTickets for TLC: one car, two cameras ten miles apart *)
(* on each of two roads, and times on both sides of the first midnight.    *)
EXTENDS SpeedTickets

CONSTANTS car, r1, r2

TwoRoads ==
  {[road |-> r, mile |-> m, limit |-> 60] : r \in {r1, r2}, m \in {0, 10}}

(* 300 and 600: ten miles in 300 s is 120 mph.  86300 and 86500 lie on     *)
(* either side of midnight, 86503 is too close to 86500 for a pair, 86700  *)
(* is on the second day, and 86740 follows it at 900 mph.                  *)
Times == {300, 600, 86300, 86500, 86503, 86700, 86740}
=============================================================================
