----------------------------- MODULE MeansService -----------------------------
(***************************************************************************)
(* What the C means-to-an-end server promises: each connection has a book  *)
(* of its own, from times to prices, in which the first price for a time   *)
(* stays, and gets the means it asks for, over its book as it is when it   *)
(* asks, in the order in which it asks.                                    *)
(***************************************************************************)
EXTENDS Integers, Sequences, FiniteSets, FiniteSetsExt

CONSTANTS Conns, Times, Prices

VARIABLES
  live,     (* connections being served                                     *)
  book,     (* for each, the set of its entries                             *)
  due,      (* answers yet to be given, in two units each                   *)
  given     (* answers given                                                *)

vars == <<live, book, due, given>>

Init ==
  /\ live = {}
  /\ book = [c \in Conns |-> {}]
  /\ due = [c \in Conns |-> <<>>]
  /\ given = [c \in Conns |-> <<>>]

Open(c) ==
  /\ c \notin live
  /\ live' = live \union {c}
  /\ UNCHANGED <<book, due, given>>

Insert(c, time, price) ==
  /\ c \in live
  /\ \A e \in book[c] : e.timestamp # time
  /\ UNCHANGED <<live, due, given>>
  /\ book' = [book EXCEPT ![c] = @ \union {[timestamp |-> time, price |-> price]}]

(* The mean of the prices from one time to another, rounded towards zero.  *)
Mean(entries, from, to) ==
  LET asked == {e \in entries : from <= e.timestamp /\ e.timestamp <= to}
      sum == MapThenSumSet(LAMBDA e : e.price, asked)
      n == Cardinality(asked)
  IN CASE n = 0 -> 0
       [] n > 0 /\ sum >= 0 -> sum \div n
       [] n > 0 /\ sum < 0 -> -((-sum) \div n)

Query(c, from, to) ==
  /\ c \in live
  /\ UNCHANGED <<live, book, given>>
  /\ LET mean == Mean(book[c], from, to)
     IN due' = [due EXCEPT ![c] = @ \o <<mean, mean>>]

(* The end of what is due may be lost.                                     *)
Answer(c) ==
  /\ due[c] # <<>>
  /\ \E k \in 0..Len(due[c]) :
       given' = [given EXCEPT ![c] = @ \o SubSeq(due[c], 1, k)]
  /\ due' = [due EXCEPT ![c] = <<>>]
  /\ UNCHANGED <<live, book>>

Close(gone) ==
  /\ live' = live \ gone
  /\ book' = [c \in Conns |-> IF c \in gone THEN {} ELSE book[c]]
  /\ due' = [c \in Conns |-> IF c \in gone THEN <<>> ELSE due[c]]
  /\ UNCHANGED given

Next ==
  \/ \E c \in Conns :
       \/ Open(c) \/ Answer(c) \/ Close({c})
       \/ \E time \in Times, price \in Prices : Insert(c, time, price)
       \/ \E from, to \in Times : Query(c, from, to)
  \/ Close(Conns)

Spec == Init /\ [][Next]_vars
=============================================================================
