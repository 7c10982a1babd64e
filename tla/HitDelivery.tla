----------------------------- MODULE HitDelivery -----------------------------
(* What HitScoring promises: every worker gets the hits recorded for it,   *)
(* each once and in the order of their recording; the n-th hit is n.       *)
EXTENDS Integers, Sequences

CONSTANT NWorkers

Workers == 1 .. NWorkers

VARIABLES
  recorded,    (* worker -> how many hits the device recorded for it       *)
  delivered    (* worker -> the hits it has processed                      *)

Init ==
  /\ recorded = [w \in Workers |-> 0]
  /\ delivered = [w \in Workers |-> <<>>]

Record(w) ==
  /\ recorded' = [recorded EXCEPT ![w] = @ + 1]
  /\ UNCHANGED delivered

(* The next hits, one or more of them.                                     *)
Deliver(w) ==
  /\ \E n \in Len(delivered[w]) + 1 .. recorded[w] :
       delivered' = [delivered EXCEPT ![w] = [k \in 1 .. n |-> k]]
  /\ UNCHANGED recorded

Next == \E w \in Workers : Record(w) \/ Deliver(w)

Spec == Init /\ [][Next]_<<recorded, delivered>>
=============================================================================
