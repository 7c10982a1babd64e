----------------------------- MODULE MCWorkerLife -----------------------------
(* ScoringObjects for TLC: three levels, a volume in two mothers, and from *)
(* any point steps up, down, across and out of the world.                  *)
EXTENDS ScoringObjects

MCVolumes == {"world", "A", "B", "cell"}
World == <<"world">>
A == <<"world", "A">>
CellInA == <<"world", "A", "cell">>
CellInB == <<"world", "B", "cell">>
MCHits ==
  {[pre |-> s[1], post |-> s[2]] :
     s \in {<<World, A>>, <<World, Outside>>, <<A, CellInA>>, <<CellInA, CellInB>>,
            <<CellInB, World>>, <<CellInB, CellInB>>, <<A, Outside>>}}
=============================================================================
