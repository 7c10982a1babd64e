--------------------------- MODULE MCAsyncTransport ---------------------------
(* Instances of AsyncTransport for TLC.                                    *)
EXTENDS AsyncTransport, TLC

CONSTANTS w1, w2

TwoWorkers == {w1, w2}

(* Workers are interchangeable: sound for the safety properties.           *)
Symmetry == Permutations(Workers)
=============================================================================
