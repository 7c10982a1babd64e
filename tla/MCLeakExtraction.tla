-------------------------- MODULE MCLeakExtraction --------------------------
EXTENDS LeakExtraction

(* A gamma and an electron of two workers: every leak is over the threshold*)
(* of a leak queue for one, and two of them need two transfers.            *)
MCWorkers == {"w1", "w2"}
MCTracks == {<<"w1", "gamma", 1>>, <<"w2", "electron", 2>>}
=============================================================================
