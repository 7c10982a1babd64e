----------------------------- MODULE FlushService -----------------------------
(***************************************************************************)
(* What asynchronous transport promises to the G4 workers, without its     *)
(* threads and queues: a worker hands over tracks, requests a flush, and   *)
(* is served once the device owes it nothing.                              *)
(***************************************************************************)
CONSTANTS Workers, Tracks

VARIABLES
  phase,    (* worker -> what it is waiting for                            *)
  owed      (* worker -> its tracks that the device has not given back     *)

vars == <<phase, owed>>

Init ==
  /\ phase = [w \in Workers |-> "open"]
  /\ owed = [w \in Workers |-> {}]

(* A worker adds a track, but not while it waits.                          *)
Submit(w) ==
  /\ phase[w] = "open"
  /\ \E t \in Tracks : owed' = [owed EXCEPT ![w] = @ \cup {t}]
  /\ UNCHANGED phase

Request(w) ==
  /\ phase[w] = "open"
  /\ phase' = [phase EXCEPT ![w] = "requested"]
  /\ UNCHANGED owed

(* Tracks finish, return to the worker, or beget tracks of the same worker;*)
(* a worker that is owed nothing is not owed anything later either.        *)
Work ==
  /\ owed' \in [Workers -> SUBSET Tracks]
  /\ \A w \in Workers : owed[w] = {} => owed'[w] = {}
  /\ UNCHANGED phase

Serve(W) ==
  /\ \A w \in W : phase[w] = "requested" /\ owed[w] = {}
  /\ phase' = [w \in Workers |-> IF w \in W THEN "served" ELSE phase[w]]
  /\ UNCHANGED owed

Collect(w) ==
  /\ phase[w] = "served"
  /\ phase' = [phase EXCEPT ![w] = "open"]
  /\ UNCHANGED owed

Next ==
  \/ \E w \in Workers : Submit(w) \/ Request(w) \/ Collect(w)
  \/ \E W \in SUBSET Workers : Serve(W)
  \/ Work

Spec == Init /\ [][Next]_vars
=============================================================================
