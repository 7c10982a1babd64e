----------------------------- MODULE MCTrackLife -----------------------------
(* TrackBuilds for TLC.  The threads of a launch touch nothing but their   *)
(* own track and what atomics hand out, so that the order of their steps   *)
(* and the choice of free slots only rename slots: the smallest slots go   *)
(* first, and leaks are extracted when the launch is over.                 *)
EXTENDS TrackBuilds, SequencesExt

MCMaterials ==
  {[ApplyCuts |-> TRUE, sensitive |-> TRUE,
    theElCut |-> 2, thePosCut |-> 2, theGammaCut |-> 2],
   [ApplyCuts |-> FALSE, sensitive |-> FALSE,
    theElCut |-> 1, thePosCut |-> 1, theGammaCut |-> 1]}

MCPrimaries == {<<"electron", 2>>, <<"electron", 3>>, <<"positron", 1>>, <<"gamma", 3>>}
OtherPrimaries == {<<"electron", 2>>, <<"gamma", 3>>}

(* Smaller showers for the builds that never end them.                     *)
MCInit ==
  /\ BuildInit
  /\ <<tracks[1].kind, tracks[1].eKin>> \in
       IF build = "current" THEN MCPrimaries \ {<<"electron", 2>>} ELSE OtherPrimaries

Smallest(o) ==
  LET names == SetToSeq(Born(o))
      slots == SetToSortSeq(Free, <)
  IN [name \in Born(o) |-> slots[CHOOSE i \in DOMAIN names : names[i] = name]]

MCNext ==
  \/ In("active") # {} /\ \E m \in Materials : \E o \in BuildOutcomes(Min(In("active")), m) :
       /\ Cardinality(Born(o)) <= Cardinality(Free)
       /\ BuildStep(Min(In("active")), o, Smallest(o))
  \/ In("active") = {} /\ In("leaked") # {} /\ Extract(Min(In("leaked"))) /\ UNCHANGED build
  \/ NextIteration /\ UNCHANGED build /\ NoFinishOff'
  \/ Finished /\ UNCHANGED build

MCSpec == MCInit /\ [][MCNext]_BuildVars /\ WF_BuildVars(MCNext)
=============================================================================
