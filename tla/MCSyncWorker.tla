---------------------------- MODULE MCSyncWorker ----------------------------
(* TrackingManager for TLC, with the steps of the split kernels.  Within   *)
(* an iteration the kernels share nothing but the slots and hits that      *)
(* atomics hand out: the steps are taken in one order, which renames these *)
(* only.                                                                   *)
EXTENDS TrackingManager

Materials == {[ApplyCuts |-> FALSE, sensitive |-> s,
               theElCut |-> 1, thePosCut |-> 1, theGammaCut |-> 1] : s \in BOOLEAN}
K == INSTANCE KernelBuilds WITH
  restMass <- 1, fElectronTrackingCut <- 1, LowEnergyThreshold <- 1, theLowEnergyThreshold <- 0,
  maxSteps <- 1, maxLoops <- 1, tinyStepPenalty <- 1, Word <- 4, returnAllSteps <- FALSE

(* What the queues see of an outcome of a step.  Compton scattering that   *)
(* leaves neither an electron nor a gamma records a hit for each.          *)
HitsOf(o) ==
  IF o.hit = K!NoHit THEN 0
  ELSE IF o.dropped > 0 /\ o.next = 0 /\ \A name \in K!SecondaryNames : o.secs[name] = K!None
  THEN 2 ELSE 1
Effect(o) ==
  LET names == SetToSeq({name \in K!SecondaryNames : o.secs[name] # K!None})
  IN [next |-> o.next > 0, leak |-> o.leaks > 0, hits |-> HitsOf(o),
      born |-> [i \in DOMAIN names |-> K!KindOf(names[i])]]

NewTracksOf(k) == [kind : {k}, eKin : {2, 4}, stepCounter : {0}, looperCounter : {0}]
(* The sets these make, written out for TLC, which would build them anew   *)
(* in every state.                                                         *)
Ends == [next : {FALSE}, leak : BOOLEAN, hits : {0, 1}, born : {<<>>}]
Survives == [next : {TRUE}, leak : {FALSE}, hits : {0, 1},
             born : {<<>>, <<"electron">>, <<"gamma">>}]
Annihilates == [next : {FALSE}, leak : {FALSE}, hits : {0, 1}, born : {<<"gamma", "gamma">>}]
OfGammas ==
  [next : BOOLEAN, leak : {FALSE}, hits : {0}, born : {<<>>, <<"electron">>}]
  \cup [next : {FALSE}, leak : {FALSE}, hits : {1}, born : {<<>>, <<"electron">>}]
  \cup [next : {FALSE}, leak : BOOLEAN, hits : {0}, born : {<<>>}]
  \cup [next : {TRUE}, leak : {FALSE}, hits : {1}, born : {<<>>}]
  \cup [next : {FALSE}, leak : {FALSE}, hits : {2}, born : {<<>>}]
  \cup [next : {FALSE}, leak : {FALSE}, hits : {0}, born : {<<"electron", "positron">>}]
MCStepEffects ==
  [electron |-> Ends \cup Survives, positron |-> Ends \cup Survives \cup Annihilates,
   gamma |-> OfGammas]

ASSUME MCAssumption ==
  \A k \in Kinds :
    MCStepEffects[k] = {Effect(o) : o \in UNION {K!SplitOutcomes(t, m) :
                                               t \in NewTracksOf(k), m \in Materials}}

(* With the regions listed, all, or all but one, a macro that ends the     *)
(* program, and one for which every track is deleted.                      *)
All == <<"TrackInAllRegions", TRUE>>
MCMacros ==
  {<<>>, <<<<"SpeedOfLight", TRUE>>>>, <<<<"addGPURegion", "detector">>>>, <<All>>,
   <<All, <<"removeGPURegion", "world">>>>,
   <<<<"addGPURegion", "detector">>, <<"removeGPURegion", "detector">>>>}

(* The counters the first shower finds: no room for its first hit.         *)
MCGarbage == {[fNextFreeHit |-> 2, fUsedSlots |-> 0]}

First == CHOOSE k \in Kinds :
  /\ todo[k] # <<>>
  /\ \A l \in Kinds : todo[l] # <<>> =>
       k = l \/ k = "electron" \/ (k = "positron" /\ l = "gamma")
InOrder ==
  (spc = "transport" /\ \E k \in Kinds : todo[k] # <<>>) =>
    todo' = [todo EXCEPT ![First] = Tail(@)]

(* Electrons are born anyway; but two primaries and a third fill a ring.   *)
Electrons == {t \in Tracks : kind'[t] = "electron"}
Primaries ==
  event' # event =>
    Electrons = {} \/ (event' = 0 /\ hepEmInAllRegions /\ Electrons = {1, 2})

MCNext == Next /\ InOrder /\ Primaries
MCSpec == Init /\ [][MCNext]_vars /\ WF_vars(MCNext)
=============================================================================
