----------------------------- MODULE TrackBuilds -----------------------------
(* Showers of TrackLife in every build of the kernels: the current ones,   *)
(* the superseded asynchronous ones, and the split ones of the synchronous *)
(* build (KernelBuilds).  A build never changes while the program runs.    *)
EXTENDS TrackLife, KernelBuilds

VARIABLE build

Builds == {"current", "superseded", "split"}

(* Only the current kernels and the superseded electrons' count steps.     *)
Counted(s) ==
  IF build = "current" \/ (build = "superseded" /\ tracks[s].kind # "gamma")
    THEN Stepped(s) ELSE tracks[s]

BuildOutcomes(s, m) ==
  CASE build = "current" -> StepOutcomes(s, m)
    [] build = "superseded" -> AsyncOutcomes(Counted(s), m)
    [] build = "split" -> SplitOutcomes(tracks[s], m)

(* Only the current kernels can hand over the last particles of an event.  *)
NoFinishOff == build # "current" => allowFinishOffEvent = 0

BuildInit == Init /\ build \in Builds /\ NoFinishOff

BuildStep(s, o, slotOf) == StepTo(s, Counted(s), o, slotOf) /\ UNCHANGED build

BuildNext ==
  \/ \E s \in In("active"), m \in Materials :
       \E o \in BuildOutcomes(s, m) : \E slotOf \in SlotsFor(o) : BuildStep(s, o, slotOf)
  \/ \E s \in Slots : Extract(s) /\ UNCHANGED build
  \/ NextIteration /\ UNCHANGED build /\ NoFinishOff'
  \/ Finished /\ UNCHANGED build

BuildVars == <<vars, build>>
BuildSpec == BuildInit /\ [][BuildNext]_BuildVars /\ WF_BuildVars(BuildNext)

-----------------------------------------------------------------------------
(* Every shower of the current kernels ends.  The others set a gamma free  *)
(* after any number of steps in which nothing happens to it, and have no   *)
(* limit for them.                                                         *)
EveryShowerEnds == build = "current" => TransportEnds

(* The other builds record the hit before the discrete process of an       *)
(* electron, or in it for a gamma: all that a step deposits is in the hit  *)
(* it leaves, whatever comes after it.  (What Compton scattering leaves    *)
(* below its threshold is no deposit: SplitLosses.)                        *)
OtherBuildsScoreDeposits ==
  build # "current" =>
    \A s \in In("active"), m \in Materials : \A o \in BuildOutcomes(s, m) :
      (m.sensitive /\ o.energyDeposit > 0) => o.hit.edep = o.energyDeposit

(* Where the split kernels lose energy: all of a gamma that reaches the end*)
(* of its step without a process, or, of a gamma that Compton scattering   *)
(* takes on, parts that end below LowEnergyThreshold, which are no deposit *)
(* although the comments call them so (gammas_split.cuh:313).  Nothing else*)
(* that a track carries is dropped, rest masses included.                  *)
SplitLosses ==
  build = "split" =>
    \A s \in In("active"), m \in Materials : \A o \in BuildOutcomes(s, m) :
      o.dropped > 0 =>
        /\ tracks[s].kind = "gamma" /\ o.leaks = 0 /\ o.escaped = 0 /\ o.energyDeposit = 0
        /\ \/ o.dropped = tracks[s].eKin
           \/ o.dropped <= LowEnergyThreshold /\ tracks[s].eKin >= LowEnergyThreshold
=============================================================================
