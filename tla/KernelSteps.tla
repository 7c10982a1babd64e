----------------------------- MODULE KernelSteps -----------------------------
(* One step of a track in the asynchronous kernels (kernels/electrons.cuh, *)
(* kernels/gammas.cuh): every way through TransportElectrons and           *)
(* TransportGammas, as the set of outcomes a step can have.  An outcome    *)
(* says where the step puts the slot, what it deposits, which secondaries  *)
(* it creates and which hit it records.  Geometry, the physics models and  *)
(* the field are external: any energy split and any boundary.              *)
EXTENDS Integers

CONSTANTS
  Materials,             (* couples: cuts, ApplyCuts, sensitive or not     *)
  restMass,              (* of the electron, in units of energy            *)
  fElectronTrackingCut,
  LowEnergyThreshold,    (* of Compton scattering                          *)
  theLowEnergyThreshold, (* of the photoelectric effect                    *)
  maxSteps,
  maxLoops,              (* 500 in the code                                *)
  tinyStepPenalty,       (* 10 in the code                                 *)
  Word,                  (* values of an unsigned short                    *)
  returnAllSteps         (* fReturnAllSteps of the transport               *)

ASSUME KernelAssumption ==
  /\ restMass \in Nat \ {0} /\ fElectronTrackingCut \in Nat \ {0}
  /\ LowEnergyThreshold \in Nat /\ theLowEnergyThreshold \in Nat
  /\ maxSteps \in Nat \ {0} /\ maxLoops \in Nat /\ tinyStepPenalty \in Nat
  /\ Word \in Nat /\ Word > maxSteps
  /\ returnAllSteps \in BOOLEAN
  /\ Materials # {}
  /\ \A m \in Materials :
       m.ApplyCuts \in BOOLEAN /\ m.sensitive \in BOOLEAN
       /\ m.theElCut \in Nat /\ m.thePosCut \in Nat /\ m.theGammaCut \in Nat

Kinds == {"electron", "positron", "gamma"}

(* What a track of that kind gives back when it is gone.                   *)
EnergyOf(kind, eKin) == IF kind = "positron" THEN eKin + 2 * restMass ELSE eKin

(* The secondaries a step may create, and their kinetic energies.  A       *)
(* positron that bremsstrahlung stops leaves three gammas.                 *)
SecondaryNames == {"electron", "positron", "gamma", "gamma1", "gamma2"}
KindOf(name) == IF name \in {"gamma1", "gamma2"} THEN "gamma" ELSE name
None == -1
Given(secs, name) ==
  IF secs[name] = None THEN 0 ELSE EnergyOf(KindOf(name), secs[name])
SecondaryEnergy(secs) ==
  Given(secs, "electron") + Given(secs, "positron") + Given(secs, "gamma")
    + Given(secs, "gamma1") + Given(secs, "gamma2")

NoHit == [edep |-> None, last |-> FALSE]

-----------------------------------------------------------------------------
(* The local variables of a kernel, and the effects of the step so far:    *)
(* how often the slot was pushed to nextActive and to the leak queue, and  *)
(* marked for freeing.  dropped and escaped are ghosts: energy that no hit *)
(* and no track accounts for, and energy that left the world.              *)
Begin(track, returnLastStep) ==
  [eKin |-> track.eKin, saved |-> track.eKin, looperCounter |-> track.looperCounter,
   energyDeposit |-> 0, stopped |-> FALSE, cross_boundary |-> FALSE,
   returnLastStep |-> returnLastStep,
   killed |-> FALSE, next |-> 0, leaks |-> 0, marks |-> 0,
   secs |-> [name \in SecondaryNames |-> None], hit |-> NoHit, dropped |-> 0, escaped |-> 0]

(* The lambda survive of both kernels.                                     *)
survive(s, leak) ==
  [s EXCEPT !.returnLastStep = FALSE, !.saved = s.eKin,
            !.next = IF leak THEN @ ELSE @ + 1,
            !.leaks = IF leak THEN @ + 1 ELSE @]

MarkSlotForFreeing(s) == [s EXCEPT !.marks = @ + 1]

(* "continue" on the way: the step ends without anything.                  *)
Kill(kind, s) ==
  [s EXCEPT !.killed = TRUE, !.dropped = @ + s.energyDeposit + EnergyOf(kind, s.eKin),
            !.energyDeposit = 0]

LeaveWorld(kind, s) ==
  [MarkSlotForFreeing(s) EXCEPT !.escaped = EnergyOf(kind, s.eKin)]

(* A secondary is cut into the step's deposit, or becomes a track.         *)
CutOrCreate(s, cut, name, energy) ==
  IF cut THEN [s EXCEPT !.energyDeposit = @ + EnergyOf(KindOf(name), energy)]
         ELSE [s EXCEPT !.secs[name] = energy]

RecordHit(s, mat) ==
  IF (s.energyDeposit > 0 /\ mat.sensitive) \/ returnAllSteps \/ s.returnLastStep
  THEN [s EXCEPT !.hit = [edep |-> s.energyDeposit, last |-> s.returnLastStep]]
  ELSE s

-----------------------------------------------------------------------------
(* TransportElectrons                                                      *)

(* G4HepEm: the continuous loss, and whether it stopped the particle.      *)
PerformContinuous(s) ==
  {[s EXCEPT !.eKin = 0, !.energyDeposit = s.eKin, !.stopped = TRUE]} \cup
  {[s EXCEPT !.eKin = e, !.energyDeposit = s.eKin - e] :
     e \in {e \in 1 .. s.eKin : e >= fElectronTrackingCut}}

(* What geometry, field and physics make of a step: where it ended, if it  *)
(* was minuscule, and if the volume behind a boundary is in a GPU region.  *)
Limits == {"boundary", "outside", "unfinished", "nothing", "interaction"}
Propagations == [limit : Limits, tiny : BOOLEAN, fGPUregion : BOOLEAN]

(* The branches before a discrete process.                                 *)
PropagateMutant(kind, s, p) ==
  IF p.limit = "boundary" THEN [s EXCEPT !.cross_boundary = TRUE]
  ELSE [s EXCEPT !.looperCounter = 0]

Propagate(kind, s, p) ==
  LET looper == IF p.tiny THEN (s.looperCounter + tinyStepPenalty) % Word
                          ELSE s.looperCounter
      looping == [s EXCEPT !.looperCounter = (looper + 1) % Word]
  IN IF s.stopped \/ p.limit = "interaction"
       THEN [s EXCEPT !.looperCounter = 0]
     ELSE IF p.limit = "nothing"
       THEN survive([s EXCEPT !.looperCounter = looper], FALSE)
     ELSE IF looping.looperCounter > maxLoops THEN Kill(kind, looping)
     ELSE IF p.limit = "unfinished" THEN survive(looping, FALSE)
     ELSE IF p.limit = "outside" THEN LeaveWorld(kind, looping)
     ELSE [looping EXCEPT !.cross_boundary = TRUE, !.returnLastStep = FALSE]

(* Ionisation and bremsstrahlung: delta goes to a secondary or is cut; a   *)
(* particle that is left below the tracking cut stops.                     *)
LoseEnergy(kind, s, name, cut, delta) ==
  LET lost == CutOrCreate(s, cut, name, delta)
      rest == s.eKin - delta
  IN IF rest >= fElectronTrackingCut
       THEN survive([lost EXCEPT !.eKin = rest], FALSE)
     ELSE IF kind = "electron"
       THEN [lost EXCEPT !.eKin = 0, !.stopped = TRUE, !.energyDeposit = @ + rest]
     ELSE [lost EXCEPT !.eKin = 0, !.stopped = TRUE, !.dropped = @ + rest]

(* An electron gives up to half of its energy to another one (Moller), a   *)
(* positron all of it (Bhabha).                                            *)
Ionisations(kind, s, m) ==
  {LoseEnergy(kind, s, "electron", m.ApplyCuts /\ delta < m.theElCut, delta) :
     delta \in {d \in 1 .. s.eKin : kind = "electron" => 2 * d <= s.eKin}}

Bremsstrahlungs(kind, s, m) ==
  {LoseEnergy(kind, s, "gamma", m.ApplyCuts /\ delta < m.theGammaCut, delta) :
     delta \in 1 .. s.eKin}

Annihilate(s, m, theGamma1Ekin, theGamma2Ekin) ==
  LET first == CutOrCreate(s, m.ApplyCuts /\ theGamma1Ekin < m.theGammaCut,
                           "gamma1", theGamma1Ekin)
  IN MarkSlotForFreeing(
       CutOrCreate(first, m.ApplyCuts /\ theGamma2Ekin < m.theGammaCut,
                   "gamma2", theGamma2Ekin))

AnnihilationsInFlight(kind, s, m) ==
  {Annihilate(s, m, e, EnergyOf("positron", s.eKin) - e) :
     e \in IF kind = "positron" THEN 1 .. EnergyOf("positron", s.eKin) - 1 ELSE {}}

DiscreteProcesses(kind, s, m, p) ==
  IF s.stopped \/ p.limit # "interaction" THEN {s}
  ELSE {survive(s, FALSE)}     (* a delta interaction *)
       \cup Ionisations(kind, s, m) \cup Bremsstrahlungs(kind, s, m)
       \cup AnnihilationsInFlight(kind, s, m)

(* A stopped positron annihilates at rest.                                 *)
Stop(kind, s, m) ==
  IF ~s.stopped THEN s
  ELSE IF kind = "electron" THEN MarkSlotForFreeing(s)
  ELSE IF m.ApplyCuts /\ restMass < m.theGammaCut
    THEN MarkSlotForFreeing([s EXCEPT !.energyDeposit = @ + 2 * restMass])
  ELSE MarkSlotForFreeing([s EXCEPT !.secs["gamma1"] = restMass, !.secs["gamma2"] = restMass])

CrossBoundary(s, p) == IF s.cross_boundary THEN survive(s, ~p.fGPUregion) ELSE s

EndElectronMutant(kind, s, m, p) ==
  IF s.killed THEN s ELSE CrossBoundary(Stop(kind, RecordHit(s, m), m), p)

EndElectron(kind, s, m, p) ==
  IF s.killed THEN s ELSE CrossBoundary(RecordHit(Stop(kind, s, m), m), p)

TransportElectrons(kind, s, m) ==
  UNION {UNION {{EndElectron(kind, d, m, p) :
                   d \in DiscreteProcesses(kind, Propagate(kind, c, p), m, p)} :
           c \in PerformContinuous(s)} :
    p \in Propagations}

-----------------------------------------------------------------------------
(* TransportGammas                                                         *)
GammaAtBoundary(s, p) ==
  survive(IF returnAllSteps
            THEN [s EXCEPT !.hit = [edep |-> 0, last |-> s.returnLastStep]] ELSE s,
          ~p.fGPUregion)

Convert(s, m, elKinEnergy, posKinEnergy) ==
  LET first == CutOrCreate(s, m.ApplyCuts /\ elKinEnergy < m.theElCut,
                           "electron", elKinEnergy)
  IN MarkSlotForFreeing(
       CutOrCreate(first, m.ApplyCuts /\ restMass < m.theGammaCut
                            /\ posKinEnergy < m.thePosCut,
                   "positron", posKinEnergy))

Conversions(s, m) ==
  IF s.eKin < 2 * restMass THEN {survive(s, FALSE)}
  ELSE {Convert(s, m, e, s.eKin - 2 * restMass - e) : e \in 0 .. s.eKin - 2 * restMass}

ScatterMutant(s, m, newEnergyGamma) ==
  LET energyEl == s.eKin - newEnergyGamma
      first == CutOrCreate(s, energyEl <= LowEnergyThreshold, "electron", energyEl)
  IN IF newEnergyGamma > LowEnergyThreshold
       THEN [survive(first, FALSE) EXCEPT !.eKin = newEnergyGamma]
       ELSE MarkSlotForFreeing([first EXCEPT !.energyDeposit = @ + newEnergyGamma])

Scatter(s, m, newEnergyGamma) ==
  LET energyEl == s.eKin - newEnergyGamma
      cut == energyEl <= (IF m.ApplyCuts THEN m.theElCut ELSE LowEnergyThreshold)
      first == CutOrCreate(s, cut, "electron", energyEl)
  IN IF newEnergyGamma > LowEnergyThreshold
       THEN survive([first EXCEPT !.eKin = newEnergyGamma], FALSE)
       ELSE MarkSlotForFreeing([first EXCEPT !.energyDeposit = @ + newEnergyGamma])

(* A photon never gives all its energy to a free electron.                 *)
Comptons(s, m) ==
  IF s.eKin < LowEnergyThreshold THEN {survive(s, FALSE)}
  ELSE {Scatter(s, m, e) : e \in 1 .. s.eKin}

Absorb(s, m, bindingEnergy) ==
  LET photoElecE == s.eKin - bindingEnergy
  IN IF photoElecE > (IF m.ApplyCuts THEN m.theElCut ELSE theLowEnergyThreshold)
       THEN MarkSlotForFreeing([s EXCEPT !.energyDeposit = bindingEnergy,
                                         !.secs["electron"] = photoElecE])
       ELSE MarkSlotForFreeing([s EXCEPT !.energyDeposit = s.eKin])

Photoelectrics(s, m) == {Absorb(s, m, e) : e \in 1 .. s.eKin}

GammaNuclears(s) == {survive(s, FALSE)}

TransportGammas(s, m) ==
  {GammaAtBoundary(s, p) : p \in Propagations}
  \cup {RecordHit(LeaveWorld("gamma", s), m)}
  \cup {RecordHit(i, m) : i \in Conversions(s, m) \cup Comptons(s, m)
                                 \cup Photoelectrics(s, m) \cup GammaNuclears(s)}

-----------------------------------------------------------------------------
OutcomesUnlimited(track, m, returnLastStep, finishOff) ==
  LET s == Begin(track, returnLastStep)
  IN IF finishOff THEN {survive(s, TRUE)}
     ELSE IF track.kind = "gamma" THEN TransportGammas(s, m)
     ELSE IF track.stepCounter >= maxSteps THEN {Kill(track.kind, s)}
     ELSE TransportElectrons(track.kind, s, m)

(* The head of both kernels, and the rest.                                 *)
Outcomes(track, m, returnLastStep, finishOff) ==
  LET s == Begin(track, returnLastStep)
  IN IF track.stepCounter >= maxSteps THEN {Kill(track.kind, s)}
     ELSE IF finishOff THEN {survive(s, TRUE)}
     ELSE IF track.kind = "gamma" THEN TransportGammas(s, m)
     ELSE TransportElectrons(track.kind, s, m)
=============================================================================
