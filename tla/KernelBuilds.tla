---------------------------- MODULE KernelBuilds ----------------------------
(* One step of a track in the other builds of the kernels: the superseded  *)
(* asynchronous ones (kernels/electrons_async.cuh, gammas_async.cuh) and   *)
(* the split ones of the synchronous build (kernels/electrons_split.cuh,   *)
(* gammas_split.cuh), as sets of outcomes in the form of KernelSteps.      *)
(* Neither knows tracking cuts, production cuts, the looper guard or the   *)
(* returned last steps.                                                    *)
EXTENDS KernelSteps

(* Energy that no hit, deposit or track has any more (a ghost).            *)
Drop(s, energy) == [s EXCEPT !.dropped = @ + energy]

Create(s, name, energy) == CutOrCreate(s, FALSE, name, energy)
TwoGammas(s, theGamma1Ekin, theGamma2Ekin) ==
  Create(Create(s, "gamma1", theGamma1Ekin), "gamma2", theGamma2Ekin)

(* These kernels record a hit in a sensitive volume whatever it deposits.  *)
RecordStep(s, m) ==
  IF m.sensitive THEN [s EXCEPT !.hit = [edep |-> s.energyDeposit, last |-> FALSE]] ELSE s

(* A track ends by marking its slot, or (FALSE) by being enqueued nowhere, *)
(* in the split kernels: the swap of the queues gives its slot back.       *)
End(frees, s) == IF frees THEN MarkSlotForFreeing(s) ELSE s

(* All the ways an electron or positron of energy s.eKin can interact.     *)
Lose(s, name, delta) == survive([Create(s, name, delta) EXCEPT !.eKin = @ - delta], FALSE)
Interact(kind, s, frees) ==
  {survive(s, FALSE)}     (* a delta interaction *)
  \cup {Lose(s, "electron", delta) :
          delta \in {d \in 1 .. s.eKin : kind = "electron" => 2 * d <= s.eKin}}
  \cup {Lose(s, "gamma", delta) : delta \in 1 .. s.eKin}
  \cup {End(frees, TwoGammas(s, e, EnergyOf("positron", s.eKin) - e)) :
          e \in IF kind = "positron" THEN 1 .. EnergyOf("positron", s.eKin) - 1 ELSE {}}

(* What follows the continuous losses and the hit.                         *)
Discrete(kind, s, p, frees) ==
  IF s.stopped
    THEN {End(frees, IF kind = "positron" THEN TwoGammas(s, restMass, restMass) ELSE s)}
  ELSE IF p.limit = "outside" THEN {End(frees, [s EXCEPT !.escaped = EnergyOf(kind, s.eKin)])}
  ELSE IF p.limit = "boundary" THEN {survive(s, ~p.fGPUregion)}
  ELSE IF p.limit = "interaction" THEN Interact(kind, s, frees)
  ELSE {survive(s, FALSE)}

Conversion(s, frees) ==
  IF s.eKin < 2 * restMass THEN {survive(s, FALSE)}
  ELSE {End(frees, Create(Create(s, "electron", e), "positron", s.eKin - 2 * restMass - e)) :
          e \in 0 .. s.eKin - 2 * restMass}

(* Compton scattering: what is below the threshold gets a hit without a    *)
(* deposit, be it the electron or the gamma.                               *)
ScatterOff(s, m, newEnergyGamma, frees) ==
  LET energyEl == s.eKin - newEnergyGamma
      first == IF energyEl > LowEnergyThreshold THEN Create(s, "electron", energyEl)
               ELSE Drop(RecordStep(s, m), energyEl)
  IN IF newEnergyGamma > LowEnergyThreshold
       THEN survive([first EXCEPT !.eKin = newEnergyGamma], FALSE)
       ELSE End(frees, Drop(RecordStep(first, m), newEnergyGamma))

Compton(s, m, frees) ==
  IF s.eKin < LowEnergyThreshold THEN {survive(s, FALSE)}
  ELSE {ScatterOff(s, m, e, frees) : e \in 1 .. s.eKin}

(* The hit comes after the deposit is known.                               *)
AbsorbAndRecordMutant(s, m, bindingEnergy) ==
  LET hit == RecordStep(s, m)
      photoElecE == s.eKin - bindingEnergy
  IN IF photoElecE > theLowEnergyThreshold
       THEN [Create(hit, "electron", photoElecE) EXCEPT !.energyDeposit = bindingEnergy]
       ELSE [hit EXCEPT !.energyDeposit = s.eKin]

AbsorbAndRecord(s, m, bindingEnergy) ==
  LET photoElecE == s.eKin - bindingEnergy
  IN RecordStep(IF photoElecE > theLowEnergyThreshold
                  THEN [Create(s, "electron", photoElecE) EXCEPT !.energyDeposit = bindingEnergy]
                  ELSE [s EXCEPT !.energyDeposit = s.eKin], m)

Photoelectric(s, m, frees) == {End(frees, AbsorbAndRecord(s, m, e)) : e \in 1 .. s.eKin}

-----------------------------------------------------------------------------
(* The superseded asynchronous kernels.                                    *)
AsyncElectrons(kind, s, m) ==
  UNION {UNION {Discrete(kind, RecordStep(c, m), p, TRUE) : p \in Propagations} :
           c \in PerformContinuous(s)}

(* TransportGammas moves a gamma to a boundary, or to the queue of its     *)
(* interaction, from which ApplyGammaInteractions takes it.                *)
GammaProcesses == {"PairCreation", "ComptonScattering", "PhotoelectricProcess"}

ApplyGammaInteractions(s, m, interactionType) ==
  CASE interactionType = "PairCreation" -> Conversion(s, TRUE)
    [] interactionType = "ComptonScattering" -> Compton(s, m, TRUE)
    [] interactionType = "PhotoelectricProcess" -> Photoelectric(s, m, TRUE)

AsyncGammas(s, m) ==
  {survive(s, ~p.fGPUregion) : p \in {q \in Propagations : q.limit = "boundary"}}
  \cup {LeaveWorld("gamma", s)}
  \cup {survive(s, FALSE)}     (* gamma-nuclear *)
  \cup UNION {ApplyGammaInteractions(s, m, t) : t \in GammaProcesses}

(* Only the electrons' kernel counts steps.                                *)
AsyncOutcomes(track, m) ==
  LET s == Begin(track, FALSE)
  IN IF track.kind = "gamma" THEN AsyncGammas(s, m)
     ELSE IF track.stepCounter >= maxSteps THEN {Kill(track.kind, s)}
     ELSE AsyncElectrons(track.kind, s, m)

-----------------------------------------------------------------------------
(* The split kernels: every stage is a kernel of its own that works on the *)
(* local variables left in the track by the stage before.                  *)
GiveUp(s) == IF s.next + s.leaks = 0 THEN MarkSlotForFreeing(s) ELSE s

(* ElectronHowFar (no lepton-nuclear process), ElectronPropagation,        *)
(* ElectronMSC, ElectronRelocation, ElectronInteractions.                  *)
ElectronHowFar == {"nothing", "interaction"}
ElectronPropagation(limit) ==
  {p \in Propagations : p.limit = limit \/ p.limit \in {"boundary", "outside", "unfinished"}}
ElectronMSC(s) == PerformContinuous(s)
SwitchOnProcess(kind, s) == Interact(kind, s, FALSE)
ElectronInteractions(kind, s, m, p) ==
  LET hit == RecordStep(s, m)
  IN IF ~s.stopped /\ p.limit = "interaction" THEN SwitchOnProcess(kind, hit)
     ELSE Discrete(kind, hit, p, FALSE)

SplitElectrons(kind, s, m) ==
  UNION {UNION {UNION {ElectronInteractions(kind, c, m, p) : c \in ElectronMSC(s)} :
                  p \in ElectronPropagation(limit)} : limit \in ElectronHowFar}

(* GammaHowFar chooses the process before the gamma moves; gamma-nuclear   *)
(* becomes none.                                                           *)
GammaHowFar == {0, 1, 2, -1}
GammaPropagation == Propagations

(* A gamma at a boundary goes to its queue here, and is marked with        *)
(* restrictedPhysicalStepLength for the next kernel to skip it.            *)
GammaRelocationMutant(s, p) ==
  [s |-> IF p.limit = "boundary" THEN survive(s, ~p.fGPUregion) ELSE s,
   restrictedPhysicalStepLength |-> FALSE]
GammaRelocation(s, p) ==
  [s |-> IF p.limit = "boundary" THEN survive(s, ~p.fGPUregion)
         ELSE IF p.limit = "outside" THEN [s EXCEPT !.escaped = s.eKin] ELSE s,
   restrictedPhysicalStepLength |-> p.limit \in {"boundary", "outside"}]

(* Without a process the kernel just goes on to its next track: the gamma  *)
(* is in no queue, and lost.                                               *)
GammaInteractions(r, m, winnerProcessIndex) ==
  IF r.restrictedPhysicalStepLength THEN {r.s}
  ELSE CASE winnerProcessIndex < 0 -> {Drop(r.s, r.s.eKin)}
         [] winnerProcessIndex = 0 -> Conversion(r.s, FALSE)
         [] winnerProcessIndex = 1 -> Compton(r.s, m, FALSE)
         [] winnerProcessIndex = 2 -> Photoelectric(r.s, m, FALSE)

SplitGammas(s, m) ==
  UNION {UNION {GammaInteractions(GammaRelocation(s, p), m, winner) : p \in GammaPropagation} :
           winner \in GammaHowFar}

SplitOutcomes(track, m) ==
  LET s == Begin(track, FALSE)
  IN {GiveUp(o) : o \in IF track.kind = "gamma" THEN SplitGammas(s, m)
                        ELSE SplitElectrons(track.kind, s, m)}
=============================================================================
