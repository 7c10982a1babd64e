------------------------------ MODULE TrackLife ------------------------------
(* The tracks of a shower on the device, from a particle that Geant4 hands *)
(* over to the end of all its descendants: the kernels' steps              *)
(* (KernelSteps) on slots, active queues, leak queues and the list of      *)
(* slots to free, iteration by iteration (TransportLoop).                  *)
EXTENDS KernelSteps, FiniteSets, FiniteSetsExt, Functions

CONSTANTS
  NSlots,               (* slots of the device                             *)
  Primaries,            (* kinds and kinetic energies of what is injected  *)
  returnLast,           (* fReturnFirstAndLastStep                         *)
  lastNParticlesOnCPU

ASSUME TrackLifeAssumption ==
  /\ NSlots \in Nat \ {0} /\ Primaries \subseteq Kinds \X Nat
  /\ returnLast \in BOOLEAN /\ lastNParticlesOnCPU \in Nat

Slots == 1 .. NSlots
Queues == {"active", "next", "leaked", "marked"}

VARIABLES
  tracks,               (* what is in a slot                               *)
  where,                (* how often a slot is in each queue or list       *)
  injected,             (* history: energy handed over                     *)
  ledger,               (* history: where it went                          *)
  active,               (* size of the active queues in this iteration     *)
  perEventInFlightPrevious,
  allowFinishOffEvent,
  cleared               (* kernels with a thread that cleared its flag     *)

vars == <<tracks, where, injected, ledger, active, perEventInFlightPrevious,
          allowFinishOffEvent, cleared>>

NewTrack(kind, eKin) ==
  [kind |-> kind, eKin |-> eKin, stepCounter |-> 0, looperCounter |-> 0]
Vacant == NewTrack("none", 0)
Stuck == NewTrack("killed", 0)

Nowhere == [q \in Queues |-> 0]
In(q) == {s \in Slots : where[s][q] > 0}
Free == {s \in Slots : tracks[s] = Vacant}

(* AddTrack and InitTracks: one particle, and the loop's first iteration.  *)
Init ==
  /\ \E p \in Primaries :
       /\ tracks = [s \in Slots |-> IF s = 1 THEN NewTrack(p[1], p[2]) ELSE Vacant]
       /\ injected = EnergyOf(p[1], p[2])
  /\ where = [s \in Slots |-> IF s = 1 THEN [Nowhere EXCEPT !["active"] = 1] ELSE Nowhere]
  /\ ledger = [deposited |-> 0, returned |-> 0, escaped |-> 0, dropped |-> 0]
  /\ active = 1 /\ perEventInFlightPrevious = 0
  /\ allowFinishOffEvent \in {0, lastNParticlesOnCPU}
  /\ cleared = {}

-----------------------------------------------------------------------------
(* The last particles of an event may be finished on the CPU.              *)
FinishOff ==
  /\ perEventInFlightPrevious < allowFinishOffEvent
  /\ perEventInFlightPrevious # 0

(* The copies of returnLastStep: a thread steps through the active queue   *)
(* with a stride and keeps its copy from one track to the next.            *)
Flags(kind) == {returnLast} \cup (IF kind \in cleared THEN {FALSE} ELSE {})

Stepped(s) == [tracks[s] EXCEPT !.stepCounter = (@ + 1) % Word]

Born(o) == {name \in SecondaryNames : o.secs[name] # None}

(* NextTrack takes a free slot for every secondary.                        *)
SlotsFor(o) == Injection(Born(o), Free)

(* One track's turn in a transport kernel: a step of the track, moved so   *)
(* far, with outcome o, whose secondaries go to the slots slotOf.          *)
StepTo(s, moved, o, slotOf) ==
  LET Newborn(t) == {name \in Born(o) : slotOf[name] = t}
      Child(t) == CHOOSE name \in Newborn(t) : TRUE
  IN /\ tracks' = [t \in Slots |->
          IF t = s THEN (IF o.killed THEN Stuck
                         ELSE [moved EXCEPT !.eKin = o.saved,
                                            !.looperCounter = o.looperCounter])
          ELSE IF Newborn(t) # {} THEN NewTrack(KindOf(Child(t)), o.secs[Child(t)])
          ELSE tracks[t]]
     /\ where' = [t \in Slots |->
          IF t = s THEN [where[s] EXCEPT !["active"] = @ - 1, !["next"] = @ + o.next,
                                         !["leaked"] = @ + o.leaks, !["marked"] = @ + o.marks]
          ELSE IF Newborn(t) # {} THEN [where[t] EXCEPT !["next"] = @ + 1]
          ELSE where[t]]
     /\ ledger' = [ledger EXCEPT !.deposited = @ + o.energyDeposit,
                                 !.escaped = @ + o.escaped, !.dropped = @ + o.dropped]
     /\ cleared' = IF returnLast /\ ~o.returnLastStep
                     THEN cleared \cup {tracks[s].kind} ELSE cleared
     /\ UNCHANGED <<injected, active, perEventInFlightPrevious, allowFinishOffEvent>>

Step(s, o, slotOf) == StepTo(s, Stepped(s), o, slotOf)

StepOutcomes(s, m) ==
  UNION {Outcomes(Stepped(s), m, last, FinishOff) : last \in Flags(tracks[s].kind)}

(* FillFromDeviceBuffer copies a leaked track to the host and marks its    *)
(* slot.                                                                   *)
Extract(s) ==
  /\ s \in In("leaked")
  /\ ledger' = [ledger EXCEPT !.returned = @ + EnergyOf(tracks[s].kind, tracks[s].eKin)]
  /\ where' = [where EXCEPT ![s]["leaked"] = @ - 1, ![s]["marked"] = @ + 1]
  /\ UNCHANGED <<tracks, injected, active, perEventInFlightPrevious,
                 allowFinishOffEvent, cleared>>

(* The end of an iteration: marked slots are freed, the active queues are  *)
(* swapped, and perEventInFlight becomes the previous one.                 *)
NextIteration ==
  /\ In("active") = {} /\ In("next") # {}
  /\ tracks' = [s \in Slots |-> IF s \in In("marked") THEN Vacant ELSE tracks[s]]
  /\ where' = [s \in Slots |->
       [where[s] EXCEPT !["active"] = where[s]["next"], !["next"] = 0, !["marked"] = 0]]
  /\ active' = Cardinality(In("next"))
  /\ perEventInFlightPrevious' = active
  /\ allowFinishOffEvent' \in {0, lastNParticlesOnCPU}
  /\ cleared' = {}
  /\ UNCHANGED <<injected, ledger>>

Finished ==
  /\ In("active") \cup In("next") \cup In("leaked") = {}
  /\ UNCHANGED vars

Next ==
  \/ \E s \in In("active"), m \in Materials :
       \E o \in StepOutcomes(s, m) : \E slotOf \in SlotsFor(o) : Step(s, o, slotOf)
  \/ \E s \in Slots : Extract(s)
  \/ NextIteration \/ Finished

Safety == Init /\ [][Next]_vars
(* Kernels run to their end, and the transport loop goes on.               *)
Spec == Safety /\ WF_vars(Next)

-----------------------------------------------------------------------------
(* Types, which TrackLifeProofs proves.                                    *)
TypeOK ==
  /\ tracks \in [Slots -> {Vacant, Stuck} \cup
                  [kind : Kinds, eKin : Nat, stepCounter : 0 .. maxSteps - 1,
                   looperCounter : 0 .. Word - 1]]
  /\ where \in [Slots -> [Queues -> Nat]]
  /\ injected \in Nat
  /\ ledger \in [deposited : Nat, returned : Nat, escaped : Nat, dropped : Nat]
  /\ active \in 0 .. NSlots /\ perEventInFlightPrevious \in 0 .. NSlots
  /\ allowFinishOffEvent \in {0, lastNParticlesOnCPU}
  /\ cleared \subseteq Kinds

Places(w) == w["active"] + w["next"] + w["leaked"] + w["marked"]

(* A slot that is in use is in exactly one queue or list, unless its track *)
(* was killed: it is never enqueued twice, nor enqueued and freed.         *)
OneDestination ==
  \A s \in Slots : Places(where[s]) = IF tracks[s] \in {Vacant, Stuck} THEN 0 ELSE 1

(* All the energy that came is in a track, was deposited or returned, left *)
(* the world, or was dropped with a killed track or a stopped positron.    *)
EnergyIsAccountedFor ==
  injected = ledger.deposited + ledger.returned + ledger.escaped + ledger.dropped
    + MapThenSumSet(LAMBDA s : EnergyOf(tracks[s].kind, tracks[s].eKin),
                    In("active") \cup In("next") \cup In("leaked"))

(* What a step deposits in a sensitive volume is in the hit it records,    *)
(* whatever the step still does after its interaction.                     *)
DepositsAreScored ==
  \A s \in In("active"), m \in Materials : \A o \in StepOutcomes(s, m) :
    (m.sensitive /\ o.energyDeposit > 0) => o.hit.edep = o.energyDeposit

(* Every shower ends.                                                      *)
TransportEnds == <>(In("active") \cup In("next") \cup In("leaked") = {})
=============================================================================
