--------------------------- MODULE TrackLifeProofs ---------------------------
(* For every energy, material and cut, and in every build of the kernels:  *)
(* a step of a track puts its slot in one place, accounts for all the      *)
(* energy of the track, and scores what it deposits.  From that, for every *)
(* number of slots and every shower: each slot in use is in one place, and *)
(* the energy that came is where the ledger says.                          *)
EXTENDS TrackBuilds, Counting

Locals ==
  [eKin : Nat, saved : Nat, looperCounter : 0 .. Word - 1, energyDeposit : Nat,
   stopped : BOOLEAN, cross_boundary : BOOLEAN, returnLastStep : BOOLEAN,
   killed : BOOLEAN, next : Nat, leaks : Nat, marks : Nat,
   secs : [SecondaryNames -> Nat \cup {None}],
   hit : [edep : Nat \cup {None}, last : BOOLEAN], dropped : Nat, escaped : Nat]

(* What has left the track so far.                                         *)
Spent(s) == s.energyDeposit + SecondaryEnergy(s.secs) + s.dropped

(* On the way, a slot is nowhere and the energy is with the track or spent.*)
Underway(kind, total, s) ==
  /\ s \in Locals
  /\ s.next = 0 /\ s.leaks = 0 /\ s.marks = 0 /\ ~s.killed /\ s.escaped = 0
  /\ total = EnergyOf(kind, s.eKin) + Spent(s)

(* At the end, the slot is in one place and the energy with the track that *)
(* survives, spent, or out of the world.                                   *)
OnePlace(o) == o.next + o.leaks + o.marks = IF o.killed THEN 0 ELSE 1
Balanced(kind, total, o) ==
  total = Spent(o) + o.escaped
            + (IF o.next + o.leaks > 0 THEN EnergyOf(kind, o.saved) ELSE 0)
(* What a step deposits in a sensitive volume is in its hit.               *)
Scored(m, o) ==
  (m.sensitive /\ o.energyDeposit > 0) => o.hit.edep = o.energyDeposit

AtEnd(kind, total, o) ==
  /\ o \in Locals /\ OnePlace(o) /\ Balanced(kind, total, o)
  /\ o.killed => o.energyDeposit = 0

-----------------------------------------------------------------------------
(* Energies are natural numbers.                                           *)
LEMMA EnergyType ==
  ASSUME NEW kind, NEW e \in Nat
  PROVE  EnergyOf(kind, e) \in Nat
BY KernelAssumption DEF EnergyOf

(* So is the energy of the secondaries.                                    *)
LEMMA SecondaryType ==
  ASSUME NEW secs \in [SecondaryNames -> Nat \cup {None}]
  PROVE  SecondaryEnergy(secs) \in Nat
<1>1. \A name \in SecondaryNames : Given(secs, name) \in Nat
  BY EnergyType DEF Given, None
<1> QED BY <1>1 DEF SecondaryEnergy, SecondaryNames

(* A new secondary adds its own energy.                                    *)
LEMMA SecondaryAdded ==
  ASSUME NEW secs \in [SecondaryNames -> Nat \cup {None}],
         NEW name \in SecondaryNames, secs[name] = None, NEW e \in Nat,
         NEW new \in [SecondaryNames -> Nat \cup {None}], new[name] = e,
         \A n \in SecondaryNames : n # name => new[n] = secs[n]
  PROVE  SecondaryEnergy(new) = SecondaryEnergy(secs) + EnergyOf(KindOf(name), e)
<1>1. Given(new, name) = EnergyOf(KindOf(name), e) /\ Given(secs, name) = 0
  BY DEF Given, None
<1>2. \A n \in SecondaryNames : n # name => Given(new, n) = Given(secs, n)
  BY DEF Given
<1>3. \A n \in SecondaryNames : Given(secs, n) \in Nat /\ Given(new, n) \in Nat
  BY EnergyType DEF Given, None
<1>4. EnergyOf(KindOf(name), e) \in Nat
  BY EnergyType
<1> QED BY <1>1, <1>2, <1>3, <1>4 DEF SecondaryEnergy, SecondaryNames

(* A step begins with all the energy in the track.                         *)
LEMMA BeginUnderway ==
  ASSUME NEW track, track.eKin \in Nat, track.looperCounter \in 0 .. Word - 1,
         NEW last \in BOOLEAN, NEW kind
  PROVE  Underway(kind, EnergyOf(kind, track.eKin), Begin(track, last))
<1> DEFINE s == Begin(track, last)
<1>1. s \in Locals
  BY DEF Begin, Locals, NoHit, None, SecondaryNames
<1>2. SecondaryEnergy(s.secs) = 0
  BY DEF Begin, SecondaryEnergy, Given, SecondaryNames
<1>3. EnergyOf(kind, track.eKin) \in Nat
  BY EnergyType
<1> QED BY <1>1, <1>2, <1>3 DEF Underway, Spent, Begin
-----------------------------------------------------------------------------
(* The endings of a step.                                                  *)
LEMMA SurviveEnds ==
  ASSUME NEW kind, NEW total, NEW s, Underway(kind, total, s), NEW leak \in BOOLEAN
  PROVE  AtEnd(kind, total, survive(s, leak)) /\ ~survive(s, leak).killed
<1> DEFINE o == survive(s, leak)
<1>0. s \in Locals /\ s.next + 1 \in Nat /\ s.leaks + 1 \in Nat
  BY DEF Underway, Locals
<1>1. o \in Locals
  BY <1>0 DEF survive, Locals
<1>2. /\ o.saved = s.eKin /\ o.next + o.leaks = 1 /\ o.marks = 0 /\ ~o.killed
      /\ o.energyDeposit = s.energyDeposit /\ o.secs = s.secs
      /\ o.dropped = s.dropped /\ o.escaped = 0
  BY DEF survive, Locals, Underway
<1>3. EnergyOf(kind, s.eKin) \in Nat /\ Spent(o) = Spent(s) /\ Spent(s) \in Nat
  BY <1>2, EnergyType, SecondaryType DEF Spent, Underway, Locals
<1> HIDE DEF o
<1>9. AtEnd(kind, total, o) /\ ~o.killed
  BY <1>1, <1>2, <1>3 DEF AtEnd, OnePlace, Balanced, Underway, Locals
<1> QED BY <1>9 DEF o

(* A killed track is in no queue, and its energy is dropped.               *)
LEMMA KillEnds ==
  ASSUME NEW kind, NEW total, NEW s, Underway(kind, total, s)
  PROVE  AtEnd(kind, total, Kill(kind, s)) /\ Kill(kind, s).killed
<1> DEFINE o == Kill(kind, s)
<1>1. EnergyOf(kind, s.eKin) \in Nat /\ SecondaryEnergy(s.secs) \in Nat
  BY EnergyType, SecondaryType DEF Underway, Locals
<1>0. s \in Locals /\ s.dropped + s.energyDeposit + EnergyOf(kind, s.eKin) \in Nat
  BY <1>1 DEF Underway, Locals
<1>2. o \in Locals
  BY <1>0 DEF Kill, Locals
<1>3. /\ o.next = 0 /\ o.leaks = 0 /\ o.marks = 0 /\ o.killed /\ o.escaped = 0
      /\ o.energyDeposit = 0 /\ o.secs = s.secs
      /\ o.dropped = s.dropped + s.energyDeposit + EnergyOf(kind, s.eKin)
  BY DEF Kill, Locals, Underway
<1>4. s.energyDeposit \in Nat /\ s.dropped \in Nat
  BY DEF Underway, Locals
<1> HIDE DEF o
<1>9. AtEnd(kind, total, o) /\ o.killed
  BY <1>1, <1>2, <1>3, <1>4 DEF AtEnd, OnePlace, Balanced, Underway, Spent
<1> QED BY <1>9 DEF o

(* A track that leaves the world takes its energy with it.                 *)
LEMMA LeaveWorldEnds ==
  ASSUME NEW kind, NEW total, NEW s, Underway(kind, total, s)
  PROVE  AtEnd(kind, total, LeaveWorld(kind, s)) /\ ~LeaveWorld(kind, s).killed
<1> DEFINE o == LeaveWorld(kind, s)
<1>1. EnergyOf(kind, s.eKin) \in Nat /\ SecondaryEnergy(s.secs) \in Nat
  BY EnergyType, SecondaryType DEF Underway, Locals
<1>0. s \in Locals /\ s.marks + 1 \in Nat
  BY DEF Underway, Locals
<1>2. o \in Locals
  BY <1>0, <1>1 DEF LeaveWorld, MarkSlotForFreeing, Locals
<1>3. /\ o.next = 0 /\ o.leaks = 0 /\ o.marks = 1 /\ ~o.killed
      /\ o.escaped = EnergyOf(kind, s.eKin) /\ o.energyDeposit = s.energyDeposit
      /\ o.secs = s.secs /\ o.dropped = s.dropped
  BY DEF LeaveWorld, MarkSlotForFreeing, Locals, Underway
<1>4. s.energyDeposit \in Nat /\ s.dropped \in Nat
  BY DEF Underway, Locals
<1> HIDE DEF o
<1>9. AtEnd(kind, total, o) /\ ~o.killed
  BY <1>1, <1>2, <1>3, <1>4 DEF AtEnd, OnePlace, Balanced, Underway, Spent
<1> QED BY <1>9 DEF o

(* A track whose energy is spent dies by its mark.                         *)
SpentUp(total, s) ==
  /\ s \in Locals
  /\ s.next = 0 /\ s.leaks = 0 /\ s.marks = 0 /\ ~s.killed /\ s.escaped = 0
  /\ total = Spent(s)

(* It is marked once, and gives its energy away.                           *)
LEMMA MarkEnds ==
  ASSUME NEW kind, NEW total, NEW s, SpentUp(total, s)
  PROVE  AtEnd(kind, total, MarkSlotForFreeing(s)) /\ ~MarkSlotForFreeing(s).killed
<1> DEFINE o == MarkSlotForFreeing(s)
<1>1. o \in Locals
  BY DEF MarkSlotForFreeing, Locals, SpentUp
<1>2. /\ o.next = 0 /\ o.leaks = 0 /\ o.marks = 1 /\ ~o.killed /\ o.escaped = 0
      /\ o.energyDeposit = s.energyDeposit /\ o.secs = s.secs /\ o.dropped = s.dropped
  BY DEF MarkSlotForFreeing, Locals, SpentUp
<1>3. Spent(o) = Spent(s) /\ Spent(s) \in Nat
  BY <1>2, SecondaryType DEF Spent, SpentUp, Locals
<1> HIDE DEF o
<1>9. AtEnd(kind, total, o) /\ ~o.killed
  BY <1>1, <1>2, <1>3 DEF AtEnd, OnePlace, Balanced, SpentUp
<1> QED BY <1>9 DEF o

(* Cutting or creating a secondary spends its energy.                      *)
LEMMA CutOrCreateSpends ==
  ASSUME NEW s \in Locals, NEW cut \in BOOLEAN, NEW name \in SecondaryNames,
         s.secs[name] = None, NEW e \in Nat
  PROVE  LET r == CutOrCreate(s, cut, name, e)
         IN /\ r \in Locals /\ Spent(r) = Spent(s) + EnergyOf(KindOf(name), e)
            /\ Spent(s) \in Nat
            /\ r.eKin = s.eKin /\ r.next = s.next /\ r.leaks = s.leaks
            /\ r.marks = s.marks /\ r.killed = s.killed /\ r.escaped = s.escaped
            /\ r.stopped = s.stopped /\ r.cross_boundary = s.cross_boundary
            /\ \A n \in SecondaryNames : n # name => r.secs[n] = s.secs[n]
<1> DEFINE r == CutOrCreate(s, cut, name, e)
           new == [s.secs EXCEPT ![name] = e]
<1>1. EnergyOf(KindOf(name), e) \in Nat /\ SecondaryEnergy(s.secs) \in Nat
  BY EnergyType, SecondaryType DEF Locals
<1>2. s.energyDeposit \in Nat /\ s.dropped \in Nat
      /\ s.secs \in [SecondaryNames -> Nat \cup {None}]
  BY DEF Locals
<1>3. Spent(s) \in Nat
  BY <1>1, <1>2 DEF Spent
<1>4. /\ r.eKin = s.eKin /\ r.next = s.next /\ r.leaks = s.leaks
      /\ r.marks = s.marks /\ r.killed = s.killed /\ r.escaped = s.escaped
      /\ r.dropped = s.dropped
      /\ r.stopped = s.stopped /\ r.cross_boundary = s.cross_boundary
  BY DEF CutOrCreate, Locals
<1>5. CASE cut
  <2>1. r.energyDeposit = s.energyDeposit + EnergyOf(KindOf(name), e)
        /\ r.secs = s.secs
    BY <1>5 DEF CutOrCreate, Locals
  <2>2. r \in Locals
    BY <1>1, <1>2, <1>5 DEF CutOrCreate, Locals
  <2> QED BY <1>1, <1>2, <1>3, <1>4, <2>1, <2>2 DEF Spent
<1>6. CASE ~cut
  <2>1. r.energyDeposit = s.energyDeposit /\ r.secs = new
    BY <1>6 DEF CutOrCreate, Locals
  <2>2. /\ new \in [SecondaryNames -> Nat \cup {None}]
        /\ SecondaryEnergy(new) = SecondaryEnergy(s.secs) + EnergyOf(KindOf(name), e)
    <3>1. new \in [SecondaryNames -> Nat \cup {None}] /\ new[name] = e
          /\ \A n \in SecondaryNames : n # name => new[n] = s.secs[n]
      BY <1>2
    <3> HIDE DEF new
    <3> QED BY <1>2, <3>1, SecondaryAdded
  <2>3. r \in Locals
    BY <1>6, <2>2 DEF CutOrCreate, Locals
  <2>4. \A n \in SecondaryNames : n # name => new[n] = s.secs[n]
    BY <1>2
  <2> HIDE DEF new
  <2> QED BY <1>1, <1>2, <1>3, <1>4, <2>1, <2>2, <2>3, <2>4 DEF Spent
<1> QED BY <1>5, <1>6
-----------------------------------------------------------------------------
(* TransportElectrons, stage by stage.                                     *)

(* No secondary yet.                                                       *)
Fresh(kind, total, s) ==
  Underway(kind, total, s) /\ \A n \in SecondaryNames : s.secs[n] = None

(* What the stage before Stop can leave: a step that has ended, one at a   *)
(* boundary it will cross, and one that stops.                             *)
Ended(kind, total, s) == AtEnd(kind, total, s) /\ ~s.stopped /\ ~s.cross_boundary
Crossing(kind, total, s) == Underway(kind, total, s) /\ ~s.stopped /\ s.cross_boundary
Stopping(kind, total, s) ==
  /\ Underway(kind, total, s) /\ s.stopped /\ ~s.cross_boundary
  /\ s.eKin = 0 /\ s.secs["gamma1"] = None /\ s.secs["gamma2"] = None

(* None of the endings touches the flags of the step.                      *)
LEMMA FlagsStay ==
  ASSUME NEW s \in Locals, NEW kind, NEW leak \in BOOLEAN
  PROVE  /\ survive(s, leak).stopped = s.stopped
         /\ survive(s, leak).cross_boundary = s.cross_boundary
         /\ Kill(kind, s).stopped = s.stopped
         /\ Kill(kind, s).cross_boundary = s.cross_boundary
         /\ LeaveWorld(kind, s).stopped = s.stopped
         /\ LeaveWorld(kind, s).cross_boundary = s.cross_boundary
         /\ MarkSlotForFreeing(s).stopped = s.stopped
         /\ MarkSlotForFreeing(s).cross_boundary = s.cross_boundary
BY DEF survive, Kill, LeaveWorld, MarkSlotForFreeing, Locals

(* The continuous loss moves energy to the deposit.                        *)
LEMMA ContinuousLoss ==
  ASSUME NEW kind, NEW total, NEW s, Fresh(kind, total, s),
         s.energyDeposit = 0, ~s.stopped, ~s.cross_boundary,
         NEW c \in PerformContinuous(s)
  PROVE  /\ Fresh(kind, total, c) /\ ~c.cross_boundary
         /\ c.stopped => c.eKin = 0
<1>0. s \in Locals /\ s.eKin \in Nat /\ s.dropped \in Nat
      /\ SecondaryEnergy(s.secs) \in Nat
  BY SecondaryType DEF Fresh, Underway, Locals
<1> DEFINE Same == /\ c.cross_boundary = s.cross_boundary /\ c.secs = s.secs
                   /\ c.dropped = s.dropped /\ c.next = s.next /\ c.leaks = s.leaks
                   /\ c.marks = s.marks /\ c.killed = s.killed /\ c.escaped = s.escaped
<1>2. ASSUME NEW e \in 1 .. s.eKin,
             c = [s EXCEPT !.eKin = e, !.energyDeposit = s.eKin - e]
      PROVE  /\ c \in Locals /\ Same /\ (c.stopped => c.eKin = 0)
             /\ c.eKin \in Nat /\ c.energyDeposit \in Nat
             /\ c.eKin + c.energyDeposit = s.eKin
  <2>1. e \in Nat /\ s.eKin - e \in Nat
    BY <1>0
  <2>2. c \in Locals
    BY <1>0, <1>2, <2>1 DEF Locals
  <2>3. Same /\ c.eKin = e /\ c.energyDeposit = s.eKin - e /\ ~c.stopped
    BY <1>0, <1>2 DEF Locals
  <2> QED BY <1>0, <2>1, <2>2, <2>3
<1>3. /\ c \in Locals /\ Same /\ (c.stopped => c.eKin = 0)
      /\ c.eKin \in Nat /\ c.energyDeposit \in Nat
      /\ c.eKin + c.energyDeposit = s.eKin
  <2>1. CASE c = [s EXCEPT !.eKin = 0, !.energyDeposit = s.eKin, !.stopped = TRUE]
    <3>1. c \in Locals /\ Same /\ c.eKin = 0 /\ c.energyDeposit = s.eKin
      <4>1. c \in Locals
        BY <1>0, <2>1 DEF Locals
      <4>2. Same /\ c.eKin = 0 /\ c.energyDeposit = s.eKin
        BY <1>0, <2>1 DEF Locals
      <4> QED BY <4>1, <4>2
    <3> QED BY <1>0, <3>1
  <2>2. CASE \E e \in 1 .. s.eKin :
               c = [s EXCEPT !.eKin = e, !.energyDeposit = s.eKin - e]
    BY <1>2, <2>2
  <2> QED BY <2>1, <2>2 DEF PerformContinuous
<1>4. /\ EnergyOf(kind, c.eKin) \in Nat /\ EnergyOf(kind, s.eKin) \in Nat
      /\ EnergyOf(kind, c.eKin) + c.energyDeposit = EnergyOf(kind, s.eKin)
  BY <1>0, <1>3, EnergyType, KernelAssumption DEF EnergyOf
<1>7. total = EnergyOf(kind, c.eKin) + Spent(c)
  BY <1>0, <1>3, <1>4 DEF Fresh, Underway, Spent
<1> QED BY <1>0, <1>3, <1>7 DEF Fresh, Underway

(* The branches before a discrete process.                                 *)
LEMMA PropagateStages ==
  ASSUME NEW kind, NEW total, NEW c, Fresh(kind, total, c), ~c.cross_boundary,
         c.stopped => c.eKin = 0, NEW p \in Propagations
  PROVE  LET r == Propagate(kind, c, p)
         IN \/ Fresh(kind, total, r) /\ ~r.cross_boundary /\ ~r.stopped
                 /\ p.limit = "interaction"
            \/ Stopping(kind, total, r)
            \/ p.limit # "interaction"
                 /\ (Ended(kind, total, r) \/ Crossing(kind, total, r))
<1> DEFINE looper == IF p.tiny THEN (c.looperCounter + tinyStepPenalty) % Word
                               ELSE c.looperCounter
           count == (looper + 1) % Word
           resting == [c EXCEPT !.looperCounter = 0]
           moving == [c EXCEPT !.looperCounter = looper]
           looping == [c EXCEPT !.looperCounter = count]
           crossing == [looping EXCEPT !.cross_boundary = TRUE, !.returnLastStep = FALSE]
<1>1. c \in Locals
  BY DEF Fresh, Underway
<1>2. looper \in 0 .. Word - 1 /\ count \in 0 .. Word - 1 /\ 0 \in 0 .. Word - 1
  BY <1>1, KernelAssumption DEF Locals
<1>3. \A n \in 0 .. Word - 1 :
        LET r == [c EXCEPT !.looperCounter = n]
        IN Fresh(kind, total, r) /\ r.stopped = c.stopped /\ ~r.cross_boundary
           /\ r.eKin = c.eKin
  <2> SUFFICES ASSUME NEW n \in 0 .. Word - 1
               PROVE  LET r == [c EXCEPT !.looperCounter = n]
                      IN Fresh(kind, total, r) /\ r.stopped = c.stopped
                         /\ ~r.cross_boundary /\ r.eKin = c.eKin
    OBVIOUS
  <2> DEFINE r == [c EXCEPT !.looperCounter = n]
  <2>1. r \in Locals
    BY <1>1 DEF Locals
  <2>2. /\ r.eKin = c.eKin /\ r.energyDeposit = c.energyDeposit
        /\ r.stopped = c.stopped /\ r.cross_boundary = c.cross_boundary
        /\ r.secs = c.secs /\ r.dropped = c.dropped /\ r.next = c.next
        /\ r.leaks = c.leaks /\ r.marks = c.marks /\ r.killed = c.killed
        /\ r.escaped = c.escaped
    BY <1>1 DEF Locals
  <2> HIDE DEF r
  <2>3. Fresh(kind, total, r) /\ r.stopped = c.stopped /\ ~r.cross_boundary
        /\ r.eKin = c.eKin
    BY <2>1, <2>2 DEF Fresh, Underway, Spent
  <2> QED BY <2>3 DEF r
<1>4. /\ Fresh(kind, total, resting) /\ resting.stopped = c.stopped
      /\ ~resting.cross_boundary /\ resting.eKin = c.eKin
  BY <1>2, <1>3
<1>5. Fresh(kind, total, moving) /\ moving.stopped = c.stopped /\ ~moving.cross_boundary
  BY <1>2, <1>3
<1>6. Fresh(kind, total, looping) /\ looping.stopped = c.stopped /\ ~looping.cross_boundary
  BY <1>2, <1>3
<1>7. Underway(kind, total, crossing) /\ crossing.stopped = c.stopped
      /\ crossing.cross_boundary
  <2>1. looping \in Locals
    BY <1>6 DEF Fresh, Underway
  <2> HIDE DEF looping
  <2>2. crossing \in Locals
    BY <2>1 DEF Locals
  <2>3. /\ crossing.eKin = looping.eKin /\ crossing.energyDeposit = looping.energyDeposit
        /\ crossing.stopped = looping.stopped /\ crossing.cross_boundary
        /\ crossing.secs = looping.secs /\ crossing.dropped = looping.dropped
        /\ crossing.next = looping.next /\ crossing.leaks = looping.leaks
        /\ crossing.marks = looping.marks /\ crossing.killed = looping.killed
        /\ crossing.escaped = looping.escaped
    BY <2>1 DEF Locals
  <2> HIDE DEF crossing
  <2> QED BY <1>6, <2>2, <2>3 DEF Fresh, Underway, Spent
<1>8. Propagate(kind, c, p) =
        IF c.stopped \/ p.limit = "interaction" THEN resting
        ELSE IF p.limit = "nothing" THEN survive(moving, FALSE)
        ELSE IF looping.looperCounter > maxLoops THEN Kill(kind, looping)
        ELSE IF p.limit = "unfinished" THEN survive(looping, FALSE)
        ELSE IF p.limit = "outside" THEN LeaveWorld(kind, looping)
        ELSE crossing
  BY DEF Propagate
<1>9. ~c.stopped => /\ Ended(kind, total, survive(moving, FALSE))
                    /\ Ended(kind, total, survive(looping, FALSE))
                    /\ Ended(kind, total, Kill(kind, looping))
                    /\ Ended(kind, total, LeaveWorld(kind, looping))
                    /\ Crossing(kind, total, crossing)
  <2> HIDE DEF moving, looping, crossing
  <2>1. moving \in Locals /\ looping \in Locals
        /\ Underway(kind, total, moving) /\ Underway(kind, total, looping)
    BY <1>5, <1>6 DEF Fresh, Underway
  <2>2. /\ AtEnd(kind, total, survive(moving, FALSE))
        /\ AtEnd(kind, total, survive(looping, FALSE))
        /\ AtEnd(kind, total, Kill(kind, looping))
        /\ AtEnd(kind, total, LeaveWorld(kind, looping))
    BY <2>1, SurviveEnds, KillEnds, LeaveWorldEnds
  <2>3. /\ survive(moving, FALSE).stopped = moving.stopped
        /\ survive(moving, FALSE).cross_boundary = moving.cross_boundary
        /\ survive(looping, FALSE).stopped = looping.stopped
        /\ survive(looping, FALSE).cross_boundary = looping.cross_boundary
        /\ Kill(kind, looping).stopped = looping.stopped
        /\ Kill(kind, looping).cross_boundary = looping.cross_boundary
        /\ LeaveWorld(kind, looping).stopped = looping.stopped
        /\ LeaveWorld(kind, looping).cross_boundary = looping.cross_boundary
    BY <2>1, FlagsStay
  <2> QED BY <1>5, <1>6, <1>7, <2>2, <2>3, Zenon DEF Ended, Crossing
<1>10. c.stopped => Stopping(kind, total, resting)
  BY <1>4 DEF Stopping, Fresh, SecondaryNames
<1> HIDE DEF resting, moving, looping, crossing
<1> QED BY <1>4, <1>8, <1>9, <1>10
-----------------------------------------------------------------------------
(* The discrete processes, for a step that has an interaction.             *)
LEMMA LoseEnergyStages ==
  ASSUME NEW kind \in {"electron", "positron"}, NEW total, NEW s,
         Fresh(kind, total, s), ~s.stopped, ~s.cross_boundary,
         NEW name \in {"electron", "gamma"}, NEW cut \in BOOLEAN,
         NEW delta \in 1 .. s.eKin
  PROVE  LET r == LoseEnergy(kind, s, name, cut, delta)
         IN Ended(kind, total, r) \/ Stopping(kind, total, r)
<1> DEFINE lost == CutOrCreate(s, cut, name, delta)
           rest == s.eKin - delta
           going == [lost EXCEPT !.eKin = rest]
           still == [lost EXCEPT !.eKin = 0, !.stopped = TRUE, !.energyDeposit = @ + rest]
           gone == [lost EXCEPT !.eKin = 0, !.stopped = TRUE, !.dropped = @ + rest]
<1>1. /\ s \in Locals /\ s.eKin \in Nat /\ delta \in Nat /\ rest \in Nat
      /\ s.eKin = rest + delta
  BY DEF Fresh, Underway, Locals
<1>2. name \in SecondaryNames /\ s.secs[name] = None /\ KindOf(name) = name
      /\ EnergyOf(KindOf(name), delta) = delta
  BY <1>1 DEF Fresh, SecondaryNames, KindOf, EnergyOf
<1>3. /\ lost \in Locals /\ Spent(lost) = Spent(s) + delta /\ Spent(s) \in Nat
      /\ lost.next = 0 /\ lost.leaks = 0 /\ lost.marks = 0 /\ ~lost.killed
      /\ lost.escaped = 0 /\ ~lost.stopped /\ ~lost.cross_boundary
      /\ lost.secs["gamma1"] = None /\ lost.secs["gamma2"] = None
  <2>1. LET r == CutOrCreate(s, cut, name, delta)
        IN /\ r \in Locals /\ Spent(r) = Spent(s) + EnergyOf(KindOf(name), delta)
           /\ Spent(s) \in Nat
           /\ r.eKin = s.eKin /\ r.next = s.next /\ r.leaks = s.leaks
           /\ r.marks = s.marks /\ r.killed = s.killed /\ r.escaped = s.escaped
           /\ r.stopped = s.stopped /\ r.cross_boundary = s.cross_boundary
           /\ \A n \in SecondaryNames : n # name => r.secs[n] = s.secs[n]
    BY <1>1, <1>2, CutOrCreateSpends
  <2> HIDE DEF lost
  <2> QED BY <1>2, <2>1 DEF Fresh, Underway, SecondaryNames, lost
<1>4. total = EnergyOf(kind, s.eKin) + Spent(s)
  BY DEF Fresh, Underway
<1>5. EnergyOf(kind, s.eKin) = EnergyOf(kind, rest) + delta
      /\ EnergyOf(kind, rest) \in Nat
  BY <1>1, KernelAssumption DEF EnergyOf
<1>6. /\ SecondaryEnergy(lost.secs) \in Nat /\ lost.energyDeposit \in Nat
      /\ lost.dropped \in Nat
  <2> HIDE DEF lost
  <2> QED BY <1>3, SecondaryType DEF Locals
<1>7. Underway(kind, total, going) /\ ~going.stopped /\ ~going.cross_boundary
  <2> HIDE DEF lost, rest
  <2>1. going \in Locals
    BY <1>1, <1>3 DEF Locals
  <2>2. /\ going.eKin = rest /\ going.energyDeposit = lost.energyDeposit
        /\ going.secs = lost.secs /\ going.dropped = lost.dropped
        /\ going.next = lost.next /\ going.leaks = lost.leaks
        /\ going.marks = lost.marks /\ going.killed = lost.killed
        /\ going.escaped = lost.escaped /\ going.stopped = lost.stopped
        /\ going.cross_boundary = lost.cross_boundary
    BY <1>3 DEF Locals
  <2>3. Spent(going) = Spent(lost)
    BY <2>2 DEF Spent
  <2> HIDE DEF going
  <2> QED BY <1>1, <1>3, <1>4, <1>5, <2>1, <2>2, <2>3 DEF Underway
<1>8. Ended(kind, total, survive(going, FALSE))
  <2> HIDE DEF going
  <2>1. going \in Locals
    BY <1>7 DEF Underway
  <2>2. AtEnd(kind, total, survive(going, FALSE))
    BY <1>7, SurviveEnds
  <2>3. survive(going, FALSE).stopped = going.stopped
        /\ survive(going, FALSE).cross_boundary = going.cross_boundary
    BY <2>1, FlagsStay
  <2> QED BY <1>7, <2>2, <2>3, Zenon DEF Ended
<1>9. EnergyOf(kind, rest) + Spent(lost) = total
  BY <1>3, <1>4, <1>5, <1>1
<1>10. CASE kind = "electron"
  <2> HIDE DEF lost, rest
  <2>0. lost.energyDeposit + rest \in Nat
    BY <1>1, <1>6
  <2>1. still \in Locals
    BY <1>3, <2>0 DEF Locals
  <2>2. /\ still.eKin = 0 /\ still.energyDeposit = lost.energyDeposit + rest
        /\ still.secs = lost.secs /\ still.dropped = lost.dropped
        /\ still.next = lost.next /\ still.leaks = lost.leaks
        /\ still.marks = lost.marks /\ still.killed = lost.killed
        /\ still.escaped = lost.escaped /\ still.stopped
        /\ still.cross_boundary = lost.cross_boundary
    BY <1>3 DEF Locals
  <2>3. Spent(still) = Spent(lost) + rest
    BY <1>1, <1>6, <2>2 DEF Spent
  <2>4. EnergyOf(kind, 0) = 0 /\ EnergyOf(kind, rest) = rest
    BY <1>10 DEF EnergyOf
  <2>5. Spent(lost) \in Nat
    BY <1>6 DEF Spent
  <2> HIDE DEF still
  <2>6. Stopping(kind, total, still)
    BY <1>1, <1>3, <1>9, <2>1, <2>2, <2>3, <2>4, <2>5 DEF Stopping, Underway
  <2>7. LoseEnergy(kind, s, name, cut, delta) \in {survive(going, FALSE), still}
    BY <1>10 DEF LoseEnergy, lost, rest, still
  <2> QED BY <1>8, <2>6, <2>7
<1>11. CASE kind # "electron"
  <2> HIDE DEF lost, rest
  <2>0. lost.dropped + rest \in Nat
    BY <1>1, <1>6
  <2>1. gone \in Locals
    BY <1>3, <2>0 DEF Locals
  <2>2. /\ gone.eKin = 0 /\ gone.energyDeposit = lost.energyDeposit
        /\ gone.secs = lost.secs /\ gone.dropped = lost.dropped + rest
        /\ gone.next = lost.next /\ gone.leaks = lost.leaks
        /\ gone.marks = lost.marks /\ gone.killed = lost.killed
        /\ gone.escaped = lost.escaped /\ gone.stopped
        /\ gone.cross_boundary = lost.cross_boundary
    BY <1>3 DEF Locals
  <2>3. Spent(gone) = Spent(lost) + rest
    BY <1>1, <1>6, <2>2 DEF Spent
  <2>4. EnergyOf(kind, rest) = EnergyOf(kind, 0) + rest /\ EnergyOf(kind, 0) \in Nat
    BY <1>1, KernelAssumption DEF EnergyOf
  <2>5. Spent(lost) \in Nat
    BY <1>6 DEF Spent
  <2> HIDE DEF gone
  <2>6. Stopping(kind, total, gone)
    BY <1>1, <1>3, <1>9, <2>1, <2>2, <2>3, <2>4, <2>5 DEF Stopping, Underway
  <2>7. LoseEnergy(kind, s, name, cut, delta) \in {survive(going, FALSE), gone}
    BY <1>11 DEF LoseEnergy, lost, rest, gone
  <2> QED BY <1>8, <2>6, <2>7
<1> QED BY <1>10, <1>11

(* Two secondaries that share what is left of a track end it.              *)
LEMMA TwoSecondariesEnd ==
  ASSUME NEW kind, NEW total, NEW s, Fresh(kind, total, s),
         NEW cut1 \in BOOLEAN, NEW name1 \in SecondaryNames, NEW e1 \in Nat,
         NEW cut2 \in BOOLEAN, NEW name2 \in SecondaryNames, NEW e2 \in Nat,
         name1 # name2,
         EnergyOf(kind, s.eKin)
           = EnergyOf(KindOf(name1), e1) + EnergyOf(KindOf(name2), e2)
  PROVE  LET r == MarkSlotForFreeing(
                    CutOrCreate(CutOrCreate(s, cut1, name1, e1), cut2, name2, e2))
         IN /\ AtEnd(kind, total, r) /\ ~r.killed
            /\ r.stopped = s.stopped /\ r.cross_boundary = s.cross_boundary
<1> DEFINE f == CutOrCreate(s, cut1, name1, e1)
           g == CutOrCreate(f, cut2, name2, e2)
<1>1. s \in Locals /\ s.secs[name1] = None /\ s.secs[name2] = None
      /\ total = EnergyOf(kind, s.eKin) + Spent(s)
      /\ s.next = 0 /\ s.leaks = 0 /\ s.marks = 0 /\ ~s.killed /\ s.escaped = 0
  BY DEF Fresh, Underway
<1>2. /\ f \in Locals /\ Spent(f) = Spent(s) + EnergyOf(KindOf(name1), e1)
      /\ Spent(s) \in Nat
      /\ f.next = s.next /\ f.leaks = s.leaks
      /\ f.marks = s.marks /\ f.killed = s.killed /\ f.escaped = s.escaped
      /\ f.stopped = s.stopped /\ f.cross_boundary = s.cross_boundary
      /\ f.secs[name2] = s.secs[name2]
  BY <1>1, CutOrCreateSpends
<1> HIDE DEF f
<1>3. /\ g \in Locals /\ Spent(g) = Spent(f) + EnergyOf(KindOf(name2), e2)
      /\ g.next = f.next /\ g.leaks = f.leaks
      /\ g.marks = f.marks /\ g.killed = f.killed /\ g.escaped = f.escaped
      /\ g.stopped = f.stopped /\ g.cross_boundary = f.cross_boundary
  BY <1>1, <1>2, CutOrCreateSpends
<1> HIDE DEF g
<1>4. EnergyOf(KindOf(name1), e1) \in Nat /\ EnergyOf(KindOf(name2), e2) \in Nat
  BY EnergyType
<1>5. SpentUp(total, g)
  BY <1>1, <1>2, <1>3, <1>4 DEF SpentUp
<1>6. AtEnd(kind, total, MarkSlotForFreeing(g)) /\ ~MarkSlotForFreeing(g).killed
  BY <1>5, MarkEnds
<1>7. /\ MarkSlotForFreeing(g).stopped = g.stopped
      /\ MarkSlotForFreeing(g).cross_boundary = g.cross_boundary
  BY <1>3, FlagsStay
<1> QED BY <1>2, <1>3, <1>6, <1>7 DEF f, g

(* Every discrete process ends the step, or stops the track.               *)
LEMMA DiscreteStages ==
  ASSUME NEW kind \in {"electron", "positron"}, NEW total, NEW s,
         Fresh(kind, total, s), ~s.stopped, ~s.cross_boundary,
         NEW m \in Materials, NEW p, p.limit = "interaction",
         NEW r \in DiscreteProcesses(kind, s, m, p)
  PROVE  Ended(kind, total, r) \/ Stopping(kind, total, r)
<1>0. s \in Locals /\ s.eKin \in Nat /\ Underway(kind, total, s)
  BY DEF Fresh, Underway, Locals
<1>1. CASE r = survive(s, FALSE)
  <2>1. AtEnd(kind, total, r)
    BY <1>0, <1>1, SurviveEnds
  <2>2. r.stopped = s.stopped /\ r.cross_boundary = s.cross_boundary
    BY <1>0, <1>1, FlagsStay
  <2> QED BY <2>1, <2>2, Zenon DEF Ended
<1>2. CASE r \in Ionisations(kind, s, m)
  <2>1. PICK delta \in 1 .. s.eKin :
          r = LoseEnergy(kind, s, "electron", m.ApplyCuts /\ delta < m.theElCut, delta)
    BY <1>2 DEF Ionisations
  <2>2. (m.ApplyCuts /\ delta < m.theElCut) \in BOOLEAN
    OBVIOUS
  <2> QED BY <2>1, <2>2, LoseEnergyStages
<1>3. CASE r \in Bremsstrahlungs(kind, s, m)
  <2>1. PICK delta \in 1 .. s.eKin :
          r = LoseEnergy(kind, s, "gamma", m.ApplyCuts /\ delta < m.theGammaCut, delta)
    BY <1>3 DEF Bremsstrahlungs
  <2>2. (m.ApplyCuts /\ delta < m.theGammaCut) \in BOOLEAN
    OBVIOUS
  <2> QED BY <2>1, <2>2, LoseEnergyStages
<1>4. CASE r \in AnnihilationsInFlight(kind, s, m)
  <2> DEFINE all == EnergyOf("positron", s.eKin)
  <2>1. PICK e \in 1 .. all - 1 : kind = "positron" /\ r = Annihilate(s, m, e, all - e)
    BY <1>4 DEF AnnihilationsInFlight
  <2>2. all \in Nat /\ e \in Nat /\ all - e \in Nat
    BY <1>0, <2>1, EnergyType
  <2> HIDE DEF all
  <2>3. EnergyOf("gamma", e) = e /\ EnergyOf("gamma", all - e) = all - e
        /\ KindOf("gamma1") = "gamma" /\ KindOf("gamma2") = "gamma"
        /\ e + (all - e) = all
    BY <2>2 DEF EnergyOf, KindOf
  <2>4. "gamma1" \in SecondaryNames /\ "gamma2" \in SecondaryNames
    BY DEF SecondaryNames
  <2>5. EnergyOf(kind, s.eKin)
          = EnergyOf(KindOf("gamma1"), e) + EnergyOf(KindOf("gamma2"), all - e)
    BY <2>1, <2>3 DEF all
  <2> DEFINE cut1 == m.ApplyCuts /\ e < m.theGammaCut
             cut2 == m.ApplyCuts /\ all - e < m.theGammaCut
             two == MarkSlotForFreeing(CutOrCreate(CutOrCreate(s, cut1, "gamma1", e),
                                                   cut2, "gamma2", all - e))
  <2>6. cut1 \in BOOLEAN /\ cut2 \in BOOLEAN
    OBVIOUS
  <2>7. r = two
    BY <2>1 DEF Annihilate
  <2> HIDE DEF cut1, cut2
  <2>8. AtEnd(kind, total, two) /\ two.stopped = s.stopped
        /\ two.cross_boundary = s.cross_boundary
    BY <2>2, <2>4, <2>5, <2>6, TwoSecondariesEnd
  <2> QED BY <2>7, <2>8, Zenon DEF Ended
<1> QED BY <1>1, <1>2, <1>3, <1>4 DEF DiscreteProcesses
-----------------------------------------------------------------------------
(* The end of TransportElectrons.                                          *)
LEMMA RecordKeeps ==
  ASSUME NEW kind, NEW total, NEW s, NEW m
  PROVE  LET r == RecordHit(s, m)
         IN /\ s \in Locals => r \in Locals
            /\ s \in Locals =>
                 /\ r.eKin = s.eKin /\ r.saved = s.saved /\ r.secs = s.secs
                 /\ r.energyDeposit = s.energyDeposit /\ r.dropped = s.dropped
                 /\ r.next = s.next /\ r.leaks = s.leaks /\ r.marks = s.marks
                 /\ r.killed = s.killed /\ r.escaped = s.escaped
                 /\ r.stopped = s.stopped /\ r.cross_boundary = s.cross_boundary
BY DEF RecordHit, Locals

(* So an ended step stays ended.                                           *)
LEMMA RecordAtEnd ==
  ASSUME NEW kind, NEW total, NEW s, NEW m, AtEnd(kind, total, s)
  PROVE  AtEnd(kind, total, RecordHit(s, m))
<1> DEFINE r == RecordHit(s, m)
<1>1. s \in Locals
  BY DEF AtEnd
<1>2. /\ r \in Locals /\ r.saved = s.saved /\ r.secs = s.secs
      /\ r.energyDeposit = s.energyDeposit /\ r.dropped = s.dropped
      /\ r.next = s.next /\ r.leaks = s.leaks /\ r.marks = s.marks
      /\ r.killed = s.killed /\ r.escaped = s.escaped
  BY <1>1, RecordKeeps
<1>3. Spent(r) = Spent(s)
  BY <1>2 DEF Spent
<1> HIDE DEF r
<1>4. AtEnd(kind, total, r)
  BY <1>2, <1>3 DEF AtEnd, OnePlace, Balanced
<1> QED BY <1>4 DEF r

(* The recorded hit has the deposit.                                       *)
LEMMA RecordScores ==
  ASSUME NEW s \in Locals, NEW m
  PROVE  Scored(m, RecordHit(s, m))
BY DEF RecordHit, Locals, Scored

(* survive() changes neither.                                              *)
LEMMA SurviveScores ==
  ASSUME NEW s \in Locals, NEW m, Scored(m, s), NEW leak
  PROVE  Scored(m, survive(s, leak))
BY DEF survive, Locals, Scored

(* Annihilation at rest creates the two rest masses.                       *)
LEMMA GammaPairAdded ==
  ASSUME NEW secs \in [SecondaryNames -> Nat \cup {None}],
         secs["gamma1"] = None, secs["gamma2"] = None
  PROVE  LET two == [secs EXCEPT !["gamma1"] = restMass, !["gamma2"] = restMass]
         IN /\ two \in [SecondaryNames -> Nat \cup {None}]
            /\ SecondaryEnergy(two) = SecondaryEnergy(secs) + 2 * restMass
<1>1. "gamma1" \in SecondaryNames /\ "gamma2" \in SecondaryNames
      /\ KindOf("gamma1") = "gamma" /\ KindOf("gamma2") = "gamma"
      /\ EnergyOf("gamma", restMass) = restMass /\ restMass \in Nat
  BY KernelAssumption DEF SecondaryNames, KindOf, EnergyOf
<1> DEFINE one == [secs EXCEPT !["gamma1"] = restMass]
           two == [one EXCEPT !["gamma2"] = restMass]
<1>2. /\ one \in [SecondaryNames -> Nat \cup {None}] /\ one["gamma1"] = restMass
      /\ \A n \in SecondaryNames : n # "gamma1" => one[n] = secs[n]
  BY <1>1
<1> HIDE DEF one
<1>3. SecondaryEnergy(one) = SecondaryEnergy(secs) + EnergyOf(KindOf("gamma1"), restMass)
  BY <1>1, <1>2, SecondaryAdded
<1>4. /\ two \in [SecondaryNames -> Nat \cup {None}] /\ two["gamma2"] = restMass
      /\ \A n \in SecondaryNames : n # "gamma2" => two[n] = one[n]
  BY <1>1, <1>2
<1>5. one["gamma2"] = None
  BY <1>1, <1>2
<1> HIDE DEF two
<1>6. SecondaryEnergy(two) = SecondaryEnergy(one) + EnergyOf(KindOf("gamma2"), restMass)
  BY <1>1, <1>2, <1>4, <1>5, SecondaryAdded
<1>7. SecondaryEnergy(secs) \in Nat
  BY SecondaryType
<1>8. two \in [SecondaryNames -> Nat \cup {None}]
      /\ SecondaryEnergy(two) = SecondaryEnergy(secs) + 2 * restMass
  BY <1>1, <1>3, <1>4, <1>6, <1>7
<1> QED BY <1>8, Zenon DEF one, two

(* A stopped track ends: an electron dies, a positron annihilates.         *)
LEMMA StopEnds ==
  ASSUME NEW kind \in {"electron", "positron"}, NEW total, NEW s,
         Stopping(kind, total, s), NEW m \in Materials
  PROVE  AtEnd(kind, total, Stop(kind, s, m)) /\ ~Stop(kind, s, m).cross_boundary
<1>1. /\ s \in Locals /\ s.eKin = 0 /\ s.stopped /\ ~s.cross_boundary
      /\ s.secs["gamma1"] = None /\ s.secs["gamma2"] = None
      /\ s.next = 0 /\ s.leaks = 0 /\ s.marks = 0 /\ ~s.killed /\ s.escaped = 0
      /\ total = EnergyOf(kind, s.eKin) + Spent(s)
  BY DEF Stopping, Underway
<1>2. /\ s.energyDeposit \in Nat /\ SecondaryEnergy(s.secs) \in Nat
      /\ s.dropped \in Nat /\ s.secs \in [SecondaryNames -> Nat \cup {None}]
      /\ restMass \in Nat /\ 2 * restMass \in Nat
  BY <1>1, SecondaryType, KernelAssumption DEF Locals
<1>3. CASE kind = "electron"
  <2>1. SpentUp(total, s)
    BY <1>1, <1>2, <1>3 DEF SpentUp, EnergyOf, Spent
  <2>2. AtEnd(kind, total, MarkSlotForFreeing(s))
    BY <2>1, MarkEnds
  <2>3. MarkSlotForFreeing(s).cross_boundary = s.cross_boundary
    BY <1>1, FlagsStay
  <2>4. Stop(kind, s, m) = MarkSlotForFreeing(s)
    BY <1>1, <1>3 DEF Stop
  <2> QED BY <1>1, <2>2, <2>3, <2>4
<1>4. CASE kind = "positron"
  <2>0. total = 2 * restMass + Spent(s)
    BY <1>1, <1>2, <1>4 DEF EnergyOf, Spent
  <2> DEFINE cut == m.ApplyCuts /\ restMass < m.theGammaCut
             d == [s EXCEPT !.energyDeposit = @ + 2 * restMass]
             two == [s.secs EXCEPT !["gamma1"] = restMass, !["gamma2"] = restMass]
             g == [s EXCEPT !.secs["gamma1"] = restMass, !.secs["gamma2"] = restMass]
  <2>1. SpentUp(total, d) /\ ~d.cross_boundary
    <3>1. s.energyDeposit + 2 * restMass \in Nat
      BY <1>2
    <3>2. d \in Locals
      BY <1>1, <3>1 DEF Locals
    <3>3. /\ d.energyDeposit = s.energyDeposit + 2 * restMass
          /\ d.secs = s.secs /\ d.dropped = s.dropped
          /\ d.next = 0 /\ d.leaks = 0 /\ d.marks = 0 /\ ~d.killed /\ d.escaped = 0
          /\ ~d.cross_boundary
      BY <1>1 DEF Locals
    <3> HIDE DEF d
    <3> QED BY <1>2, <2>0, <3>2, <3>3 DEF SpentUp, Spent
  <2>2. SpentUp(total, g) /\ ~g.cross_boundary
    <3>4. /\ two \in [SecondaryNames -> Nat \cup {None}]
          /\ SecondaryEnergy(two) = SecondaryEnergy(s.secs) + 2 * restMass
      BY <1>1, <1>2, GammaPairAdded
    <3>5. g = [s EXCEPT !.secs = two]
      BY <1>1 DEF Locals
    <3> HIDE DEF two, g
    <3>6. g \in Locals
      BY <1>1, <3>4, <3>5 DEF Locals
    <3>7. /\ g.energyDeposit = s.energyDeposit
          /\ g.secs = two /\ g.dropped = s.dropped
          /\ g.next = 0 /\ g.leaks = 0 /\ g.marks = 0 /\ ~g.killed /\ g.escaped = 0
          /\ ~g.cross_boundary
      BY <1>1, <3>5 DEF Locals
    <3> QED BY <1>2, <2>0, <3>4, <3>6, <3>7 DEF SpentUp, Spent
  <2>3. Stop(kind, s, m) = IF cut THEN MarkSlotForFreeing(d) ELSE MarkSlotForFreeing(g)
    BY <1>1, <1>4 DEF Stop
  <2> HIDE DEF cut, d, g
  <2>4. /\ AtEnd(kind, total, MarkSlotForFreeing(d))
        /\ AtEnd(kind, total, MarkSlotForFreeing(g))
    BY <2>1, <2>2, MarkEnds
  <2>5. d \in Locals /\ g \in Locals
    BY <2>1, <2>2 DEF SpentUp
  <2>6. /\ MarkSlotForFreeing(d).cross_boundary = d.cross_boundary
        /\ MarkSlotForFreeing(g).cross_boundary = g.cross_boundary
    BY <2>5, FlagsStay
  <2> QED BY <2>1, <2>2, <2>3, <2>4, <2>6
<1> QED BY <1>3, <1>4

(* The last part of TransportElectrons ends every step.                    *)
LEMMA EndElectronEnds ==
  ASSUME NEW kind \in {"electron", "positron"}, NEW total, NEW s,
         NEW m \in Materials, NEW p \in Propagations,
         \/ Ended(kind, total, s) \/ Crossing(kind, total, s)
         \/ Stopping(kind, total, s)
  PROVE  /\ AtEnd(kind, total, EndElectron(kind, s, m, p))
         /\ Scored(m, EndElectron(kind, s, m, p))
<1> DEFINE t == Stop(kind, s, m)
           h == RecordHit(t, m)
<1>1. CASE s.killed
  <2>1. AtEnd(kind, total, s)
    BY <1>1 DEF Ended, Crossing, Stopping, Underway
  <2>2. ~(s.energyDeposit > 0)
    BY <1>1, <2>1 DEF AtEnd
  <2> QED BY <1>1, <2>1, <2>2 DEF EndElectron, Scored
<1>2. CASE ~s.killed
  <2>1. EndElectron(kind, s, m, p) = CrossBoundary(h, p)
    BY <1>2 DEF EndElectron
  <2>2. CASE Ended(kind, total, s)
    <3>1. t = s
      BY <2>2 DEF Stop, Ended
    <3>2. AtEnd(kind, total, h)
      BY <2>2, <3>1, RecordAtEnd DEF Ended
    <3>3. h.cross_boundary = s.cross_boundary
      BY <2>2, <3>1, RecordKeeps DEF Ended, AtEnd
    <3>4. Scored(m, h)
      BY <2>2, <3>1, RecordScores DEF Ended, AtEnd
    <3> QED BY <2>1, <2>2, <3>2, <3>3, <3>4 DEF CrossBoundary, Ended
  <2>3. CASE Crossing(kind, total, s)
    <3>1. t = s
      BY <2>3 DEF Stop, Crossing
    <3>2. s \in Locals
      BY <2>3 DEF Crossing, Underway
    <3>3. /\ h \in Locals /\ h.eKin = s.eKin /\ h.secs = s.secs
          /\ h.energyDeposit = s.energyDeposit /\ h.dropped = s.dropped
          /\ h.next = s.next /\ h.leaks = s.leaks /\ h.marks = s.marks
          /\ h.killed = s.killed /\ h.escaped = s.escaped
          /\ h.cross_boundary = s.cross_boundary
      BY <3>1, <3>2, RecordKeeps
    <3>6. Scored(m, h)
      BY <3>1, <3>2, RecordScores
    <3> HIDE DEF h
    <3>4. Underway(kind, total, h) /\ h.cross_boundary
      BY <2>3, <3>3 DEF Crossing, Underway, Spent
    <3>5. (~p.fGPUregion) \in BOOLEAN
      OBVIOUS
    <3>7. AtEnd(kind, total, survive(h, ~p.fGPUregion))
      BY <3>4, <3>5, SurviveEnds
    <3>8. Scored(m, survive(h, ~p.fGPUregion))
      BY <3>3, <3>6, SurviveScores
    <3> QED BY <2>1, <3>4, <3>7, <3>8 DEF CrossBoundary
  <2>4. CASE Stopping(kind, total, s)
    <3>1. AtEnd(kind, total, t) /\ ~t.cross_boundary
      BY <2>4, StopEnds
    <3>2. t \in Locals
      BY <3>1 DEF AtEnd
    <3> HIDE DEF t
    <3>3. AtEnd(kind, total, h)
      BY <3>1, RecordAtEnd
    <3>4. h.cross_boundary = t.cross_boundary
      BY <3>2, RecordKeeps
    <3>5. Scored(m, h)
      BY <3>2, RecordScores
    <3> QED BY <2>1, <3>1, <3>3, <3>4, <3>5 DEF CrossBoundary
  <2> QED BY <2>2, <2>3, <2>4
<1> QED BY <1>1, <1>2

(* TransportElectrons as a whole.                                          *)
LEMMA ElectronsEnd ==
  ASSUME NEW kind \in {"electron", "positron"}, NEW total, NEW s,
         Fresh(kind, total, s), s.energyDeposit = 0, ~s.stopped, ~s.cross_boundary,
         NEW m \in Materials, NEW o \in TransportElectrons(kind, s, m)
  PROVE  AtEnd(kind, total, o) /\ Scored(m, o)
<1>01. PICK p \in Propagations :
        o \in UNION {{EndElectron(kind, d, m, p) :
                        d \in DiscreteProcesses(kind, Propagate(kind, c, p), m, p)} :
                     c \in PerformContinuous(s)}
  BY DEF TransportElectrons
<1>02. PICK c \in PerformContinuous(s) :
        o \in {EndElectron(kind, d, m, p) :
                 d \in DiscreteProcesses(kind, Propagate(kind, c, p), m, p)}
  BY <1>01
<1>1. PICK d \in DiscreteProcesses(kind, Propagate(kind, c, p), m, p) :
        o = EndElectron(kind, d, m, p)
  BY <1>02
<1>2. Fresh(kind, total, c) /\ ~c.cross_boundary /\ (c.stopped => c.eKin = 0)
  BY ContinuousLoss
<1> DEFINE r == Propagate(kind, c, p)
<1>3. \/ Fresh(kind, total, r) /\ ~r.cross_boundary /\ ~r.stopped
            /\ p.limit = "interaction"
      \/ Stopping(kind, total, r)
      \/ p.limit # "interaction"
            /\ (Ended(kind, total, r) \/ Crossing(kind, total, r))
  BY <1>2, PropagateStages
<1> HIDE DEF r
<1>4. \/ Ended(kind, total, d) \/ Crossing(kind, total, d)
      \/ Stopping(kind, total, d)
  <2>0. d \in DiscreteProcesses(kind, r, m, p)
    BY DEF r
  <2>1. CASE Fresh(kind, total, r) /\ ~r.cross_boundary /\ ~r.stopped
               /\ p.limit = "interaction"
    BY <2>0, <2>1, DiscreteStages
  <2>2. CASE Stopping(kind, total, r)
    <3>1. d = r
      BY <2>0, <2>2 DEF DiscreteProcesses, Stopping
    <3> QED BY <2>2, <3>1
  <2>3. CASE p.limit # "interaction"
               /\ (Ended(kind, total, r) \/ Crossing(kind, total, r))
    <3>1. d = r
      BY <2>0, <2>3 DEF DiscreteProcesses
    <3> QED BY <2>3, <3>1
  <2> QED BY <1>3, <2>1, <2>2, <2>3
<1> QED BY <1>1, <1>4, EndElectronEnds
-----------------------------------------------------------------------------
(* TransportGammas                                                         *)
LEMMA BoundaryEnds ==
  ASSUME NEW total, NEW s, Underway("gamma", total, s), NEW p
  PROVE  AtEnd("gamma", total, GammaAtBoundary(s, p))
<1> DEFINE h == [s EXCEPT !.hit = [edep |-> 0, last |-> s.returnLastStep]]
<1>1. s \in Locals
  BY DEF Underway
<1>2. h \in Locals
  BY <1>1 DEF Locals
<1>3. /\ h.eKin = s.eKin /\ h.secs = s.secs
      /\ h.energyDeposit = s.energyDeposit /\ h.dropped = s.dropped
      /\ h.next = s.next /\ h.leaks = s.leaks /\ h.marks = s.marks
      /\ h.killed = s.killed /\ h.escaped = s.escaped
  BY <1>1 DEF Locals
<1> HIDE DEF h
<1>4. Underway("gamma", total, h)
  BY <1>2, <1>3 DEF Underway, Spent
<1>5. (~p.fGPUregion) \in BOOLEAN
  OBVIOUS
<1>6. AtEnd("gamma", total, survive(h, ~p.fGPUregion))
      /\ AtEnd("gamma", total, survive(s, ~p.fGPUregion))
  BY <1>4, <1>5, SurviveEnds
<1>7. GammaAtBoundary(s, p)
        \in {survive(h, ~p.fGPUregion), survive(s, ~p.fGPUregion)}
  BY DEF GammaAtBoundary, h
<1> QED BY <1>6, <1>7

(* Pair production shares the energy between electron and positron.        *)
LEMMA ConvertEnds ==
  ASSUME NEW total, NEW s, Fresh("gamma", total, s), ~(s.eKin < 2 * restMass),
         NEW m \in Materials, NEW e \in 0 .. s.eKin - 2 * restMass
  PROVE  AtEnd("gamma", total, Convert(s, m, e, s.eKin - 2 * restMass - e))
<1> DEFINE pos == s.eKin - 2 * restMass - e
           cut1 == m.ApplyCuts /\ e < m.theElCut
           cut2 == m.ApplyCuts /\ restMass < m.theGammaCut /\ pos < m.thePosCut
           two == MarkSlotForFreeing(CutOrCreate(CutOrCreate(s, cut1, "electron", e),
                                                 cut2, "positron", pos))
<1>1. s.eKin \in Nat /\ restMass \in Nat
  BY KernelAssumption DEF Fresh, Underway, Locals
<1>2. e \in Nat /\ pos \in Nat /\ s.eKin = e + (pos + 2 * restMass)
  BY <1>1
<1>3. cut1 \in BOOLEAN /\ cut2 \in BOOLEAN
  OBVIOUS
<1>4. Convert(s, m, e, pos) = two
  BY DEF Convert
<1> HIDE DEF pos, cut1, cut2
<1>5. /\ "electron" \in SecondaryNames /\ "positron" \in SecondaryNames
      /\ EnergyOf("gamma", s.eKin) = s.eKin
      /\ EnergyOf(KindOf("electron"), e) = e
      /\ EnergyOf(KindOf("positron"), pos) = pos + 2 * restMass
  BY DEF SecondaryNames, EnergyOf, KindOf
<1>6. EnergyOf("gamma", s.eKin)
        = EnergyOf(KindOf("electron"), e) + EnergyOf(KindOf("positron"), pos)
  BY <1>2, <1>5
<1>7. AtEnd("gamma", total, two)
  BY <1>2, <1>3, <1>5, <1>6, TwoSecondariesEnd
<1> QED BY <1>4, <1>7 DEF pos

(* Compton scattering shares it between electron and gamma.                *)
LEMMA ScatterEnds ==
  ASSUME NEW total, NEW s, Fresh("gamma", total, s), NEW m \in Materials,
         NEW newEnergyGamma \in 1 .. s.eKin
  PROVE  AtEnd("gamma", total, Scatter(s, m, newEnergyGamma))
<1> DEFINE energyEl == s.eKin - newEnergyGamma
           cut == energyEl <= (IF m.ApplyCuts THEN m.theElCut ELSE LowEnergyThreshold)
           first == CutOrCreate(s, cut, "electron", energyEl)
           going == [first EXCEPT !.eKin = newEnergyGamma]
           gone == [first EXCEPT !.energyDeposit = @ + newEnergyGamma]
<1>1. s.eKin \in Nat
  BY DEF Fresh, Underway, Locals
<1>2. energyEl \in Nat /\ newEnergyGamma \in Nat
      /\ s.eKin = energyEl + newEnergyGamma
  BY <1>1
<1>3. cut \in BOOLEAN
  OBVIOUS
<1>4. Scatter(s, m, newEnergyGamma) \in {survive(going, FALSE), MarkSlotForFreeing(gone)}
  BY DEF Scatter
<1> HIDE DEF energyEl, cut
<1>5. /\ "electron" \in SecondaryNames /\ EnergyOf("gamma", s.eKin) = s.eKin
      /\ EnergyOf("gamma", newEnergyGamma) = newEnergyGamma
      /\ EnergyOf(KindOf("electron"), energyEl) = energyEl
  BY DEF SecondaryNames, EnergyOf, KindOf
<1>6. /\ s \in Locals /\ s.secs["electron"] = None
      /\ total = EnergyOf("gamma", s.eKin) + Spent(s)
      /\ s.next = 0 /\ s.leaks = 0 /\ s.marks = 0 /\ ~s.killed /\ s.escaped = 0
  BY <1>5 DEF Fresh, Underway
<1>7. /\ first \in Locals
      /\ Spent(first) = Spent(s) + EnergyOf(KindOf("electron"), energyEl)
      /\ Spent(s) \in Nat
      /\ first.next = 0 /\ first.leaks = 0 /\ first.marks = 0 /\ ~first.killed
      /\ first.escaped = 0
  BY <1>2, <1>3, <1>5, <1>6, CutOrCreateSpends
<1> HIDE DEF first
<1>8. /\ first.energyDeposit \in Nat /\ SecondaryEnergy(first.secs) \in Nat
      /\ first.dropped \in Nat
  BY <1>7, SecondaryType DEF Locals
<1>9. Underway("gamma", total, going)
  <2>1. going \in Locals
    BY <1>2, <1>7 DEF Locals
  <2>2. /\ going.eKin = newEnergyGamma /\ going.energyDeposit = first.energyDeposit
        /\ going.secs = first.secs /\ going.dropped = first.dropped
        /\ going.next = 0 /\ going.leaks = 0 /\ going.marks = 0 /\ ~going.killed
        /\ going.escaped = 0
    BY <1>7 DEF Locals
  <2>3. Spent(going) = Spent(first)
    BY <2>2 DEF Spent
  <2> HIDE DEF going
  <2> QED BY <1>2, <1>5, <1>6, <1>7, <2>1, <2>2, <2>3 DEF Underway
<1>10. SpentUp(total, gone)
  <2>0. first.energyDeposit + newEnergyGamma \in Nat
    BY <1>2, <1>8
  <2>1. gone \in Locals
    BY <1>7, <2>0 DEF Locals
  <2>2. /\ gone.energyDeposit = first.energyDeposit + newEnergyGamma
        /\ gone.secs = first.secs /\ gone.dropped = first.dropped
        /\ gone.next = 0 /\ gone.leaks = 0 /\ gone.marks = 0 /\ ~gone.killed
        /\ gone.escaped = 0
    BY <1>7 DEF Locals
  <2>3. Spent(gone) = Spent(first) + newEnergyGamma
    BY <1>2, <1>8, <2>2 DEF Spent
  <2> HIDE DEF gone
  <2> QED BY <1>2, <1>5, <1>6, <1>7, <2>1, <2>2, <2>3 DEF SpentUp
<1> HIDE DEF going, gone
<1>11. AtEnd("gamma", total, survive(going, FALSE))
       /\ AtEnd("gamma", total, MarkSlotForFreeing(gone))
  BY <1>9, <1>10, SurviveEnds, MarkEnds
<1> QED BY <1>4, <1>11

(* The photoelectric effect: between the electron and the deposit.         *)
LEMMA AbsorbEnds ==
  ASSUME NEW total, NEW s, Fresh("gamma", total, s), s.energyDeposit = 0,
         NEW m \in Materials, NEW bindingEnergy \in 1 .. s.eKin
  PROVE  AtEnd("gamma", total, Absorb(s, m, bindingEnergy))
<1> DEFINE photoElecE == s.eKin - bindingEnergy
           two == [s.secs EXCEPT !["electron"] = photoElecE]
           emit == [s EXCEPT !.energyDeposit = bindingEnergy,
                             !.secs["electron"] = photoElecE]
           gone == [s EXCEPT !.energyDeposit = s.eKin]
<1>1. /\ s \in Locals /\ s.eKin \in Nat /\ s.dropped \in Nat
      /\ s.secs \in [SecondaryNames -> Nat \cup {None}]
      /\ s.secs["electron"] = None /\ SecondaryEnergy(s.secs) \in Nat
      /\ total = EnergyOf("gamma", s.eKin) + Spent(s)
      /\ s.next = 0 /\ s.leaks = 0 /\ s.marks = 0 /\ ~s.killed /\ s.escaped = 0
  BY SecondaryType DEF Fresh, Underway, Locals, SecondaryNames
<1>2. photoElecE \in Nat /\ bindingEnergy \in Nat /\ s.eKin = photoElecE + bindingEnergy
  BY <1>1
<1>3. Absorb(s, m, bindingEnergy) \in {MarkSlotForFreeing(emit), MarkSlotForFreeing(gone)}
  BY DEF Absorb
<1> HIDE DEF photoElecE
<1>4. /\ "electron" \in SecondaryNames /\ EnergyOf("gamma", s.eKin) = s.eKin
      /\ EnergyOf(KindOf("electron"), photoElecE) = photoElecE
  BY DEF SecondaryNames, EnergyOf, KindOf
<1>5. total = s.eKin + SecondaryEnergy(s.secs) + s.dropped
  BY <1>1, <1>4 DEF Spent
<1>6. SpentUp(total, emit)
  <2>1. /\ two \in [SecondaryNames -> Nat \cup {None}] /\ two["electron"] = photoElecE
        /\ \A n \in SecondaryNames : n # "electron" => two[n] = s.secs[n]
    BY <1>1, <1>2, <1>4
  <2>2. emit = [s EXCEPT !.energyDeposit = bindingEnergy, !.secs = two]
    BY <1>1 DEF Locals
  <2> HIDE DEF two, emit
  <2>3. SecondaryEnergy(two)
          = SecondaryEnergy(s.secs) + EnergyOf(KindOf("electron"), photoElecE)
    BY <1>1, <1>2, <1>4, <2>1, SecondaryAdded
  <2>4. emit \in Locals
    BY <1>1, <1>2, <2>1, <2>2 DEF Locals
  <2>5. /\ emit.energyDeposit = bindingEnergy /\ emit.secs = two
        /\ emit.dropped = s.dropped /\ emit.next = 0 /\ emit.leaks = 0
        /\ emit.marks = 0 /\ ~emit.killed /\ emit.escaped = 0
    BY <1>1, <2>2 DEF Locals
  <2> QED BY <1>1, <1>2, <1>4, <1>5, <2>3, <2>4, <2>5 DEF SpentUp, Spent
<1>7. SpentUp(total, gone)
  <2>1. gone \in Locals
    BY <1>1 DEF Locals
  <2>2. /\ gone.energyDeposit = s.eKin /\ gone.secs = s.secs
        /\ gone.dropped = s.dropped /\ gone.next = 0 /\ gone.leaks = 0
        /\ gone.marks = 0 /\ ~gone.killed /\ gone.escaped = 0
    BY <1>1 DEF Locals
  <2> HIDE DEF gone
  <2> QED BY <1>1, <1>5, <2>1, <2>2 DEF SpentUp, Spent
<1> HIDE DEF emit, gone
<1>8. AtEnd("gamma", total, MarkSlotForFreeing(emit))
      /\ AtEnd("gamma", total, MarkSlotForFreeing(gone))
  BY <1>6, <1>7, MarkEnds
<1> QED BY <1>3, <1>8

(* TransportGammas as a whole.                                             *)
LEMMA GammasEnd ==
  ASSUME NEW total, NEW s, Fresh("gamma", total, s), s.energyDeposit = 0,
         NEW m \in Materials, NEW o \in TransportGammas(s, m)
  PROVE  AtEnd("gamma", total, o) /\ Scored(m, o)
<1>0. Underway("gamma", total, s)
  BY DEF Fresh
<1>1. CASE o \in {GammaAtBoundary(s, p) : p \in Propagations}
  <2>1. PICK p \in Propagations : o = GammaAtBoundary(s, p)
    BY <1>1
  <2>2. o.energyDeposit = s.energyDeposit
    BY <1>0, <2>1 DEF GammaAtBoundary, survive, Underway, Locals
  <2> QED BY <1>0, <2>1, <2>2, BoundaryEnds DEF Scored
<1>2. CASE o = RecordHit(LeaveWorld("gamma", s), m)
  BY <1>0, <1>2, LeaveWorldEnds, RecordAtEnd, RecordScores DEF AtEnd
<1>3. AtEnd("gamma", total, survive(s, FALSE))
  BY <1>0, SurviveEnds
<1>4. \A i \in Conversions(s, m) : AtEnd("gamma", total, i)
  <2>1. CASE s.eKin < 2 * restMass
    BY <1>3, <2>1 DEF Conversions
  <2>2. CASE ~(s.eKin < 2 * restMass)
    BY <2>2, ConvertEnds DEF Conversions
  <2> QED BY <2>1, <2>2
<1>5. \A i \in Comptons(s, m) : AtEnd("gamma", total, i)
  BY <1>3, ScatterEnds DEF Comptons
<1>6. \A i \in Photoelectrics(s, m) : AtEnd("gamma", total, i)
  BY AbsorbEnds DEF Photoelectrics
<1>7. \A i \in GammaNuclears(s) : AtEnd("gamma", total, i)
  BY <1>3 DEF GammaNuclears
<1>8. CASE o \in {RecordHit(i, m) : i \in Conversions(s, m) \cup Comptons(s, m)
                                     \cup Photoelectrics(s, m) \cup GammaNuclears(s)}
  BY <1>4, <1>5, <1>6, <1>7, <1>8, RecordAtEnd, RecordScores DEF AtEnd
<1> QED BY <1>1, <1>2, <1>8 DEF TransportGammas
-----------------------------------------------------------------------------
Steppable(track) ==
  /\ track.kind \in Kinds /\ track.eKin \in Nat
  /\ track.looperCounter \in 0 .. Word - 1 /\ track.stepCounter \in Nat

(* Every way through the kernels ends with the slot in one place, the      *)
(* energy of the track accounted for, and its deposit in the hit.          *)
THEOREM StepEnds ==
  ASSUME NEW track, Steppable(track), NEW m \in Materials,
         NEW returnLastStep \in BOOLEAN, NEW finishOff \in BOOLEAN,
         NEW o \in Outcomes(track, m, returnLastStep, finishOff)
  PROVE  AtEnd(track.kind, EnergyOf(track.kind, track.eKin), o) /\ Scored(m, o)
<1> DEFINE s == Begin(track, returnLastStep)
           total == EnergyOf(track.kind, track.eKin)
<1>1. Underway(track.kind, total, s)
  BY BeginUnderway DEF Steppable
<1>2. /\ s.energyDeposit = 0 /\ ~s.stopped /\ ~s.cross_boundary
      /\ \A n \in SecondaryNames : s.secs[n] = None
  BY DEF Begin
<1> HIDE DEF s, total
<1>3. Fresh(track.kind, total, s)
  BY <1>1, <1>2 DEF Fresh
<1>4. \/ o = Kill(track.kind, s) \/ o = survive(s, TRUE)
      \/ track.kind = "gamma" /\ o \in TransportGammas(s, m)
      \/ track.kind # "gamma" /\ o \in TransportElectrons(track.kind, s, m)
  BY DEF Outcomes, s
<1>5. CASE o = Kill(track.kind, s)
  <2>1. AtEnd(track.kind, total, o) /\ o.killed
    BY <1>1, <1>5, KillEnds
  <2> QED BY <2>1 DEF total, AtEnd, Scored
<1>6. CASE o = survive(s, TRUE)
  <2>1. AtEnd(track.kind, total, o)
    BY <1>1, <1>6, SurviveEnds
  <2>2. Scored(m, o)
    <3>1. s \in Locals /\ Scored(m, s)
      BY <1>1, <1>2 DEF Underway, Scored
    <3> QED BY <1>6, <3>1, SurviveScores
  <2> QED BY <2>1, <2>2 DEF total
<1>7. CASE track.kind = "gamma" /\ o \in TransportGammas(s, m)
  <2>1. AtEnd("gamma", total, o) /\ Scored(m, o)
    BY <1>2, <1>3, <1>7, GammasEnd
  <2> QED BY <1>7, <2>1 DEF total
<1>8. CASE track.kind # "gamma" /\ o \in TransportElectrons(track.kind, s, m)
  <2>1. track.kind \in {"electron", "positron"}
    BY <1>8 DEF Steppable, Kinds
  <2>2. AtEnd(track.kind, total, o) /\ Scored(m, o)
    BY <1>2, <1>3, <1>8, <2>1, ElectronsEnd
  <2> QED BY <2>2 DEF total
<1> QED BY <1>4, <1>5, <1>6, <1>7, <1>8

(* A track that has used up its steps is killed.                           *)
THEOREM StepsAreLimited ==
  ASSUME NEW track, track.stepCounter >= maxSteps, NEW m, NEW returnLastStep,
         NEW finishOff, NEW o \in Outcomes(track, m, returnLastStep, finishOff)
  PROVE  o.killed
BY DEF Outcomes, Kill, Begin
-----------------------------------------------------------------------------
(* The other builds (KernelBuilds).  A split kernel frees a slot by leaving*)
(* it in no queue, which GiveUp sees at the end of the step.               *)
Placed(frees, o) == IF frees THEN o ELSE GiveUp(o)

(* What comes after the hit leaves the deposit and the hit alone.          *)
Same(s, r) == r.energyDeposit = s.energyDeposit /\ r.hit = s.hit /\ r.dropped = s.dropped
Interacted(kind, total, s, o) == AtEnd(kind, total, o) /\ ~o.killed /\ Same(s, o)

(* A secondary that is never cut.                                          *)
LEMMA CreateSpends ==
  ASSUME NEW s \in Locals, NEW name \in SecondaryNames,
         s.secs[name] = None, NEW e \in Nat
  PROVE  LET r == Create(s, name, e)
         IN /\ r \in Locals /\ Spent(r) = Spent(s) + EnergyOf(KindOf(name), e)
            /\ Spent(s) \in Nat /\ Same(s, r)
            /\ r.eKin = s.eKin /\ r.next = s.next /\ r.leaks = s.leaks
            /\ r.marks = s.marks /\ r.killed = s.killed /\ r.escaped = s.escaped
            /\ \A n \in SecondaryNames : n # name => r.secs[n] = s.secs[n]
<1>1. FALSE \in BOOLEAN
  OBVIOUS
<1>2. Same(s, CutOrCreate(s, FALSE, name, e))
  BY DEF CutOrCreate, Locals, Same
<1> QED BY <1>1, <1>2, CutOrCreateSpends DEF Create

(* A track whose energy is spent ends in both ways of freeing its slot.    *)
LEMMA PlacedEnd ==
  ASSUME NEW kind, NEW total, NEW s, SpentUp(total, s), NEW frees \in BOOLEAN
  PROVE  LET o == Placed(frees, End(frees, s))
         IN Interacted(kind, total, s, o) /\ o.leaks = 0 /\ o.escaped = 0
<1>1. s \in Locals /\ s.next + s.leaks = 0
  BY DEF SpentUp
<1>2. Placed(frees, End(frees, s)) = MarkSlotForFreeing(s)
  BY <1>1 DEF Placed, End, GiveUp
<1>3. /\ Same(s, MarkSlotForFreeing(s)) /\ MarkSlotForFreeing(s).leaks = 0
      /\ MarkSlotForFreeing(s).escaped = 0
  BY DEF MarkSlotForFreeing, Locals, SpentUp, Same
<1> QED BY <1>2, <1>3, MarkEnds DEF Interacted

(* A track that survives keeps its place.                                  *)
LEMMA PlacedSurvive ==
  ASSUME NEW kind, NEW total, NEW s, Underway(kind, total, s), NEW leak \in BOOLEAN,
         NEW frees \in BOOLEAN
  PROVE  LET o == Placed(frees, survive(s, leak))
         IN /\ Interacted(kind, total, s, o) /\ o.leaks = (IF leak THEN 1 ELSE 0)
            /\ o.escaped = 0
<1>1. /\ Same(s, survive(s, leak)) /\ survive(s, leak).escaped = 0
      /\ survive(s, leak).leaks = (IF leak THEN 1 ELSE 0)
      /\ survive(s, leak).next = (IF leak THEN 0 ELSE 1)
  BY DEF survive, Locals, Underway, Same
<1>2. Placed(frees, survive(s, leak)) = survive(s, leak)
  BY <1>1 DEF Placed, GiveUp
<1> QED BY <1>1, <1>2, SurviveEnds DEF Interacted

(* A track that leaves the world.                                          *)
LEMMA PlacedLeave ==
  ASSUME NEW kind, NEW total, NEW s, Underway(kind, total, s), NEW frees \in BOOLEAN
  PROVE  Interacted(kind, total, s,
           Placed(frees, End(frees, [s EXCEPT !.escaped = EnergyOf(kind, s.eKin)])))
<1> DEFINE r == [s EXCEPT !.escaped = EnergyOf(kind, s.eKin)]
<1>1. s \in Locals
  BY DEF Underway
<1>2. r.next + r.leaks = 0
  BY <1>1 DEF Underway, Locals
<1>3. MarkSlotForFreeing(r) = LeaveWorld(kind, s)
  BY <1>1 DEF MarkSlotForFreeing, LeaveWorld, Locals
<1>4. Same(s, LeaveWorld(kind, s))
  BY <1>1 DEF LeaveWorld, MarkSlotForFreeing, Locals, Same
<1> HIDE DEF r
<1>5. Placed(frees, End(frees, r)) = LeaveWorld(kind, s)
  BY <1>2, <1>3 DEF Placed, End, GiveUp
<1>6. Interacted(kind, total, s, Placed(frees, End(frees, r)))
  BY <1>4, <1>5, LeaveWorldEnds DEF Interacted
<1> QED BY <1>6 DEF r

(* Two secondaries that share what is left of a track.                     *)
LEMMA TwoCreated ==
  ASSUME NEW kind, NEW total, NEW s, Fresh(kind, total, s),
         NEW name1 \in SecondaryNames, NEW e1 \in Nat,
         NEW name2 \in SecondaryNames, NEW e2 \in Nat, name1 # name2,
         EnergyOf(kind, s.eKin)
           = EnergyOf(KindOf(name1), e1) + EnergyOf(KindOf(name2), e2)
  PROVE  LET r == Create(Create(s, name1, e1), name2, e2)
         IN SpentUp(total, r) /\ Same(s, r)
<1> DEFINE f == Create(s, name1, e1)
           g == Create(f, name2, e2)
<1>1. s \in Locals /\ s.secs[name1] = None /\ s.secs[name2] = None
      /\ total = EnergyOf(kind, s.eKin) + Spent(s)
      /\ s.next = 0 /\ s.leaks = 0 /\ s.marks = 0 /\ ~s.killed /\ s.escaped = 0
  BY DEF Fresh, Underway
<1>2. /\ f \in Locals /\ Spent(f) = Spent(s) + EnergyOf(KindOf(name1), e1)
      /\ Spent(s) \in Nat /\ Same(s, f)
      /\ f.next = s.next /\ f.leaks = s.leaks
      /\ f.marks = s.marks /\ f.killed = s.killed /\ f.escaped = s.escaped
      /\ f.secs[name2] = s.secs[name2]
  BY <1>1, CreateSpends
<1> HIDE DEF f
<1>3. /\ g \in Locals /\ Spent(g) = Spent(f) + EnergyOf(KindOf(name2), e2)
      /\ Same(f, g) /\ g.next = f.next /\ g.leaks = f.leaks
      /\ g.marks = f.marks /\ g.killed = f.killed /\ g.escaped = f.escaped
  BY <1>1, <1>2, CreateSpends
<1> HIDE DEF g
<1>4. EnergyOf(KindOf(name1), e1) \in Nat /\ EnergyOf(KindOf(name2), e2) \in Nat
  BY EnergyType
<1>5. SpentUp(total, g) /\ Same(s, g)
  BY <1>1, <1>2, <1>3, <1>4 DEF SpentUp, Same
<1> QED BY <1>5 DEF f, g

(* Two gammas.                                                             *)
LEMMA GammasCreated ==
  ASSUME NEW kind, NEW total, NEW s, Fresh(kind, total, s), NEW e1 \in Nat, NEW e2 \in Nat,
         EnergyOf(kind, s.eKin) = e1 + e2
  PROVE  SpentUp(total, TwoGammas(s, e1, e2)) /\ Same(s, TwoGammas(s, e1, e2))
<1>1. /\ "gamma1" \in SecondaryNames /\ "gamma2" \in SecondaryNames /\ "gamma1" # "gamma2"
      /\ EnergyOf(KindOf("gamma1"), e1) = e1 /\ EnergyOf(KindOf("gamma2"), e2) = e2
  BY DEF SecondaryNames, KindOf, EnergyOf
<1>2. EnergyOf(kind, s.eKin)
        = EnergyOf(KindOf("gamma1"), e1) + EnergyOf(KindOf("gamma2"), e2)
  BY <1>1
<1> QED BY <1>1, <1>2, TwoCreated DEF TwoGammas

(* Ionisation and bremsstrahlung.                                          *)
LEMMA LoseEnds ==
  ASSUME NEW kind \in {"electron", "positron"}, NEW total, NEW s, Fresh(kind, total, s),
         NEW name \in {"electron", "gamma"}, NEW delta \in 1 .. s.eKin,
         NEW frees \in BOOLEAN
  PROVE  Interacted(kind, total, s, Placed(frees, Lose(s, name, delta)))
<1> DEFINE lost == Create(s, name, delta)
           rest == s.eKin - delta
           going == [lost EXCEPT !.eKin = @ - delta]
<1>1. /\ s \in Locals /\ s.eKin \in Nat /\ delta \in Nat /\ rest \in Nat
      /\ s.eKin = rest + delta
  BY DEF Fresh, Underway, Locals
<1>2. name \in SecondaryNames /\ s.secs[name] = None
      /\ EnergyOf(KindOf(name), delta) = delta
  BY <1>1 DEF Fresh, SecondaryNames, KindOf, EnergyOf
<1>3. /\ lost \in Locals /\ Spent(lost) = Spent(s) + delta /\ Spent(s) \in Nat
      /\ Same(s, lost) /\ lost.eKin = s.eKin /\ lost.next = s.next
      /\ lost.leaks = s.leaks /\ lost.marks = s.marks /\ lost.killed = s.killed
      /\ lost.escaped = s.escaped
  BY <1>1, <1>2, CreateSpends
<1>4. EnergyOf(kind, s.eKin) = EnergyOf(kind, rest) + delta
      /\ EnergyOf(kind, rest) \in Nat
  BY <1>1, KernelAssumption DEF EnergyOf
<1> HIDE DEF lost, rest
<1>5. /\ going \in Locals /\ going.eKin = rest /\ Same(lost, going)
      /\ going.secs = lost.secs /\ going.next = lost.next /\ going.leaks = lost.leaks
      /\ going.marks = lost.marks /\ going.killed = lost.killed
      /\ going.escaped = lost.escaped
  <2>1. lost.eKin - delta = rest
    BY <1>3 DEF rest
  <2>2. going \in Locals
    BY <1>1, <1>3, <2>1 DEF Locals
  <2> QED BY <1>3, <2>1, <2>2 DEF Locals, Same
<1>6. Lose(s, name, delta) = survive(going, FALSE)
  BY DEF Lose, lost
<1> HIDE DEF going
<1>7. Spent(going) = Spent(lost)
  BY <1>5 DEF Spent, Same
<1>8. Underway(kind, total, going)
  BY <1>1, <1>3, <1>4, <1>5, <1>7 DEF Fresh, Underway
<1>9. Interacted(kind, total, going, Placed(frees, survive(going, FALSE)))
  BY <1>8, PlacedSurvive
<1> QED BY <1>3, <1>5, <1>6, <1>9 DEF Interacted, Same

(* All interactions of an electron or positron.                            *)
LEMMA InteractEnds ==
  ASSUME NEW kind \in {"electron", "positron"}, NEW total, NEW s, Fresh(kind, total, s),
         NEW frees \in BOOLEAN, NEW o \in Interact(kind, s, frees)
  PROVE  Interacted(kind, total, s, Placed(frees, o))
<1>0. s.eKin \in Nat /\ Underway(kind, total, s)
  BY DEF Fresh, Underway, Locals
<1>1. CASE o = survive(s, FALSE)
  BY <1>0, <1>1, PlacedSurvive
<1>2. CASE \E delta \in 1 .. s.eKin : o = Lose(s, "electron", delta)
  BY <1>2, LoseEnds
<1>3. CASE \E delta \in 1 .. s.eKin : o = Lose(s, "gamma", delta)
  BY <1>3, LoseEnds
<1> DEFINE all == EnergyOf("positron", s.eKin)
<1>4. CASE kind = "positron"
             /\ \E e \in 1 .. all - 1 : o = End(frees, TwoGammas(s, e, all - e))
  <2>1. PICK e \in 1 .. all - 1 : o = End(frees, TwoGammas(s, e, all - e))
    BY <1>4
  <2>2. all \in Nat /\ e \in Nat /\ all - e \in Nat /\ e + (all - e) = all
    BY <1>0, <2>1, EnergyType
  <2>3. EnergyOf(kind, s.eKin) = all
    BY <1>4
  <2> HIDE DEF all
  <2>4. SpentUp(total, TwoGammas(s, e, all - e)) /\ Same(s, TwoGammas(s, e, all - e))
    BY <2>2, <2>3, GammasCreated
  <2>5. Interacted(kind, total, TwoGammas(s, e, all - e), Placed(frees, o))
    BY <2>1, <2>4, PlacedEnd
  <2> QED BY <2>4, <2>5 DEF Interacted, Same
<1> QED BY <1>1, <1>2, <1>3, <1>4 DEF Interact

(* All that can follow the hit of an electron or positron.                 *)
LEMMA DiscreteEnds ==
  ASSUME NEW kind \in {"electron", "positron"}, NEW total, NEW s, Fresh(kind, total, s),
         s.stopped => s.eKin = 0, NEW p \in Propagations,
         NEW frees \in BOOLEAN, NEW o \in Discrete(kind, s, p, frees)
  PROVE  Interacted(kind, total, s, Placed(frees, o))
<1>0. /\ s \in Locals /\ Underway(kind, total, s)
      /\ s.next = 0 /\ s.leaks = 0 /\ s.marks = 0 /\ ~s.killed /\ s.escaped = 0
      /\ total = EnergyOf(kind, s.eKin) + Spent(s)
  BY DEF Fresh, Underway
<1>1. CASE s.stopped
  <2>1. CASE kind = "positron"
    <3>1. restMass \in Nat /\ EnergyOf(kind, s.eKin) = restMass + restMass
      BY <1>1, <2>1, KernelAssumption DEF EnergyOf
    <3>2. SpentUp(total, TwoGammas(s, restMass, restMass))
          /\ Same(s, TwoGammas(s, restMass, restMass))
      BY <3>1, GammasCreated
    <3>3. o = End(frees, TwoGammas(s, restMass, restMass))
      BY <1>1, <2>1 DEF Discrete
    <3>4. Interacted(kind, total, TwoGammas(s, restMass, restMass), Placed(frees, o))
      BY <3>2, <3>3, PlacedEnd
    <3> QED BY <3>2, <3>4 DEF Interacted, Same
  <2>2. CASE kind = "electron"
    <3>1. EnergyOf(kind, s.eKin) = 0
      BY <1>1, <2>2 DEF EnergyOf
    <3>2. s.energyDeposit \in Nat /\ SecondaryEnergy(s.secs) \in Nat /\ s.dropped \in Nat
      BY <1>0, SecondaryType DEF Locals
    <3>3. SpentUp(total, s)
      BY <1>0, <3>1, <3>2 DEF SpentUp, Spent
    <3>4. o = End(frees, s)
      BY <1>1, <2>2 DEF Discrete
    <3> QED BY <3>3, <3>4, PlacedEnd
  <2> QED BY <2>1, <2>2
<1>2. CASE ~s.stopped
  <2>1. \/ o = End(frees, [s EXCEPT !.escaped = EnergyOf(kind, s.eKin)])
        \/ o = survive(s, ~p.fGPUregion) \/ o = survive(s, FALSE)
        \/ o \in Interact(kind, s, frees)
    BY <1>2 DEF Discrete
  <2>2. (~p.fGPUregion) \in BOOLEAN
    OBVIOUS
  <2>3. CASE o = End(frees, [s EXCEPT !.escaped = EnergyOf(kind, s.eKin)])
    BY <1>0, <2>3, PlacedLeave
  <2>4. CASE o = survive(s, ~p.fGPUregion)
    BY <1>0, <2>2, <2>4, PlacedSurvive
  <2>5. CASE o = survive(s, FALSE)
    BY <1>0, <2>5, PlacedSurvive
  <2>6. CASE o \in Interact(kind, s, frees)
    BY <2>6, InteractEnds
  <2> QED BY <2>1, <2>3, <2>4, <2>5, <2>6
<1> QED BY <1>1, <1>2

(* The hit of these kernels has the deposit, and changes nothing else.     *)
LEMMA RecordStepKeeps ==
  ASSUME NEW s \in Locals, NEW m
  PROVE  LET r == RecordStep(s, m)
         IN /\ r \in Locals /\ (m.sensitive => r.hit.edep = r.energyDeposit)
            /\ r.eKin = s.eKin /\ r.secs = s.secs /\ r.energyDeposit = s.energyDeposit
            /\ r.dropped = s.dropped /\ r.next = s.next /\ r.leaks = s.leaks
            /\ r.marks = s.marks /\ r.killed = s.killed /\ r.escaped = s.escaped
            /\ r.stopped = s.stopped /\ Spent(r) = Spent(s)
            /\ r.saved = s.saved
<1> DEFINE h == [s EXCEPT !.hit = [edep |-> s.energyDeposit, last |-> FALSE]]
<1>1. RecordStep(s, m) = IF m.sensitive THEN h ELSE s
  BY DEF RecordStep
<1>2. [edep |-> s.energyDeposit, last |-> FALSE] \in [edep : Nat \cup {None}, last : BOOLEAN]
  BY DEF Locals
<1>3. /\ h \in Locals /\ h.hit.edep = h.energyDeposit
      /\ h.eKin = s.eKin /\ h.secs = s.secs /\ h.energyDeposit = s.energyDeposit
      /\ h.dropped = s.dropped /\ h.next = s.next /\ h.leaks = s.leaks
      /\ h.marks = s.marks /\ h.killed = s.killed /\ h.escaped = s.escaped
      /\ h.stopped = s.stopped /\ h.saved = s.saved
  BY <1>2 DEF Locals
<1> HIDE DEF h
<1> QED BY <1>1, <1>3 DEF Spent

LEMMA RecordStepFresh ==
  ASSUME NEW kind, NEW total, NEW s, Fresh(kind, total, s), NEW m
  PROVE  Fresh(kind, total, RecordStep(s, m))
<1>1. s \in Locals
  BY DEF Fresh, Underway
<1> DEFINE r == RecordStep(s, m)
<1>2. /\ r \in Locals /\ r.eKin = s.eKin /\ r.secs = s.secs
      /\ r.next = s.next /\ r.leaks = s.leaks /\ r.marks = s.marks
      /\ r.killed = s.killed /\ r.escaped = s.escaped /\ Spent(r) = Spent(s)
  BY <1>1, RecordStepKeeps
<1> HIDE DEF r
<1> QED BY <1>2 DEF Fresh, Underway, r

(* A step of an electron or positron in the other builds.                  *)
LEMMA RecordThenDiscrete ==
  ASSUME NEW kind \in {"electron", "positron"}, NEW total, NEW s, Fresh(kind, total, s),
         s.energyDeposit = 0, ~s.stopped, ~s.cross_boundary, s.dropped = 0,
         NEW c \in PerformContinuous(s), NEW m \in Materials, NEW p \in Propagations,
         NEW frees \in BOOLEAN, NEW o \in Discrete(kind, RecordStep(c, m), p, frees)
  PROVE  LET r == Placed(frees, o)
         IN AtEnd(kind, total, r) /\ ~r.killed /\ Scored(m, r) /\ r.dropped = 0
<1> DEFINE h == RecordStep(c, m)
           r == Placed(frees, o)
<1>1. Fresh(kind, total, c) /\ (c.stopped => c.eKin = 0)
  BY ContinuousLoss
<1>2. c.dropped = 0
  BY DEF PerformContinuous, Fresh, Underway, Locals
<1>3. c \in Locals
  BY <1>1 DEF Fresh, Underway
<1>4. /\ Fresh(kind, total, h) /\ (h.stopped => h.eKin = 0) /\ h.dropped = 0
      /\ (m.sensitive => h.hit.edep = h.energyDeposit)
  BY <1>1, <1>2, <1>3, RecordStepFresh, RecordStepKeeps
<1>5. o \in Discrete(kind, h, p, frees)
  OBVIOUS
<1> HIDE DEF h
<1>6. Interacted(kind, total, h, r)
  BY <1>4, <1>5, DiscreteEnds
<1> HIDE DEF r
<1>7. AtEnd(kind, total, r) /\ ~r.killed /\ Scored(m, r) /\ r.dropped = 0
  BY <1>4, <1>6 DEF Interacted, Same, Scored
<1> QED BY <1>7 DEF r

(* Pair production.                                                        *)
LEMMA ConversionEnds ==
  ASSUME NEW total, NEW s, Fresh("gamma", total, s), NEW frees \in BOOLEAN,
         NEW o \in Conversion(s, frees)
  PROVE  Interacted("gamma", total, s, Placed(frees, o))
<1>1. CASE s.eKin < 2 * restMass
  <2>1. o = survive(s, FALSE) /\ Underway("gamma", total, s)
    BY <1>1 DEF Conversion, Fresh
  <2> QED BY <2>1, PlacedSurvive
<1>2. CASE ~(s.eKin < 2 * restMass)
  <2>1. PICK e \in 0 .. s.eKin - 2 * restMass :
          o = End(frees, Create(Create(s, "electron", e), "positron",
                                s.eKin - 2 * restMass - e))
    BY <1>2 DEF Conversion
  <2> DEFINE pos == s.eKin - 2 * restMass - e
             two == Create(Create(s, "electron", e), "positron", pos)
  <2>2. s.eKin \in Nat /\ restMass \in Nat
    BY KernelAssumption DEF Fresh, Underway, Locals
  <2>3. e \in Nat /\ pos \in Nat /\ s.eKin = e + (pos + 2 * restMass)
    BY <2>2
  <2>4. o = End(frees, two)
    BY <2>1
  <2> HIDE DEF pos
  <2>5. /\ "electron" \in SecondaryNames /\ "positron" \in SecondaryNames
        /\ EnergyOf("gamma", s.eKin) = s.eKin
        /\ EnergyOf(KindOf("electron"), e) = e
        /\ EnergyOf(KindOf("positron"), pos) = pos + 2 * restMass
    BY DEF SecondaryNames, EnergyOf, KindOf
  <2>6. EnergyOf("gamma", s.eKin)
          = EnergyOf(KindOf("electron"), e) + EnergyOf(KindOf("positron"), pos)
    BY <2>3, <2>5
  <2>7. SpentUp(total, two) /\ Same(s, two)
    BY <2>3, <2>5, <2>6, TwoCreated
  <2> HIDE DEF two
  <2>8. Interacted("gamma", total, two, Placed(frees, o))
    BY <2>4, <2>7, PlacedEnd
  <2> QED BY <2>7, <2>8 DEF Interacted, Same
<1> QED BY <1>1, <1>2

(* What may be dropped in a step of a gamma of energy e: all of it, or what*)
(* Compton scattering leaves below its threshold.                          *)
Lossy(e, o) ==
  o.dropped > 0 => /\ o.leaks = 0 /\ o.escaped = 0 /\ o.energyDeposit = 0
                   /\ \/ o.dropped = e
                      \/ o.dropped <= LowEnergyThreshold /\ e >= LowEnergyThreshold

(* What is dropped has neither a track nor a deposit.                      *)
LEMMA DropSpends ==
  ASSUME NEW s \in Locals, NEW e \in Nat, NEW m
  PROVE  LET r == Drop(RecordStep(s, m), e)
         IN /\ r \in Locals /\ Spent(r) = Spent(s) + e /\ Spent(s) \in Nat
            /\ r.dropped = s.dropped + e /\ r.energyDeposit = s.energyDeposit
            /\ r.eKin = s.eKin /\ r.secs = s.secs /\ r.next = s.next
            /\ r.leaks = s.leaks /\ r.marks = s.marks /\ r.killed = s.killed
            /\ r.escaped = s.escaped
<1> DEFINE h == RecordStep(s, m)
           r == Drop(h, e)
<1>1. /\ h \in Locals /\ h.eKin = s.eKin /\ h.secs = s.secs
      /\ h.energyDeposit = s.energyDeposit
      /\ h.dropped = s.dropped /\ h.next = s.next /\ h.leaks = s.leaks
      /\ h.marks = s.marks /\ h.killed = s.killed /\ h.escaped = s.escaped
  BY RecordStepKeeps
<1> HIDE DEF h
<1>2. /\ s.dropped \in Nat /\ s.energyDeposit \in Nat /\ SecondaryEnergy(s.secs) \in Nat
      /\ s.dropped + e \in Nat
  BY SecondaryType DEF Locals
<1>3. r \in Locals
  BY <1>1, <1>2 DEF Drop, Locals
<1>4. /\ r.dropped = s.dropped + e /\ r.energyDeposit = s.energyDeposit
      /\ r.eKin = s.eKin /\ r.secs = s.secs /\ r.next = s.next
      /\ r.leaks = s.leaks /\ r.marks = s.marks /\ r.killed = s.killed
      /\ r.escaped = s.escaped
  BY <1>1 DEF Drop, Locals
<1> HIDE DEF r
<1>5. Spent(r) = Spent(s) + e /\ Spent(s) \in Nat
  BY <1>2, <1>4 DEF Spent
<1> QED BY <1>3, <1>4, <1>5 DEF h, r

(* Compton scattering: an electron or a gamma below the threshold is lost. *)
LEMMA ComptonEnds ==
  ASSUME NEW total, NEW s, Fresh("gamma", total, s), s.energyDeposit = 0, s.dropped = 0,
         NEW m, NEW frees \in BOOLEAN, NEW o \in Compton(s, m, frees)
  PROVE  LET r == Placed(frees, o)
         IN /\ AtEnd("gamma", total, r) /\ ~r.killed /\ r.energyDeposit = 0
            /\ Lossy(s.eKin, r)
<1> DEFINE r == Placed(frees, o)
<1>0. /\ s \in Locals /\ s.eKin \in Nat /\ Underway("gamma", total, s)
      /\ s.secs["electron"] = None /\ "electron" \in SecondaryNames
      /\ s.next = 0 /\ s.leaks = 0 /\ s.marks = 0 /\ ~s.killed /\ s.escaped = 0
      /\ total = s.eKin + Spent(s) /\ LowEnergyThreshold \in Nat
  BY KernelAssumption DEF Fresh, Underway, Locals, SecondaryNames, EnergyOf
<1>1. CASE s.eKin < LowEnergyThreshold
  <2>1. o = survive(s, FALSE)
    BY <1>1 DEF Compton
  <2>2. Interacted("gamma", total, s, r)
    BY <1>0, <2>1, PlacedSurvive
  <2> HIDE DEF r
  <2>3. AtEnd("gamma", total, r) /\ ~r.killed /\ r.energyDeposit = 0 /\ Lossy(s.eKin, r)
    BY <2>2 DEF Interacted, Same, Lossy
  <2> QED BY <2>3 DEF r
<1>2. CASE ~(s.eKin < LowEnergyThreshold)
  <2>1. PICK newEnergyGamma \in 1 .. s.eKin : o = ScatterOff(s, m, newEnergyGamma, frees)
    BY <1>2 DEF Compton
  <2> DEFINE energyEl == s.eKin - newEnergyGamma
             first == IF energyEl > LowEnergyThreshold THEN Create(s, "electron", energyEl)
                      ELSE Drop(RecordStep(s, m), energyEl)
             going == [first EXCEPT !.eKin = newEnergyGamma]
             gone == Drop(RecordStep(first, m), newEnergyGamma)
  <2>2. energyEl \in Nat /\ newEnergyGamma \in Nat /\ s.eKin = energyEl + newEnergyGamma
    BY <1>0
  <2>3. o = IF newEnergyGamma > LowEnergyThreshold THEN survive(going, FALSE)
            ELSE End(frees, gone)
    BY <2>1 DEF ScatterOff
  <2> HIDE DEF energyEl
  <2>4. /\ first \in Locals /\ Spent(first) = Spent(s) + energyEl /\ Spent(s) \in Nat
        /\ first.energyDeposit = 0 /\ first.next = 0 /\ first.leaks = 0
        /\ first.marks = 0 /\ ~first.killed /\ first.escaped = 0
        /\ first.dropped = IF energyEl > LowEnergyThreshold THEN 0 ELSE energyEl
    <3>1. CASE energyEl > LowEnergyThreshold
      <4>1. first = Create(s, "electron", energyEl)
        BY <3>1
      <4>2. EnergyOf(KindOf("electron"), energyEl) = energyEl
        BY DEF KindOf, EnergyOf
      <4> QED BY <1>0, <2>2, <3>1, <4>1, <4>2, CreateSpends DEF Same
    <3>2. CASE ~(energyEl > LowEnergyThreshold)
      <4>1. first = Drop(RecordStep(s, m), energyEl)
        BY <3>2
      <4> QED BY <1>0, <2>2, <3>2, <4>1, DropSpends
    <3> QED BY <3>1, <3>2
  <2> HIDE DEF first
  <2>5. CASE newEnergyGamma > LowEnergyThreshold
    <3>1. going \in Locals
      BY <2>2, <2>4 DEF Locals
    <3>2. /\ going.eKin = newEnergyGamma /\ going.secs = first.secs
          /\ going.dropped = first.dropped /\ going.energyDeposit = 0
          /\ going.next = 0 /\ going.leaks = 0 /\ going.marks = 0 /\ ~going.killed
          /\ going.escaped = 0
      BY <2>4 DEF Locals
    <3>3. Spent(going) = Spent(first)
      BY <2>4, <3>2 DEF Spent
    <3> HIDE DEF going
    <3>4. Underway("gamma", total, going)
      BY <1>0, <2>2, <2>4, <3>1, <3>2, <3>3 DEF Underway, EnergyOf
    <3>5. /\ Interacted("gamma", total, going, r) /\ r.leaks = 0 /\ r.escaped = 0
      BY <2>3, <2>5, <3>4, PlacedSurvive
    <3> HIDE DEF r
    <3>6. /\ AtEnd("gamma", total, r) /\ ~r.killed /\ r.energyDeposit = 0
          /\ r.dropped = first.dropped
      BY <3>2, <3>5 DEF Interacted, Same
    <3>7. Lossy(s.eKin, r)
      BY <1>0, <1>2, <2>2, <2>4, <3>5, <3>6 DEF Lossy
    <3> QED BY <3>6, <3>7 DEF r
  <2>6. CASE ~(newEnergyGamma > LowEnergyThreshold)
    <3>1. /\ gone \in Locals /\ Spent(gone) = Spent(first) + newEnergyGamma
          /\ gone.dropped = first.dropped + newEnergyGamma /\ gone.energyDeposit = 0
          /\ gone.next = 0 /\ gone.leaks = 0 /\ gone.marks = 0 /\ ~gone.killed
          /\ gone.escaped = 0
      BY <2>2, <2>4, DropSpends
    <3> HIDE DEF gone
    <3>2. SpentUp(total, gone)
      BY <1>0, <2>2, <2>4, <3>1 DEF SpentUp
    <3>3. Interacted("gamma", total, gone, r) /\ r.leaks = 0 /\ r.escaped = 0
      BY <2>3, <2>6, <3>2, PlacedEnd
    <3> HIDE DEF r
    <3>4. /\ AtEnd("gamma", total, r) /\ ~r.killed /\ r.energyDeposit = 0
          /\ r.dropped = first.dropped + newEnergyGamma
      BY <3>1, <3>3 DEF Interacted, Same
    <3>5. Lossy(s.eKin, r)
      BY <1>0, <1>2, <2>2, <2>4, <2>6, <3>3, <3>4 DEF Lossy
    <3> QED BY <3>4, <3>5 DEF r
  <2> QED BY <2>5, <2>6
<1> QED BY <1>1, <1>2

(* The photoelectric effect records its hit last.                          *)
LEMMA PhotoelectricEnds ==
  ASSUME NEW total, NEW s, Fresh("gamma", total, s), s.energyDeposit = 0, s.dropped = 0,
         NEW m, NEW frees \in BOOLEAN, NEW o \in Photoelectric(s, m, frees)
  PROVE  LET r == Placed(frees, o)
         IN AtEnd("gamma", total, r) /\ ~r.killed /\ Scored(m, r) /\ r.dropped = 0
<1> DEFINE r == Placed(frees, o)
<1>0. /\ s \in Locals /\ s.eKin \in Nat
      /\ s.secs["electron"] = None /\ "electron" \in SecondaryNames
      /\ s.next = 0 /\ s.leaks = 0 /\ s.marks = 0 /\ ~s.killed /\ s.escaped = 0
      /\ total = s.eKin + Spent(s) /\ SecondaryEnergy(s.secs) \in Nat
  BY SecondaryType DEF Fresh, Underway, Locals, SecondaryNames, EnergyOf
<1>1. PICK bindingEnergy \in 1 .. s.eKin :
        o = End(frees, AbsorbAndRecord(s, m, bindingEnergy))
  BY DEF Photoelectric
<1> DEFINE photoElecE == s.eKin - bindingEnergy
           made == Create(s, "electron", photoElecE)
           emit == [made EXCEPT !.energyDeposit = bindingEnergy]
           gone == [s EXCEPT !.energyDeposit = s.eKin]
           left == IF photoElecE > theLowEnergyThreshold THEN emit ELSE gone
           h == RecordStep(left, m)
<1>2. photoElecE \in Nat /\ bindingEnergy \in Nat /\ s.eKin = photoElecE + bindingEnergy
  BY <1>0
<1>3. o = End(frees, h)
  BY <1>1 DEF AbsorbAndRecord
<1> HIDE DEF photoElecE
<1>4. SpentUp(total, emit) /\ emit.dropped = 0
  <2>1. EnergyOf(KindOf("electron"), photoElecE) = photoElecE
    BY DEF KindOf, EnergyOf
  <2>2. /\ made \in Locals /\ Spent(made) = Spent(s) + photoElecE /\ Spent(s) \in Nat
        /\ made.energyDeposit = 0 /\ made.dropped = 0 /\ made.next = 0 /\ made.leaks = 0
        /\ made.marks = 0 /\ ~made.killed /\ made.escaped = 0
    BY <1>0, <1>2, <2>1, CreateSpends DEF Same
  <2> HIDE DEF made
  <2>3. emit \in Locals
    BY <1>2, <2>2 DEF Locals
  <2>4. /\ emit.energyDeposit = bindingEnergy /\ emit.secs = made.secs
        /\ emit.dropped = 0 /\ emit.next = 0 /\ emit.leaks = 0
        /\ emit.marks = 0 /\ ~emit.killed /\ emit.escaped = 0
    BY <2>2 DEF Locals
  <2>5. SecondaryEnergy(made.secs) \in Nat
    BY <2>2, SecondaryType DEF Locals
  <2>6. Spent(emit) = Spent(made) + bindingEnergy
    BY <1>2, <2>2, <2>4, <2>5 DEF Spent
  <2> HIDE DEF emit
  <2> QED BY <1>0, <1>2, <2>2, <2>3, <2>4, <2>6 DEF SpentUp
<1>5. SpentUp(total, gone) /\ gone.dropped = 0
  <2>1. gone \in Locals
    BY <1>0 DEF Locals
  <2>2. /\ gone.energyDeposit = s.eKin /\ gone.secs = s.secs
        /\ gone.dropped = 0 /\ gone.next = 0 /\ gone.leaks = 0
        /\ gone.marks = 0 /\ ~gone.killed /\ gone.escaped = 0
    BY <1>0 DEF Locals
  <2> HIDE DEF gone
  <2> QED BY <1>0, <2>1, <2>2 DEF SpentUp, Spent
<1>6. SpentUp(total, left) /\ left.dropped = 0
  <2> HIDE DEF emit, gone
  <2> QED BY <1>4, <1>5
<1> HIDE DEF left
<1>7. /\ SpentUp(total, h) /\ h.dropped = 0
      /\ (m.sensitive => h.hit.edep = h.energyDeposit)
  <2>1. left \in Locals
    BY <1>6 DEF SpentUp
  <2> QED BY <1>6, <2>1, RecordStepKeeps DEF SpentUp
<1> HIDE DEF h
<1>8. Interacted("gamma", total, h, r)
  BY <1>3, <1>7, PlacedEnd
<1> HIDE DEF r
<1>9. AtEnd("gamma", total, r) /\ ~r.killed /\ Scored(m, r) /\ r.dropped = 0
  BY <1>7, <1>8 DEF Interacted, Same, Scored
<1> QED BY <1>9 DEF r

(* A step begins with nothing deposited, dropped or created.               *)
LEMMA BeginFresh ==
  ASSUME NEW track, Steppable(track), NEW last \in BOOLEAN
  PROVE  LET s == Begin(track, last)
         IN /\ Fresh(track.kind, EnergyOf(track.kind, track.eKin), s)
            /\ s.energyDeposit = 0 /\ s.dropped = 0 /\ ~s.stopped /\ ~s.cross_boundary
            /\ s.eKin = track.eKin /\ s.escaped = 0
<1>1. Underway(track.kind, EnergyOf(track.kind, track.eKin), Begin(track, last))
  BY BeginUnderway DEF Steppable
<1>2. LET s == Begin(track, last)
      IN /\ s.energyDeposit = 0 /\ s.dropped = 0 /\ ~s.stopped /\ ~s.cross_boundary
         /\ s.eKin = track.eKin /\ s.escaped = 0
         /\ \A n \in SecondaryNames : s.secs[n] = None
  BY DEF Begin
<1> QED BY <1>1, <1>2 DEF Fresh

(* Every way through the superseded kernels ends with the slot in one      *)
(* place, the energy accounted for, and the deposit in the hit; electrons  *)
(* that have used up their steps are killed.                               *)
THEOREM SupersededStepEnds ==
  ASSUME NEW track, Steppable(track), NEW m \in Materials, NEW o \in AsyncOutcomes(track, m)
  PROVE  /\ AtEnd(track.kind, EnergyOf(track.kind, track.eKin), o) /\ Scored(m, o)
         /\ track.kind # "gamma" /\ track.stepCounter >= maxSteps => o.killed
<1> DEFINE s == Begin(track, FALSE)
           total == EnergyOf(track.kind, track.eKin)
<1>1. /\ Fresh(track.kind, total, s) /\ s.energyDeposit = 0 /\ s.dropped = 0
      /\ ~s.stopped /\ ~s.cross_boundary
  BY BeginFresh
<1>2. AsyncOutcomes(track, m) =
        IF track.kind = "gamma" THEN AsyncGammas(s, m)
        ELSE IF track.stepCounter >= maxSteps THEN {Kill(track.kind, s)}
        ELSE AsyncElectrons(track.kind, s, m)
  BY DEF AsyncOutcomes
<1> HIDE DEF s, total
<1>3. Underway(track.kind, total, s) /\ s \in Locals
  BY <1>1 DEF Fresh, Underway
<1>4. CASE track.kind = "gamma"
  <2>0. Fresh("gamma", total, s) /\ Underway("gamma", total, s)
    BY <1>1, <1>3, <1>4
  <2>1. o \in AsyncGammas(s, m) /\ Placed(TRUE, o) = o
    BY <1>2, <1>4 DEF Placed
  <2>2. \/ \E p \in Propagations : o = survive(s, ~p.fGPUregion)
        \/ o = LeaveWorld("gamma", s) \/ o = survive(s, FALSE)
        \/ o \in Conversion(s, TRUE) \/ o \in Compton(s, m, TRUE)
        \/ o \in Photoelectric(s, m, TRUE)
    BY <2>1 DEF AsyncGammas, ApplyGammaInteractions, GammaProcesses
  <2>3. Interacted("gamma", total, s, o) => AtEnd("gamma", total, o) /\ Scored(m, o)
    BY <1>1 DEF Interacted, Same, Scored
  <2>4. CASE \E p \in Propagations : o = survive(s, ~p.fGPUregion)
    <3>1. PICK p \in Propagations : o = survive(s, ~p.fGPUregion)
      BY <2>4
    <3>2. (~p.fGPUregion) \in BOOLEAN
      OBVIOUS
    <3>3. Interacted("gamma", total, s, o)
      BY <2>0, <2>1, <3>1, <3>2, PlacedSurvive
    <3> QED BY <1>4, <2>3, <3>3 DEF total
  <2>5. CASE o = LeaveWorld("gamma", s)
    <3>1. AtEnd("gamma", total, o)
      BY <2>0, <2>5, LeaveWorldEnds
    <3>2. o.energyDeposit = 0
      BY <1>1, <1>3, <2>5 DEF LeaveWorld, MarkSlotForFreeing, Locals
    <3> QED BY <1>4, <3>1, <3>2 DEF total, Scored
  <2>6. CASE o = survive(s, FALSE)
    <3>1. Interacted("gamma", total, s, o)
      BY <2>0, <2>1, <2>6, PlacedSurvive
    <3> QED BY <1>4, <2>3, <3>1 DEF total
  <2>7. CASE o \in Conversion(s, TRUE)
    <3>1. Interacted("gamma", total, s, o)
      BY <2>0, <2>1, <2>7, ConversionEnds
    <3> QED BY <1>4, <2>3, <3>1 DEF total
  <2>8. CASE o \in Compton(s, m, TRUE)
    <3>1. AtEnd("gamma", total, o) /\ o.energyDeposit = 0
      BY <1>1, <2>0, <2>1, <2>8, ComptonEnds
    <3> QED BY <1>4, <3>1 DEF total, Scored
  <2>9. CASE o \in Photoelectric(s, m, TRUE)
    <3>1. AtEnd("gamma", total, o) /\ Scored(m, o)
      BY <1>1, <2>0, <2>1, <2>9, PhotoelectricEnds
    <3> QED BY <1>4, <3>1 DEF total
  <2> QED BY <2>2, <2>4, <2>5, <2>6, <2>7, <2>8, <2>9
<1>5. CASE track.kind # "gamma" /\ track.stepCounter >= maxSteps
  <2>1. o = Kill(track.kind, s)
    BY <1>2, <1>5
  <2>2. AtEnd(track.kind, total, o) /\ o.killed
    BY <1>3, <2>1, KillEnds
  <2> QED BY <2>2 DEF total, AtEnd, Scored
<1>6. CASE track.kind # "gamma" /\ ~(track.stepCounter >= maxSteps)
  <2>0. o \in AsyncElectrons(track.kind, s, m)
    BY <1>2, <1>6
  <2>1. PICK c \in PerformContinuous(s) :
          o \in UNION {Discrete(track.kind, RecordStep(c, m), p, TRUE) : p \in Propagations}
    BY <2>0 DEF AsyncElectrons
  <2>2. PICK p \in Propagations : o \in Discrete(track.kind, RecordStep(c, m), p, TRUE)
    BY <2>1
  <2>3. track.kind \in {"electron", "positron"} /\ Placed(TRUE, o) = o
    BY <1>6 DEF Steppable, Kinds, Placed
  <2>4. AtEnd(track.kind, total, o) /\ Scored(m, o)
    BY <1>1, <2>2, <2>3, RecordThenDiscrete
  <2> QED BY <1>6, <2>4 DEF total
<1> QED BY <1>4, <1>5, <1>6

(* A gamma's step in the split kernels.                                    *)
LEMMA SplitGammasEnd ==
  ASSUME NEW total, NEW s, Fresh("gamma", total, s), s.energyDeposit = 0, s.dropped = 0,
         NEW m \in Materials, NEW o \in SplitGammas(s, m)
  PROVE  LET r == GiveUp(o)
         IN AtEnd("gamma", total, r) /\ ~r.killed /\ Scored(m, r) /\ Lossy(s.eKin, r)
<1> DEFINE r == GiveUp(o)
           Goal == AtEnd("gamma", total, r) /\ ~r.killed /\ Scored(m, r) /\ Lossy(s.eKin, r)
<1>0. /\ Underway("gamma", total, s) /\ s \in Locals /\ s.eKin \in Nat
      /\ r = Placed(FALSE, o) /\ EnergyOf("gamma", s.eKin) = s.eKin /\ FALSE \in BOOLEAN
  BY DEF Fresh, Underway, Locals, Placed, EnergyOf
<1>1. PICK winner \in GammaHowFar :
        \E p \in Propagations : o \in GammaInteractions(GammaRelocation(s, p), m, winner)
  BY DEF SplitGammas, GammaPropagation
<1>2. PICK p \in Propagations : o \in GammaInteractions(GammaRelocation(s, p), m, winner)
  BY <1>1
<1>3. Interacted("gamma", total, s, r) => Goal
  <2> HIDE DEF r
  <2> QED BY DEF Interacted, Same, Scored, Lossy
<1>4. CASE p.limit = "boundary"
  <2>1. o = survive(s, ~p.fGPUregion) /\ (~p.fGPUregion) \in BOOLEAN
    BY <1>2, <1>4 DEF GammaRelocation, GammaInteractions
  <2> QED BY <1>0, <1>3, <2>1, PlacedSurvive
<1>5. CASE p.limit = "outside"
  <2>1. o = End(FALSE, [s EXCEPT !.escaped = EnergyOf("gamma", s.eKin)])
    BY <1>0, <1>2, <1>5 DEF GammaRelocation, GammaInteractions, End
  <2> QED BY <1>0, <1>3, <2>1, PlacedLeave
<1>6. CASE p.limit \notin {"boundary", "outside"}
  <2>1. \/ o = Drop(s, s.eKin) \/ o \in Conversion(s, FALSE) \/ o \in Compton(s, m, FALSE)
        \/ o \in Photoelectric(s, m, FALSE)
    <3>1. /\ GammaRelocation(s, p).s = s
          /\ ~GammaRelocation(s, p).restrictedPhysicalStepLength
      BY <1>6 DEF GammaRelocation
    <3>2. winner \in {0, 1, 2, -1}
      BY DEF GammaHowFar
    <3>3. o \in CASE winner < 0 -> {Drop(s, s.eKin)}
                  [] winner = 0 -> Conversion(s, FALSE)
                  [] winner = 1 -> Compton(s, m, FALSE)
                  [] winner = 2 -> Photoelectric(s, m, FALSE)
      BY <1>2, <3>1 DEF GammaInteractions
    <3>4. CASE winner = 0
      BY <3>3, <3>4
    <3>5. CASE winner = 1
      BY <3>3, <3>5
    <3>6. CASE winner = 2
      BY <3>3, <3>6
    <3>7. CASE winner = -1
      BY <3>3, <3>7
    <3> QED BY <3>2, <3>4, <3>5, <3>6, <3>7
  <2>2. CASE o = Drop(s, s.eKin)
    <3> DEFINE glass == [sensitive |-> FALSE]
    <3>1. RecordStep(s, glass) = s
      BY DEF RecordStep
    <3> HIDE DEF glass
    <3>2. /\ o \in Locals /\ Spent(o) = Spent(s) + s.eKin /\ o.dropped = s.eKin
          /\ o.energyDeposit = 0
          /\ o.next = s.next /\ o.leaks = s.leaks /\ o.marks = s.marks
          /\ o.killed = s.killed /\ o.escaped = s.escaped /\ Spent(s) \in Nat
      BY <1>0, <2>2, <3>1, DropSpends
    <3>3. SpentUp(total, o)
      BY <1>0, <3>2 DEF SpentUp, Underway
    <3>4. End(FALSE, o) = o
      BY DEF End
    <3>5. Interacted("gamma", total, o, r) /\ r.leaks = 0 /\ r.escaped = 0
      BY <1>0, <3>3, <3>4, PlacedEnd
    <3> HIDE DEF r
    <3>6. AtEnd("gamma", total, r) /\ ~r.killed /\ Scored(m, r) /\ Lossy(s.eKin, r)
      BY <3>2, <3>5 DEF Interacted, Same, Scored, Lossy
    <3> QED BY <3>6 DEF r
  <2>3. CASE o \in Conversion(s, FALSE)
    BY <1>0, <1>3, <2>3, ConversionEnds
  <2>4. CASE o \in Compton(s, m, FALSE)
    <3>1. /\ AtEnd("gamma", total, r) /\ ~r.killed /\ r.energyDeposit = 0
          /\ Lossy(s.eKin, r)
      BY <1>0, <2>4, ComptonEnds
    <3> QED BY <3>1 DEF Scored
  <2>5. CASE o \in Photoelectric(s, m, FALSE)
    <3>1. AtEnd("gamma", total, r) /\ ~r.killed /\ Scored(m, r) /\ r.dropped = 0
      BY <1>0, <2>5, PhotoelectricEnds
    <3> QED BY <3>1 DEF Lossy
  <2> QED BY <2>1, <2>2, <2>3, <2>4, <2>5
<1> QED BY <1>4, <1>5, <1>6

(* Every way through the split kernels ends so, too.  Only a gamma can lose*)
(* energy: the whole of it for want of a process, or what Compton          *)
(* scattering leaves below its threshold.                                  *)
THEOREM SplitStepEnds ==
  ASSUME NEW track, Steppable(track), NEW m \in Materials, NEW o \in SplitOutcomes(track, m)
  PROVE  /\ AtEnd(track.kind, EnergyOf(track.kind, track.eKin), o) /\ Scored(m, o)
         /\ ~o.killed
         /\ o.dropped > 0 => track.kind = "gamma" /\ Lossy(track.eKin, o)
<1> DEFINE s == Begin(track, FALSE)
           total == EnergyOf(track.kind, track.eKin)
<1>1. /\ Fresh(track.kind, total, s) /\ s.energyDeposit = 0 /\ s.dropped = 0
      /\ ~s.stopped /\ ~s.cross_boundary /\ s.eKin = track.eKin
  BY BeginFresh
<1>2. SplitOutcomes(track, m) =
        {GiveUp(x) : x \in IF track.kind = "gamma" THEN SplitGammas(s, m)
                           ELSE SplitElectrons(track.kind, s, m)}
  BY DEF SplitOutcomes
<1> HIDE DEF s, total
<1>3. PICK x \in (IF track.kind = "gamma" THEN SplitGammas(s, m)
                  ELSE SplitElectrons(track.kind, s, m)) : o = GiveUp(x)
  BY <1>2
<1>4. CASE track.kind = "gamma"
  <2>1. Fresh("gamma", total, s) /\ x \in SplitGammas(s, m)
    BY <1>1, <1>3, <1>4
  <2>2. AtEnd("gamma", total, o) /\ ~o.killed /\ Scored(m, o) /\ Lossy(s.eKin, o)
    BY <1>1, <1>3, <2>1, SplitGammasEnd
  <2> QED BY <1>1, <1>4, <2>2 DEF total
<1>5. CASE track.kind # "gamma"
  <2>1. track.kind \in {"electron", "positron"} /\ x \in SplitElectrons(track.kind, s, m)
    BY <1>3, <1>5 DEF Steppable, Kinds
  <2>2. PICK limit \in ElectronHowFar :
          x \in UNION {UNION {ElectronInteractions(track.kind, c, m, p) :
                                c \in ElectronMSC(s)} : p \in ElectronPropagation(limit)}
    BY <2>1 DEF SplitElectrons
  <2>3. PICK p \in ElectronPropagation(limit) :
          x \in UNION {ElectronInteractions(track.kind, c, m, p) : c \in ElectronMSC(s)}
    BY <2>2
  <2>4. PICK c \in PerformContinuous(s) : x \in ElectronInteractions(track.kind, c, m, p)
    BY <2>3 DEF ElectronMSC
  <2>5. p \in Propagations
    BY DEF ElectronPropagation
  <2>6. c \in Locals
    BY <1>1, <2>1, ContinuousLoss DEF Fresh, Underway
  <2>7. RecordStep(c, m).stopped = c.stopped
    BY <2>6, RecordStepKeeps
  <2>8. x \in Discrete(track.kind, RecordStep(c, m), p, FALSE)
    BY <2>4, <2>7 DEF ElectronInteractions, SwitchOnProcess, Discrete
  <2>9. o = Placed(FALSE, x) /\ FALSE \in BOOLEAN
    BY <1>3 DEF Placed
  <2>10. AtEnd(track.kind, total, o) /\ ~o.killed /\ Scored(m, o) /\ o.dropped = 0
    BY <1>1, <2>1, <2>5, <2>8, <2>9, RecordThenDiscrete
  <2> QED BY <2>10 DEF total
<1> QED BY <1>4, <1>5
-----------------------------------------------------------------------------
Track == [kind : Kinds, eKin : Nat, stepCounter : 0 .. maxSteps - 1,
          looperCounter : 0 .. Word - 1]

(* The part of TypeOK that the steps of a track depend on, and the         *)
(* occupancy of its slot.                                                  *)
IInv ==
  /\ tracks \in [Slots -> {Vacant, Stuck} \cup Track]
  /\ where \in [Slots -> [Queues -> Nat]]
  /\ cleared \subseteq Kinds
  /\ OneDestination

(* A new track is neither a vacant slot nor a killed one.                  *)
LEMMA TrackFacts ==
  /\ Vacant \notin Track /\ Stuck \notin Track
  /\ \A kind \in Kinds, e \in Nat : NewTrack(kind, e) \in Track
<1>1. "none" \notin Kinds /\ "killed" \notin Kinds
  BY DEF Kinds
<1>2. 0 \in 0 .. maxSteps - 1 /\ 0 \in 0 .. Word - 1
  BY KernelAssumption
<1> QED BY <1>1, <1>2 DEF Vacant, Stuck, Track, NewTrack

(* Counts in the queues are natural numbers.                               *)
LEMMA PlacesType ==
  ASSUME NEW w \in [Queues -> Nat]
  PROVE  /\ w["active"] \in Nat /\ w["next"] \in Nat /\ w["leaked"] \in Nat
         /\ w["marked"] \in Nat /\ Places(w) \in Nat
         /\ Places(w) = 1 /\ w["active"] > 0 => w["active"] = 1 /\ w["next"] = 0
                /\ w["leaked"] = 0 /\ w["marked"] = 0
         /\ Places(w) = 0 => w["active"] = 0 /\ w["next"] = 0 /\ w["leaked"] = 0
BY DEF Queues, Places

(* A primary that InitTracks has put in its slot.                          *)
LEMMA InitInvariant == Init => IInv
<1> SUFFICES ASSUME Init PROVE IInv
  OBVIOUS
<1>1. PICK p \in Primaries :
        tracks = [s \in Slots |-> IF s = 1 THEN NewTrack(p[1], p[2]) ELSE Vacant]
  BY DEF Init
<1>2. p[1] \in Kinds /\ p[2] \in Nat
  BY TrackLifeAssumption
<1>3. NewTrack(p[1], p[2]) \in Track
  BY <1>2, TrackFacts
<1>4. tracks \in [Slots -> {Vacant, Stuck} \cup Track]
  BY <1>1, <1>3
<1>5. where \in [Slots -> [Queues -> Nat]] /\ cleared \subseteq Kinds
  BY DEF Init, Nowhere, Queues
<1>6. OneDestination
  <2> SUFFICES ASSUME NEW s \in Slots
               PROVE  Places(where[s])
                        = IF tracks[s] \in {Vacant, Stuck} THEN 0 ELSE 1
    BY DEF OneDestination
  <2>1. CASE s = 1
    <3>1. tracks[s] \notin {Vacant, Stuck}
      BY <1>1, <1>3, <2>1, TrackFacts
    <3>2. Places(where[s]) = 1
      BY <2>1 DEF Init, Nowhere, Places, Queues
    <3> QED BY <3>1, <3>2
  <2>2. CASE s # 1
    <3>1. tracks[s] = Vacant
      BY <1>1, <2>2
    <3>2. Places(where[s]) = 0
      BY <2>2 DEF Init, Nowhere, Places, Queues
    <3> QED BY <3>1, <3>2
  <2> QED BY <2>1, <2>2
<1> QED BY <1>4, <1>5, <1>6 DEF IInv
-----------------------------------------------------------------------------
(* The track in an occupied slot, and what a step makes of it.             *)
LEMMA ActiveTrack ==
  ASSUME IInv, NEW s \in In("active")
  PROVE  /\ s \in Slots /\ tracks[s] \in Track /\ where[s] \in [Queues -> Nat]
         /\ where[s]["active"] = 1 /\ where[s]["next"] = 0
         /\ where[s]["leaked"] = 0 /\ where[s]["marked"] = 0
<1>1. s \in Slots /\ where[s]["active"] > 0 /\ where[s] \in [Queues -> Nat]
  BY DEF In, IInv
<1>2. Places(where[s]) = IF tracks[s] \in {Vacant, Stuck} THEN 0 ELSE 1
  BY <1>1 DEF IInv, OneDestination
<1>3. tracks[s] \notin {Vacant, Stuck} /\ Places(where[s]) = 1
  BY <1>1, <1>2, PlacesType DEF Places
<1> QED BY <1>1, <1>3, PlacesType DEF IInv

(* What a kernel's turn makes of the track in slot s: any outcome that has *)
(* ended, in which a survivor is still a track.                            *)
Turn(s, moved, o) ==
  /\ AtEnd(tracks[s].kind, EnergyOf(tracks[s].kind, tracks[s].eKin), o)
  /\ ~o.killed => /\ moved.kind = tracks[s].kind
                  /\ [moved EXCEPT !.eKin = o.saved,
                                   !.looperCounter = o.looperCounter] \in Track

(* A step ends as KernelSteps promises, within its number of steps.        *)
LEMMA StepOutcomesEnd ==
  ASSUME IInv, NEW s \in In("active"), NEW m \in Materials,
         NEW o \in StepOutcomes(s, m)
  PROVE  Turn(s, Stepped(s), o) /\ Scored(m, o)
<1> DEFINE n == Stepped(s)
<1>1. PICK last \in Flags(tracks[s].kind) : o \in Outcomes(n, m, last, FinishOff)
  BY DEF StepOutcomes
<1>2. last \in BOOLEAN /\ FinishOff \in BOOLEAN
  BY <1>1, TrackLifeAssumption DEF Flags, FinishOff
<1>3. tracks[s] \in Track /\ s \in Slots
  BY ActiveTrack
<1>4. /\ n.kind = tracks[s].kind /\ n.eKin = tracks[s].eKin
      /\ n.looperCounter = tracks[s].looperCounter
      /\ n.stepCounter = tracks[s].stepCounter + 1
      /\ n.stepCounter \in 0 .. maxSteps
      /\ n \in [kind : Kinds, eKin : Nat, stepCounter : 0 .. maxSteps,
               looperCounter : 0 .. Word - 1]
  BY <1>3, KernelAssumption DEF Stepped, Track
<1> HIDE DEF n
<1>5. Steppable(n)
  BY <1>3, <1>4, KernelAssumption DEF Steppable, Track
<1>6. AtEnd(n.kind, EnergyOf(n.kind, n.eKin), o) /\ Scored(m, o)
  BY <1>1, <1>2, <1>5, StepEnds
<1>7. ASSUME ~o.killed
      PROVE  [n EXCEPT !.eKin = o.saved, !.looperCounter = o.looperCounter] \in Track
  <2>1. ~(n.stepCounter >= maxSteps)
    BY <1>1, <1>7, StepsAreLimited
  <2>2. n.stepCounter \in 0 .. maxSteps - 1
    BY <1>4, <2>1, KernelAssumption
  <2>3. o.saved \in Nat /\ o.looperCounter \in 0 .. Word - 1
    BY <1>6 DEF AtEnd, Locals
  <2> QED BY <1>4, <2>2, <2>3 DEF Track
<1> QED BY <1>4, <1>6, <1>7 DEF n, Turn

(* A step of a track, with its secondaries.                                *)
LEMMA StepInvariant ==
  ASSUME IInv, NEW s \in In("active"), NEW moved, NEW o, Turn(s, moved, o),
         NEW slotOf \in SlotsFor(o), StepTo(s, moved, o, slotOf)
  PROVE  IInv'
<1> DEFINE Newborn(t) == {name \in Born(o) : slotOf[name] = t}
           Child(t) == CHOOSE name \in Newborn(t) : TRUE
           stepped == [moved EXCEPT !.eKin = o.saved,
                                    !.looperCounter = o.looperCounter]
<1>1. /\ s \in Slots /\ tracks[s] \in Track
      /\ where[s] \in [Queues -> Nat]
      /\ where[s]["active"] = 1 /\ where[s]["next"] = 0
      /\ where[s]["leaked"] = 0 /\ where[s]["marked"] = 0
  BY ActiveTrack
<1>2. /\ AtEnd(tracks[s].kind, EnergyOf(tracks[s].kind, tracks[s].eKin), o)
      /\ ~o.killed => stepped \in Track
  BY DEF Turn
<1>3. /\ o.next \in Nat /\ o.leaks \in Nat /\ o.marks \in Nat /\ o.killed \in BOOLEAN
      /\ o.next + o.leaks + o.marks = IF o.killed THEN 0 ELSE 1
      /\ o.secs \in [SecondaryNames -> Nat \cup {None}]
  BY <1>2 DEF AtEnd, Locals, OnePlace
<1>4. slotOf \in [Born(o) -> Free]
  BY DEF SlotsFor, Injection, IsInjective
<1>5. ASSUME NEW t \in Slots, Newborn(t) # {}
      PROVE  /\ tracks[t] = Vacant /\ t # s
             /\ NewTrack(KindOf(Child(t)), o.secs[Child(t)]) \in Track
  <2>1. Child(t) \in Newborn(t)
    BY <1>5
  <2> HIDE DEF Child
  <2>2. Child(t) \in Born(o) /\ slotOf[Child(t)] = t
    BY <2>1
  <2>3. t \in Free
    BY <1>4, <2>2
  <2>4. Child(t) \in SecondaryNames /\ o.secs[Child(t)] # None
    BY <2>2 DEF Born
  <2>5. o.secs[Child(t)] \in Nat
    BY <1>3, <2>4
  <2>6. KindOf(Child(t)) \in Kinds
    BY <2>4 DEF KindOf, SecondaryNames, Kinds
  <2> QED BY <1>1, <2>3, <2>5, <2>6, TrackFacts DEF Free
<1>6. \A t \in Slots :
        tracks'[t] = IF t = s THEN (IF o.killed THEN Stuck ELSE stepped)
                     ELSE IF Newborn(t) # {}
                       THEN NewTrack(KindOf(Child(t)), o.secs[Child(t)])
                     ELSE tracks[t]
  BY Zenon DEF StepTo
<1>7. \A t \in Slots :
        where'[t] = IF t = s
                      THEN [where[s] EXCEPT !["active"] = @ - 1, !["next"] = @ + o.next,
                              !["leaked"] = @ + o.leaks, !["marked"] = @ + o.marks]
                    ELSE IF Newborn(t) # {} THEN [where[t] EXCEPT !["next"] = @ + 1]
                    ELSE where[t]
  BY Zenon DEF StepTo
<1> HIDE DEF Newborn, Child, stepped
<1>8. ASSUME NEW t \in Slots
      PROVE  /\ tracks'[t] \in {Vacant, Stuck} \cup Track
             /\ where'[t] \in [Queues -> Nat]
             /\ Places(where'[t]) = IF tracks'[t] \in {Vacant, Stuck} THEN 0 ELSE 1
  <2>1. CASE t = s
    <3>0. where'[t] = [where[s] EXCEPT !["active"] = @ - 1, !["next"] = @ + o.next,
                         !["leaked"] = @ + o.leaks, !["marked"] = @ + o.marks]
      BY <1>7, <2>1
    <3>1. where[s]["active"] - 1 = 0 /\ where[s]["next"] + o.next = o.next
          /\ where[s]["leaked"] + o.leaks = o.leaks
          /\ where[s]["marked"] + o.marks = o.marks
      BY <1>1, <1>3
    <3>2. where'[t] \in [Queues -> Nat] /\ Places(where'[t]) = IF o.killed THEN 0 ELSE 1
      <4>1. /\ where'[t] \in [Queues -> Nat] /\ where'[t]["active"] = 0
            /\ where'[t]["next"] = o.next /\ where'[t]["leaked"] = o.leaks
            /\ where'[t]["marked"] = o.marks
        BY <1>1, <1>3, <3>0, <3>1 DEF Queues
      <4> QED BY <1>3, <4>1 DEF Places
    <3>3. tracks'[t] = IF o.killed THEN Stuck ELSE stepped
      BY <1>6, <2>1
    <3>4. (~o.killed) => stepped \notin {Vacant, Stuck}
      BY <1>2, TrackFacts
    <3> QED BY <1>2, <3>2, <3>3, <3>4
  <2>2. CASE t # s /\ Newborn(t) # {}
    <3>1. tracks'[t] \in Track
      BY <1>5, <1>6, <2>2
    <3>2. where[t] \in [Queues -> Nat] /\ Places(where[t]) = 0
      BY <1>5, <2>2 DEF IInv, OneDestination
    <3>3. where'[t] = [where[t] EXCEPT !["next"] = @ + 1]
      BY <1>7, <2>2
    <3>4. where'[t] \in [Queues -> Nat] /\ Places(where'[t]) = 1
      <4>1. where[t]["next"] \in Nat /\ where[t]["next"] + 1 \in Nat
        BY <3>2, PlacesType
      <4>2. /\ where'[t] \in [Queues -> Nat]
            /\ where'[t]["active"] = where[t]["active"]
            /\ where'[t]["next"] = where[t]["next"] + 1
            /\ where'[t]["leaked"] = where[t]["leaked"]
            /\ where'[t]["marked"] = where[t]["marked"]
        BY <3>2, <3>3, <4>1 DEF Queues
      <4> QED BY <3>2, <4>2, PlacesType DEF Places
    <3>5. tracks'[t] \notin {Vacant, Stuck}
      BY <3>1, TrackFacts
    <3> QED BY <3>1, <3>4, <3>5
  <2>3. CASE t # s /\ Newborn(t) = {}
    <3>1. tracks'[t] = tracks[t] /\ where'[t] = where[t]
      BY <1>6, <1>7, <2>3
    <3> QED BY <3>1 DEF IInv, OneDestination
  <2> QED BY <2>1, <2>2, <2>3
<1>9. tracks' = [t \in Slots |-> tracks'[t]] /\ where' = [t \in Slots |-> where'[t]]
  BY DEF StepTo
<1>10. tracks' \in [Slots -> {Vacant, Stuck} \cup Track]
       /\ where' \in [Slots -> [Queues -> Nat]]
  BY <1>8, <1>9
<1>11. cleared' \subseteq Kinds
  BY <1>1 DEF StepTo, IInv, Track
<1>12. OneDestination'
  BY <1>8 DEF OneDestination
<1> QED BY <1>10, <1>11, <1>12 DEF IInv
-----------------------------------------------------------------------------
(* A leaked track goes to the host, its slot to the marked ones.           *)
LEMMA ExtractInvariant ==
  ASSUME IInv, NEW s \in Slots, Extract(s)
  PROVE  IInv'
<1>1. where[s] \in [Queues -> Nat] /\ where[s]["leaked"] > 0
  BY DEF Extract, In, IInv
<1>2. /\ where[s]["leaked"] - 1 \in Nat /\ where[s]["marked"] + 1 \in Nat
      /\ where[s]["leaked"] \in Nat /\ where[s]["marked"] \in Nat
  BY <1>1, PlacesType
<1>3. /\ where' = [where EXCEPT ![s] = [where[s] EXCEPT !["leaked"] = @ - 1,
                                                      !["marked"] = @ + 1]]
      /\ tracks' = tracks /\ cleared' = cleared
  BY DEF Extract, IInv, Queues
<1>4. /\ where'[s] = [where[s] EXCEPT !["leaked"] = @ - 1, !["marked"] = @ + 1]
      /\ \A t \in Slots : t # s => where'[t] = where[t]
  BY <1>3 DEF IInv
<1>5. /\ where'[s] \in [Queues -> Nat]
      /\ where'[s]["active"] = where[s]["active"] /\ where'[s]["next"] = where[s]["next"]
      /\ where'[s]["leaked"] = where[s]["leaked"] - 1
      /\ where'[s]["marked"] = where[s]["marked"] + 1
  BY <1>1, <1>2, <1>4 DEF Queues
<1>6. Places(where'[s]) = Places(where[s])
  BY <1>1, <1>5, PlacesType DEF Places
<1>7. where' \in [Slots -> [Queues -> Nat]]
  BY <1>3, <1>4, <1>5 DEF IInv
<1>8. ASSUME NEW t \in Slots
      PROVE  Places(where'[t]) = IF tracks'[t] \in {Vacant, Stuck} THEN 0 ELSE 1
  <2>1. Places(where'[t]) = Places(where[t])
    BY <1>4, <1>6
  <2> QED BY <1>3, <2>1 DEF IInv, OneDestination
<1>9. OneDestination'
  BY <1>8 DEF OneDestination
<1> QED BY <1>3, <1>7, <1>9 DEF IInv

(* Marked slots are freed, and the queues swapped.                         *)
LEMMA NextIterationInvariant ==
  ASSUME IInv, NextIteration
  PROVE  IInv'
<1>1. ASSUME NEW s \in Slots
      PROVE  /\ tracks'[s] \in {Vacant, Stuck} \cup Track
             /\ where'[s] \in [Queues -> Nat]
             /\ Places(where'[s]) = IF tracks'[s] \in {Vacant, Stuck} THEN 0 ELSE 1
  <2>1. /\ where[s] \in [Queues -> Nat] /\ tracks[s] \in {Vacant, Stuck} \cup Track
        /\ Places(where[s]) = IF tracks[s] \in {Vacant, Stuck} THEN 0 ELSE 1
    BY DEF IInv, OneDestination
  <2>2. where[s]["active"] = 0
    BY <2>1, PlacesType DEF NextIteration, In
  <2>3. /\ tracks'[s] = IF where[s]["marked"] > 0 THEN Vacant ELSE tracks[s]
        /\ where'[s] = [where[s] EXCEPT !["active"] = where[s]["next"],
                                        !["next"] = 0, !["marked"] = 0]
    BY DEF NextIteration, In
  <2>4. /\ where[s]["next"] \in Nat /\ where[s]["leaked"] \in Nat
        /\ where[s]["marked"] \in Nat
    BY <2>1, PlacesType
  <2>5. /\ where'[s] \in [Queues -> Nat]
        /\ where'[s]["active"] = where[s]["next"] /\ where'[s]["next"] = 0
        /\ where'[s]["leaked"] = where[s]["leaked"] /\ where'[s]["marked"] = 0
    BY <2>1, <2>3, <2>4 DEF Queues
  <2>6. Places(where[s]) = where[s]["next"] + where[s]["leaked"] + where[s]["marked"]
        /\ Places(where'[s]) = where[s]["next"] + where[s]["leaked"]
    BY <2>2, <2>4, <2>5 DEF Places
  <2>7. CASE where[s]["marked"] > 0
    BY <2>1, <2>3, <2>4, <2>5, <2>6, <2>7
  <2>8. CASE ~(where[s]["marked"] > 0)
    BY <2>1, <2>3, <2>4, <2>5, <2>6, <2>8
  <2> QED BY <2>7, <2>8
<1>2. tracks' = [s \in Slots |-> tracks'[s]] /\ where' = [s \in Slots |-> where'[s]]
  BY DEF NextIteration
<1>3. tracks' \in [Slots -> {Vacant, Stuck} \cup Track]
      /\ where' \in [Slots -> [Queues -> Nat]]
  BY <1>1, <1>2
<1>4. cleared' \subseteq Kinds
  BY DEF NextIteration
<1>5. OneDestination'
  BY <1>1 DEF OneDestination
<1> QED BY <1>3, <1>4, <1>5 DEF IInv
-----------------------------------------------------------------------------
(* The types of the other variables.                                       *)
Counts ==
  /\ injected \in Nat
  /\ ledger \in [deposited : Nat, returned : Nat, escaped : Nat, dropped : Nat]
  /\ active \in 0 .. NSlots /\ perEventInFlightPrevious \in 0 .. NSlots
  /\ allowFinishOffEvent \in {0, lastNParticlesOnCPU}

(* The energy of a set of slots.  A sum over a set is the number of its    *)
(* quanta: as many pairs for every slot as it has energy.                  *)
Live == In("active") \cup In("next") \cup In("leaked")
Energies == [s \in Slots |-> EnergyOf(tracks[s].kind, tracks[s].eKin)]
EnergyIn(S) == MapThenSumSet(LAMBDA s : EnergyOf(tracks[s].kind, tracks[s].eKin), S)

(* Slots are finitely many.                                                *)
LEMMA SlotsFinite ==
  /\ IsFiniteSet(Slots)
  /\ \A S \in SUBSET Slots : IsFiniteSet(S)
<1>1. NSlots \in Nat /\ 1 \in Int /\ NSlots \in Int
  BY TrackLifeAssumption
<1>2. IsFiniteSet(Slots)
  BY <1>1, FS_Interval DEF Slots
<1> QED BY <1>2, FS_Subset

(* The lemmas of Counting for slots.                                       *)
LEMMA QuantaFinite ==
  ASSUME NEW h \in [Slots -> Nat], NEW S \in SUBSET Slots
  PROVE  IsFiniteSet(Quanta(h, S)) /\ Count(h, S) \in Nat
<1>1. IsFiniteSet(S) /\ \A x \in S : h[x] \in Nat
  BY SlotsFinite
<1> QED BY <1>1, CountIsNat

LEMMA CountStep ==
  ASSUME NEW h \in [Slots -> Nat], NEW T \in SUBSET Slots, NEW x \in T
  PROVE  Count(h, T) = h[x] + Count(h, T \ {x})
<1>1. IsFiniteSet(Slots) /\ \A y \in Slots : h[y] \in Nat
  BY SlotsFinite
<1> QED BY <1>1, CountWithout

LEMMA QuantaOfOne ==
  ASSUME NEW h \in [Slots -> Nat], NEW x \in Slots
  PROVE  IsFiniteSet(Quanta(h, {x})) /\ Count(h, {x}) = h[x]
BY CountOfOne

(* The fold of EnergyIsAccountedFor counts the quanta.  Its recursive      *)
(* function exists, Count being one, and has only one value: a least set   *)
(* on which another differs has an element to take out.                    *)
LEMMA EnergyIsCount ==
  ASSUME NEW S \in SUBSET Slots, Energies \in [Slots -> Nat]
  PROVE  EnergyIn(S) = Count(Energies, S)
<1> DEFINE h == Energies
           chosen(T) == CHOOSE x \in T : TRUE
           Fold(iter) == iter = [T \in SUBSET S |->
             IF T = {} THEN 0
             ELSE EnergyOf(tracks[chosen(T)].kind, tracks[chosen(T)].eKin)
                    + iter[T \ {chosen(T)}]]
           g == CHOOSE iter : Fold(iter)
           F == [T \in SUBSET S |-> Count(h, T)]
<1>1. EnergyIn(S) = g[S]
  BY DEF EnergyIn, MapThenSumSet, MapThenFoldSet
<1>2. \A T \in SUBSET S : T # {} => /\ chosen(T) \in T /\ T \ {chosen(T)} \in SUBSET S
                                   /\ T \in SUBSET Slots /\ chosen(T) \in Slots
  OBVIOUS
<1>3. \A T \in SUBSET S : T # {} =>
        h[chosen(T)] = EnergyOf(tracks[chosen(T)].kind, tracks[chosen(T)].eKin)
  BY <1>2 DEF Energies
<1> HIDE DEF chosen, h
<1>4. Fold(F)
  <2>1. ASSUME NEW T \in SUBSET S
        PROVE  F[T] = IF T = {} THEN 0
                      ELSE EnergyOf(tracks[chosen(T)].kind, tracks[chosen(T)].eKin)
                             + F[T \ {chosen(T)}]
    <3>1. CASE T = {}
      BY <3>1, CountOfNone
    <3>2. CASE T # {}
      <4>1. Count(h, T) = h[chosen(T)] + Count(h, T \ {chosen(T)})
        BY <1>2, <3>2, CountStep DEF h
      <4>2. F[T] = Count(h, T) /\ F[T \ {chosen(T)}] = Count(h, T \ {chosen(T)})
        BY <1>2, <3>2
      <4> QED BY <1>3, <3>2, <4>1, <4>2
    <3> QED BY <3>1, <3>2
  <2> QED BY <2>1
<1> HIDE DEF F
<1>5. Fold(g)
  BY <1>4
<1>6. \A T \in SUBSET S : F[T] = Count(h, T)
  BY DEF F
<1>7. ASSUME NEW T \in SUBSET S
      PROVE  /\ T = {} => g[T] = 0 /\ F[T] = 0
             /\ T # {} => /\ g[T] = EnergyOf(tracks[chosen(T)].kind, tracks[chosen(T)].eKin)
                                      + g[T \ {chosen(T)}]
                          /\ F[T] = EnergyOf(tracks[chosen(T)].kind, tracks[chosen(T)].eKin)
                                      + F[T \ {chosen(T)}]
  <2> HIDE DEF g
  <2> QED BY <1>4, <1>5
<1> HIDE DEF g, Fold
<1> DEFINE Bad == {T \in SUBSET S : g[T] # F[T]}
<1>8. ASSUME Bad # {}
      PROVE  FALSE
  <2>0. Bad \in SUBSET (SUBSET Slots)
    OBVIOUS
  <2>1. PICK T \in Bad : \A U \in Bad : ~(U \subseteq T /\ U # T)
    <3> HIDE DEF Bad
    <3> QED BY <1>8, <2>0, SlotsFinite, LeastSubset
  <2>2. T \in SUBSET S /\ g[T] # F[T]
    BY <2>1
  <2>3. T # {}
    BY <1>7, <2>2
  <2>4. chosen(T) \in T /\ T \ {chosen(T)} \in SUBSET S
    BY <1>2, <2>2, <2>3
  <2>5. T \ {chosen(T)} \notin Bad
    BY <2>1, <2>4
  <2>6. g[T \ {chosen(T)}] = F[T \ {chosen(T)}]
    BY <2>4, <2>5
  <2> QED BY <1>7, <2>2, <2>3, <2>6
<1> QED BY <1>1, <1>6, <1>8 DEF h
-----------------------------------------------------------------------------
(* What a step does to its own slot, to those of its secondaries, and to   *)
(* the others.                                                             *)
StepResult(s, moved, o, slotOf) ==
  /\ tracks'[s] = IF o.killed THEN Stuck
                  ELSE [moved EXCEPT !.eKin = o.saved,
                                     !.looperCounter = o.looperCounter]
  /\ where'[s]["active"] = 0 /\ where'[s]["next"] = o.next
  /\ where'[s]["leaked"] = o.leaks
  /\ \A n \in Born(o) : /\ slotOf[n] \in Slots /\ slotOf[n] # s
                        /\ Places(where[slotOf[n]]) = 0
                        /\ tracks'[slotOf[n]] = NewTrack(KindOf(n), o.secs[n])
                        /\ where'[slotOf[n]]["next"] = where[slotOf[n]]["next"] + 1
  /\ \A n, k \in Born(o) : n # k => slotOf[n] # slotOf[k]
  /\ \A t \in Slots \ ({s} \cup {slotOf[n] : n \in Born(o)}) :
       tracks'[t] = tracks[t] /\ where'[t] = where[t]

(* And it does so.                                                         *)
LEMMA StepEffect ==
  ASSUME IInv, NEW s \in In("active"), NEW moved, NEW o, Turn(s, moved, o),
         NEW slotOf \in SlotsFor(o), StepTo(s, moved, o, slotOf)
  PROVE  StepResult(s, moved, o, slotOf)
<1> DEFINE Newborn(t) == {name \in Born(o) : slotOf[name] = t}
           Child(t) == CHOOSE name \in Newborn(t) : TRUE
           stepped == [moved EXCEPT !.eKin = o.saved,
                                    !.looperCounter = o.looperCounter]
<1>1. /\ s \in Slots /\ tracks[s] \in Track /\ where[s] \in [Queues -> Nat]
      /\ where[s]["active"] = 1 /\ where[s]["next"] = 0
      /\ where[s]["leaked"] = 0 /\ where[s]["marked"] = 0
  BY ActiveTrack
<1>2. o.next \in Nat /\ o.leaks \in Nat /\ o.marks \in Nat
  BY DEF Turn, AtEnd, Locals
<1>3. slotOf \in [Born(o) -> Free] /\ \A n, k \in Born(o) : n # k => slotOf[n] # slotOf[k]
  BY DEF SlotsFor, Injection, IsInjective
<1>4. \A t \in Slots :
        tracks'[t] = IF t = s THEN (IF o.killed THEN Stuck ELSE stepped)
                     ELSE IF Newborn(t) # {}
                       THEN NewTrack(KindOf(Child(t)), o.secs[Child(t)])
                     ELSE tracks[t]
  BY Zenon DEF StepTo
<1>5. \A t \in Slots :
        where'[t] = IF t = s
                      THEN [where[s] EXCEPT !["active"] = @ - 1, !["next"] = @ + o.next,
                              !["leaked"] = @ + o.leaks, !["marked"] = @ + o.marks]
                    ELSE IF Newborn(t) # {} THEN [where[t] EXCEPT !["next"] = @ + 1]
                    ELSE where[t]
  BY Zenon DEF StepTo
<1>6. \A n \in Born(o) : /\ slotOf[n] \in Slots /\ tracks[slotOf[n]] = Vacant
                         /\ slotOf[n] # s /\ Newborn(slotOf[n]) = {n}
  BY <1>1, <1>3, TrackFacts DEF Free
<1>7. \A n \in Born(o) : Child(slotOf[n]) = n /\ Newborn(slotOf[n]) # {}
  BY <1>6
<1>8. \A t \in Slots \ ({s} \cup {slotOf[n] : n \in Born(o)}) : Newborn(t) = {} /\ t # s
  OBVIOUS
<1> HIDE DEF Newborn, Child, stepped
<1>9. tracks'[s] = IF o.killed THEN Stuck ELSE stepped
  BY <1>1, <1>4
<1>10. /\ where'[s]["active"] = 0 /\ where'[s]["next"] = o.next
       /\ where'[s]["leaked"] = o.leaks
  <2>1. where'[s] = [where[s] EXCEPT !["active"] = @ - 1, !["next"] = @ + o.next,
                       !["leaked"] = @ + o.leaks, !["marked"] = @ + o.marks]
    BY <1>1, <1>5
  <2>2. /\ where[s]["active"] - 1 = 0 /\ where[s]["next"] + o.next = o.next
        /\ where[s]["leaked"] + o.leaks = o.leaks
    BY <1>1, <1>2
  <2> QED BY <1>1, <2>1, <2>2 DEF Queues
<1>11. ASSUME NEW n \in Born(o)
       PROVE  /\ slotOf[n] \in Slots /\ slotOf[n] # s /\ Places(where[slotOf[n]]) = 0
              /\ tracks'[slotOf[n]] = NewTrack(KindOf(n), o.secs[n])
              /\ where'[slotOf[n]]["next"] = where[slotOf[n]]["next"] + 1
  <2>1. Places(where[slotOf[n]]) = 0 /\ where[slotOf[n]] \in [Queues -> Nat]
    BY <1>6 DEF IInv, OneDestination
  <2>2. tracks'[slotOf[n]] = NewTrack(KindOf(n), o.secs[n])
    BY <1>4, <1>6, <1>7
  <2>3. where'[slotOf[n]] = [where[slotOf[n]] EXCEPT !["next"] = @ + 1]
    BY <1>5, <1>6, <1>7
  <2> QED BY <1>6, <2>1, <2>2, <2>3 DEF Queues
<1>12. \A t \in Slots \ ({s} \cup {slotOf[n] : n \in Born(o)}) :
         tracks'[t] = tracks[t] /\ where'[t] = where[t]
  BY <1>4, <1>5, <1>8
<1> QED BY <1>3, <1>9, <1>10, <1>11, <1>12 DEF stepped, StepResult

(* All energies are numbers.                                               *)
LEMMA EnergiesType == IInv => Energies \in [Slots -> Nat]
<1> SUFFICES ASSUME IInv, NEW s \in Slots
             PROVE  EnergyOf(tracks[s].kind, tracks[s].eKin) \in Nat
  BY DEF Energies
<1>1. tracks[s].eKin \in Nat
  BY DEF IInv, Track, Vacant, Stuck, NewTrack
<1> QED BY <1>1, EnergyType

LEMMA EnergiesTypeNext == IInv' => (Energies \in [Slots -> Nat])'
BY EnergiesType, PTL

(* The sum of EnergyIsAccountedFor, now and in the next state.             *)
LEMMA AccountIsCount ==
  IInv => (EnergyIsAccountedFor <=>
             injected = ledger.deposited + ledger.returned + ledger.escaped
                          + ledger.dropped + Count(Energies, Live))
<1> SUFFICES ASSUME IInv
             PROVE  EnergyIsAccountedFor <=>
                      injected = ledger.deposited + ledger.returned + ledger.escaped
                                   + ledger.dropped + Count(Energies, Live)
  OBVIOUS
<1>1. Live \in SUBSET Slots
  BY DEF Live, In
<1>2. EnergyIn(Live) = Count(Energies, Live)
  BY <1>1, EnergiesType, EnergyIsCount
<1>3. EnergyIsAccountedFor <=>
        injected = ledger.deposited + ledger.returned + ledger.escaped
                     + ledger.dropped + EnergyIn(Live)
  BY DEF EnergyIsAccountedFor, EnergyIn, Live
<1> QED BY <1>2, <1>3

LEMMA AccountIsCountNext ==
  IInv' => (EnergyIsAccountedFor' <=>
              (injected = ledger.deposited + ledger.returned + ledger.escaped
                            + ledger.dropped + Count(Energies, Live))')
BY AccountIsCount, PTL

(* The slots that live are those of tracks in a queue.                     *)
LEMMA LiveSlots ==
  ASSUME NEW w \in [Queues -> Nat]
  PROVE  (w["active"] > 0 \/ w["next"] > 0 \/ w["leaked"] > 0) <=>
            w["active"] + w["next"] + w["leaked"] > 0
BY DEF Queues

(* The energy of one secondary, where it is put.                           *)
LEMMA SecondaryCount ==
  ASSUME NEW g \in [Slots -> Nat], NEW secs \in [SecondaryNames -> Nat \cup {None}],
         NEW place \in [SecondaryNames -> SUBSET Slots],
         \A n \in SecondaryNames :
           IF secs[n] = None THEN place[n] = {}
           ELSE \E t \in Slots : place[n] = {t} /\ g[t] = EnergyOf(KindOf(n), secs[n]),
         \A n, k \in SecondaryNames : n # k => place[n] \cap place[k] = {}
  PROVE  Count(g, UNION {place[n] : n \in SecondaryNames}) = SecondaryEnergy(secs)
<1>1. ASSUME NEW n \in SecondaryNames
      PROVE  Count(g, place[n]) = Given(secs, n) /\ IsFiniteSet(Quanta(g, place[n]))
  <2>1. CASE secs[n] = None
    BY <2>1, CountOfNone DEF Given
  <2>2. CASE secs[n] # None
    <3>1. PICK t \in Slots : place[n] = {t} /\ g[t] = EnergyOf(KindOf(n), secs[n])
      BY <2>2
    <3> QED BY <2>2, <3>1, QuantaOfOne DEF Given
  <2> QED BY <2>1, <2>2
<1> DEFINE A == place["electron"]
           B == place["positron"]
           C == place["gamma"]
           D == place["gamma1"]
           E == place["gamma2"]
<1>2. UNION {place[n] : n \in SecondaryNames} = (((A \cup B) \cup C) \cup D) \cup E
  BY DEF SecondaryNames
<1>3. /\ A \cap B = {} /\ (A \cup B) \cap C = {} /\ ((A \cup B) \cup C) \cap D = {}
      /\ (((A \cup B) \cup C) \cup D) \cap E = {}
  BY DEF SecondaryNames
<1>4. /\ Count(g, A) = Given(secs, "electron") /\ IsFiniteSet(Quanta(g, A))
      /\ Count(g, B) = Given(secs, "positron") /\ IsFiniteSet(Quanta(g, B))
      /\ Count(g, C) = Given(secs, "gamma") /\ IsFiniteSet(Quanta(g, C))
      /\ Count(g, D) = Given(secs, "gamma1") /\ IsFiniteSet(Quanta(g, D))
      /\ Count(g, E) = Given(secs, "gamma2") /\ IsFiniteSet(Quanta(g, E))
  BY <1>1 DEF SecondaryNames
<1> HIDE DEF A, B, C, D, E
<1>5. Count(g, A \cup B) = Count(g, A) + Count(g, B) /\ IsFiniteSet(Quanta(g, A \cup B))
  BY <1>3, <1>4, CountOfTwo
<1>6. /\ Count(g, (A \cup B) \cup C) = Count(g, A \cup B) + Count(g, C)
      /\ IsFiniteSet(Quanta(g, (A \cup B) \cup C))
  BY <1>3, <1>4, <1>5, CountOfTwo
<1>7. /\ Count(g, ((A \cup B) \cup C) \cup D) = Count(g, (A \cup B) \cup C) + Count(g, D)
      /\ IsFiniteSet(Quanta(g, ((A \cup B) \cup C) \cup D))
  BY <1>3, <1>4, <1>6, CountOfTwo
<1>8. Count(g, (((A \cup B) \cup C) \cup D) \cup E)
        = Count(g, ((A \cup B) \cup C) \cup D) + Count(g, E)
  BY <1>3, <1>4, <1>7, CountOfTwo
<1> QED BY <1>2, <1>4, <1>5, <1>6, <1>7, <1>8 DEF SecondaryEnergy

(* A step keeps the account: what the track had is deposited, dropped, out *)
(* of the world, with the track that goes on, or with its secondaries.     *)
LEMMA StepAccount ==
  ASSUME IInv, IInv', Counts, EnergyIsAccountedFor,
         NEW s \in In("active"), NEW moved, NEW o, Turn(s, moved, o),
         NEW slotOf \in SlotsFor(o), StepTo(s, moved, o, slotOf)
  PROVE  EnergyIsAccountedFor'
<1>0. StepResult(s, moved, o, slotOf)
  BY StepEffect
<1> DEFINE h == Energies
           g == Energies'
           kind == tracks[s].kind
           place == [n \in SecondaryNames |-> IF n \in Born(o) THEN {slotOf[n]} ELSE {}]
           N == UNION {place[n] : n \in SecondaryNames}
           K == IF o.next + o.leaks > 0 THEN {s} ELSE {}
           R == Live \ {s}
<1>1. h \in [Slots -> Nat] /\ g \in [Slots -> Nat]
  BY EnergiesType, EnergiesTypeNext
<1>2. s \in Slots /\ s \in Live /\ R \in SUBSET Slots /\ Live = R \cup {s}
  BY DEF Live, In
<1>3. /\ where \in [Slots -> [Queues -> Nat]] /\ where' \in [Slots -> [Queues -> Nat]]
      /\ tracks \in [Slots -> {Vacant, Stuck} \cup Track]
  BY DEF IInv
<1>4. /\ tracks'[s] = IF o.killed THEN Stuck
                      ELSE [moved EXCEPT !.eKin = o.saved,
                                         !.looperCounter = o.looperCounter]
      /\ where'[s]["active"] = 0 /\ where'[s]["next"] = o.next
      /\ where'[s]["leaked"] = o.leaks
      /\ \A n \in Born(o) : /\ slotOf[n] \in Slots /\ slotOf[n] # s
                            /\ Places(where[slotOf[n]]) = 0
                            /\ tracks'[slotOf[n]] = NewTrack(KindOf(n), o.secs[n])
                            /\ where'[slotOf[n]]["next"] = where[slotOf[n]]["next"] + 1
      /\ \A n, k \in Born(o) : n # k => slotOf[n] # slotOf[k]
      /\ \A t \in Slots \ ({s} \cup {slotOf[n] : n \in Born(o)}) :
           tracks'[t] = tracks[t] /\ where'[t] = where[t]
  BY <1>0 DEF StepResult
<1>5. /\ o \in Locals /\ OnePlace(o) /\ Balanced(kind, h[s], o)
      /\ o.next \in Nat /\ o.leaks \in Nat /\ o.marks \in Nat /\ o.saved \in Nat
      /\ o.secs \in [SecondaryNames -> Nat \cup {None}]
      /\ o.energyDeposit \in Nat /\ o.dropped \in Nat /\ o.escaped \in Nat
      /\ ~o.killed => [moved EXCEPT !.eKin = o.saved,
                                    !.looperCounter = o.looperCounter] \in Track
      /\ ~o.killed => moved.kind = kind
  BY <1>2 DEF Turn, AtEnd, Locals, Energies
<1>6. Born(o) \subseteq SecondaryNames /\ \A n \in SecondaryNames : n \in Born(o) <=> o.secs[n] # None
  BY DEF Born
<1>7. N = {slotOf[n] : n \in Born(o)} /\ N \in SUBSET Slots
  BY <1>4, <1>6
<1>8. ASSUME NEW t \in N
      PROVE  t \notin Live /\ t # s
  <2>1. t \in Slots /\ t # s /\ Places(where[t]) = 0
    BY <1>4, <1>7
  <2> HIDE DEF N
  <2>3. where[t]["active"] = 0 /\ where[t]["next"] = 0 /\ where[t]["leaked"] = 0
    BY <1>3, <2>1, PlacesType
  <2> QED BY <2>1, <2>3 DEF Live, In
<1>9. Count(g, N) = SecondaryEnergy(o.secs)
  <2>1. place \in [SecondaryNames -> SUBSET Slots]
    BY <1>4, <1>6
  <2>2. ASSUME NEW n \in SecondaryNames
        PROVE  IF o.secs[n] = None THEN place[n] = {}
               ELSE \E t \in Slots : place[n] = {t} /\ g[t] = EnergyOf(KindOf(n), o.secs[n])
    <3>1. CASE o.secs[n] = None
      BY <1>6, <3>1
    <3>2. CASE o.secs[n] # None
      <4>1. n \in Born(o) /\ place[n] = {slotOf[n]} /\ slotOf[n] \in Slots
        BY <1>4, <1>6, <3>2
      <4>2. tracks'[slotOf[n]].kind = KindOf(n) /\ tracks'[slotOf[n]].eKin = o.secs[n]
        <5>1. tracks'[slotOf[n]] = NewTrack(KindOf(n), o.secs[n])
          BY <1>4, <4>1
        <5> QED BY <5>1 DEF NewTrack
      <4>3. g[slotOf[n]] = EnergyOf(KindOf(n), o.secs[n])
        BY <4>1, <4>2 DEF Energies
      <4> QED BY <3>2, <4>1, <4>3
    <3> QED BY <3>1, <3>2
  <2>3. \A n, k \in SecondaryNames : n # k => place[n] \cap place[k] = {}
    BY <1>4, <1>6
  <2> HIDE DEF place, g
  <2> QED BY <1>1, <1>5, <2>1, <2>2, <2>3, SecondaryCount
<1>10. Count(g, K) = IF o.next + o.leaks > 0 THEN EnergyOf(kind, o.saved) ELSE 0
  <2>1. CASE o.next + o.leaks > 0
    <3>1. ~o.killed
      BY <1>5, <2>1 DEF OnePlace
    <3>2. tracks'[s].kind = kind /\ tracks'[s].eKin = o.saved
      BY <1>4, <1>5, <3>1 DEF Track
    <3>3. g[s] = EnergyOf(kind, o.saved)
      BY <1>2, <3>2 DEF Energies
    <3> HIDE DEF g
    <3> QED BY <1>1, <1>2, <2>1, <3>3, QuantaOfOne
  <2>2. CASE ~(o.next + o.leaks > 0)
    BY <2>2, CountOfNone
  <2> QED BY <2>1, <2>2
<1>11. Live' = (R \cup K) \cup N
  <2>1. ASSUME NEW t \in Slots
        PROVE  t \in Live' <=> t \in (R \cup K) \cup N
    <3>1. t \in Live' <=> \/ where'[t]["active"] > 0 \/ where'[t]["next"] > 0
                          \/ where'[t]["leaked"] > 0
      BY DEF Live, In
    <3>2. CASE t = s
      BY <1>4, <1>5, <1>8, <3>1, <3>2
    <3>3. CASE t \in N
      <4>1. PICK n \in Born(o) : t = slotOf[n]
        BY <1>7, <3>3
      <4>2. where[t]["next"] \in Nat /\ where'[t]["next"] = where[t]["next"] + 1
        BY <1>3, <1>4, <4>1, PlacesType
      <4> QED BY <3>1, <3>3, <4>2
    <3>4. CASE t # s /\ t \notin N
      <4>1. where'[t] = where[t]
        BY <1>4, <1>7, <3>4
      <4>2. t \in Live' <=> t \in Live
        BY <3>1, <4>1 DEF Live, In
      <4> QED BY <3>4, <4>2
    <3> QED BY <3>2, <3>3, <3>4
  <2>2. Live' \subseteq Slots /\ (R \cup K) \cup N \subseteq Slots
    BY <1>2, <1>7 DEF Live, In
  <2> HIDE DEF R, K, N
  <2> QED BY <2>1, <2>2
<1>12. \A t \in R : g[t] = h[t]
  <2>1. ASSUME NEW t \in R
        PROVE  g[t] = h[t]
    <3>1. t \in Slots /\ t # s /\ t \notin N
      BY <1>2, <1>8
    <3>2. tracks'[t] = tracks[t]
      BY <1>4, <1>7, <3>1
    <3> QED BY <3>1, <3>2 DEF Energies
  <2> QED BY <2>1
<1>13. K \in SUBSET Slots /\ R \cap K = {} /\ (R \cup K) \cap N = {} /\ R \cap {s} = {}
  BY <1>2, <1>8
<1>14. \A f \in [Slots -> Nat], S \in SUBSET Slots, T \in SUBSET Slots :
         S \cap T = {} => Count(f, S \cup T) = Count(f, S) + Count(f, T)
  BY QuantaFinite, CountOfTwo
<1>15. \A f \in [Slots -> Nat], S \in SUBSET Slots : Count(f, S) \in Nat
  BY QuantaFinite
<1>16. R \cup K \in SUBSET Slots /\ {s} \in SUBSET Slots
  BY <1>2, <1>13
<1>17. /\ Count(h, Live) = Count(h, R) + h[s]
       /\ Count(g, Live') = Count(g, R) + Count(g, K) + Count(g, N)
       /\ Count(g, R) = Count(h, R) /\ Count(h, R) \in Nat /\ Count(g, N) \in Nat
       /\ h[s] \in Nat
  <2> HIDE DEF h, g, R, K, N
  <2>1. Count(h, {s}) = h[s] /\ h[s] \in Nat
    BY <1>1, <1>2, QuantaOfOne
  <2>2. Count(h, R \cup {s}) = Count(h, R) + Count(h, {s})
    BY <1>1, <1>2, <1>13, <1>14, <1>16
  <2>3. Count(g, (R \cup K) \cup N) = Count(g, R \cup K) + Count(g, N)
        /\ Count(g, R \cup K) = Count(g, R) + Count(g, K)
    BY <1>1, <1>2, <1>7, <1>13, <1>14, <1>16
  <2>4. Count(g, R) = Count(h, R)
    BY <1>12, CountAgrees
  <2>5. Count(g, N) \in Nat /\ Count(h, R) \in Nat
    BY <1>1, <1>2, <1>7, <1>15
  <2> QED BY <1>2, <1>11, <2>1, <2>2, <2>3, <2>4, <2>5
<1>18. h[s] = o.energyDeposit + Count(g, N) + o.dropped + o.escaped + Count(g, K)
  BY <1>5, <1>9, <1>10 DEF Balanced, Spent
<1>19. /\ injected' = injected /\ ledger'.deposited = ledger.deposited + o.energyDeposit
       /\ ledger'.returned = ledger.returned
       /\ ledger'.escaped = ledger.escaped + o.escaped
       /\ ledger'.dropped = ledger.dropped + o.dropped
       /\ injected \in Nat /\ ledger.deposited \in Nat /\ ledger.returned \in Nat
       /\ ledger.escaped \in Nat /\ ledger.dropped \in Nat
  <2>1. ledger' = [ledger EXCEPT !.deposited = @ + o.energyDeposit,
                     !.escaped = @ + o.escaped, !.dropped = @ + o.dropped]
        /\ injected' = injected
    BY DEF StepTo
  <2> QED BY <2>1 DEF Counts
<1>20. injected = ledger.deposited + ledger.returned + ledger.escaped
                    + ledger.dropped + Count(h, Live)
  BY AccountIsCount
<1>21. Count(g, K) \in Nat
  <2> HIDE DEF g, K
  <2> QED BY <1>1, <1>13, <1>15
<1> HIDE DEF h, g, N, K, R
<1>22. injected' = ledger'.deposited + ledger'.returned + ledger'.escaped
                     + ledger'.dropped + Count(g, Live')
  BY <1>5, <1>17, <1>18, <1>19, <1>20, <1>21
<1>23. (injected = ledger.deposited + ledger.returned + ledger.escaped
                    + ledger.dropped + Count(Energies, Live))'
  BY <1>22 DEF g
<1> QED BY <1>23, AccountIsCountNext

(* A leaked track takes its energy back to the host.                       *)
LEMMA ExtractAccount ==
  ASSUME IInv, IInv', Counts, EnergyIsAccountedFor, NEW s \in Slots, Extract(s)
  PROVE  EnergyIsAccountedFor'
<1> DEFINE h == Energies
<1>1. h \in [Slots -> Nat] /\ Live \in SUBSET Slots
  BY EnergiesType DEF Live, In
<1>2. /\ where[s] \in [Queues -> Nat] /\ where[s]["leaked"] > 0
      /\ Places(where[s]) \in {0, 1} /\ where \in [Slots -> [Queues -> Nat]]
  BY DEF Extract, In, IInv, OneDestination
<1>3. /\ where[s]["active"] = 0 /\ where[s]["next"] = 0 /\ where[s]["leaked"] = 1
      /\ where[s]["marked"] \in Nat
  BY <1>2, PlacesType DEF Places
<1>4. /\ where' = [where EXCEPT ![s] = [where[s] EXCEPT !["leaked"] = @ - 1,
                                                      !["marked"] = @ + 1]]
      /\ tracks' = tracks /\ injected' = injected
      /\ ledger' = [ledger EXCEPT !.returned = @ + h[s]]
  BY DEF Extract, IInv, Queues, Energies
<1>5. where'[s]["active"] = 0 /\ where'[s]["next"] = 0 /\ where'[s]["leaked"] = 0
  BY <1>2, <1>3, <1>4 DEF Queues
<1>6. Live' = Live \ {s} /\ s \in Live
  <2>1. ASSUME NEW t \in Slots
        PROVE  t \in Live' <=> t \in Live \ {s}
    <3>1. CASE t = s
      BY <1>5, <3>1 DEF Live, In
    <3>2. CASE t # s
      BY <1>2, <1>4, <3>2 DEF Live, In
    <3> QED BY <3>1, <3>2
  <2>2. Live' \subseteq Slots /\ Live \subseteq Slots
    BY DEF Live, In
  <2>3. s \in Live
    BY <1>3 DEF Live, In
  <2> QED BY <2>1, <2>2, <2>3
<1>7. Energies' = h
  BY <1>4 DEF Energies
<1> HIDE DEF h
<1>8. Count(h, Live) = h[s] + Count(h, Live \ {s}) /\ Count(h, Live \ {s}) \in Nat
      /\ h[s] \in Nat
  BY <1>1, <1>6, CountStep, QuantaFinite
<1>9. injected = ledger.deposited + ledger.returned + ledger.escaped
                   + ledger.dropped + Count(h, Live)
  BY AccountIsCount DEF h
<1>10. /\ ledger'.deposited = ledger.deposited /\ ledger'.returned = ledger.returned + h[s]
       /\ ledger'.escaped = ledger.escaped /\ ledger'.dropped = ledger.dropped
       /\ ledger.deposited \in Nat /\ ledger.returned \in Nat
       /\ ledger.escaped \in Nat /\ ledger.dropped \in Nat
  BY <1>4 DEF Counts
<1>11. injected' = ledger'.deposited + ledger'.returned + ledger'.escaped
                     + ledger'.dropped + Count(h, Live \ {s})
  BY <1>4, <1>8, <1>9, <1>10
<1>12. (injected = ledger.deposited + ledger.returned + ledger.escaped
                    + ledger.dropped + Count(Energies, Live))'
  BY <1>6, <1>7, <1>11
<1> QED BY <1>12, AccountIsCountNext

(* The swap of the queues takes no slot out of them.                       *)
LEMMA NextIterationAccount ==
  ASSUME IInv, IInv', Counts, EnergyIsAccountedFor, NextIteration
  PROVE  EnergyIsAccountedFor'
<1>1. /\ Energies \in [Slots -> Nat] /\ Live \in SUBSET Slots
      /\ where \in [Slots -> [Queues -> Nat]]
  BY EnergiesType DEF Live, In, IInv
<1>2. ASSUME NEW t \in Slots
      PROVE  /\ t \in Live' <=> t \in Live
             /\ t \in Live => tracks'[t] = tracks[t]
  <2>1. where[t]["active"] = 0
    BY <1>1, PlacesType DEF NextIteration, In
  <2>2. /\ tracks'[t] = IF where[t]["marked"] > 0 THEN Vacant ELSE tracks[t]
        /\ where'[t] = [where[t] EXCEPT !["active"] = where[t]["next"],
                                        !["next"] = 0, !["marked"] = 0]
    BY DEF NextIteration, In
  <2>3. /\ where[t] \in [Queues -> Nat] /\ Places(where[t]) \in {0, 1}
    BY <1>1 DEF IInv, OneDestination
  <2>4. /\ where'[t]["active"] = where[t]["next"] /\ where'[t]["next"] = 0
        /\ where'[t]["leaked"] = where[t]["leaked"]
    BY <2>2, <2>3 DEF Queues
  <2>5. t \in Live <=> where[t]["next"] > 0 \/ where[t]["leaked"] > 0
    BY <2>1 DEF Live, In
  <2>6. t \in Live' <=> t \in Live
    BY <2>4, <2>5 DEF Live, In
  <2>7. t \in Live => ~(where[t]["marked"] > 0)
    BY <2>1, <2>3, <2>5, PlacesType DEF Places
  <2> QED BY <2>2, <2>6, <2>7
<1>3. Live' = Live
  <2>1. Live' \subseteq Slots /\ Live \subseteq Slots
    BY DEF Live, In
  <2> QED BY <1>2, <2>1
<1>4. \A t \in Live : Energies[t] = Energies'[t]
  BY <1>1, <1>2 DEF Energies
<1>5. Count(Energies, Live) = Count(Energies', Live)
  BY <1>4, CountAgrees
<1>6. injected' = injected /\ ledger' = ledger
  BY DEF NextIteration
<1>7. (injected = ledger.deposited + ledger.returned + ledger.escaped
                   + ledger.dropped + Count(Energies, Live))'
  BY <1>3, <1>5, <1>6, AccountIsCount
<1> QED BY <1>7, AccountIsCountNext

(* The primary brings all the energy there is.                             *)
LEMMA InitAccount == Init => EnergyIsAccountedFor
<1> SUFFICES ASSUME Init PROVE EnergyIsAccountedFor
  OBVIOUS
<1>1. IInv
  BY InitInvariant
<1>2. PICK p \in Primaries :
        /\ tracks = [s \in Slots |-> IF s = 1 THEN NewTrack(p[1], p[2]) ELSE Vacant]
        /\ injected = EnergyOf(p[1], p[2])
  BY DEF Init
<1>3. 1 \in Slots /\ p[2] \in Nat
  BY TrackLifeAssumption DEF Slots
<1>4. Live = {1}
  BY <1>3 DEF Live, In, Init, Nowhere, Queues
<1>5. Energies[1] = EnergyOf(p[1], p[2])
  BY <1>2, <1>3 DEF Energies, NewTrack
<1>6. Count(Energies, Live) = EnergyOf(p[1], p[2])
  BY <1>1, <1>3, <1>4, <1>5, EnergiesType, QuantaOfOne
<1>7. EnergyOf(p[1], p[2]) \in Nat
  BY <1>3, EnergyType
<1>8. injected = ledger.deposited + ledger.returned + ledger.escaped
                   + ledger.dropped + Count(Energies, Live)
  BY <1>2, <1>6, <1>7 DEF Init
<1> QED BY <1>1, <1>8, AccountIsCount
-----------------------------------------------------------------------------
(* The other variables keep their types.                                   *)
LEMMA InitCounts == Init => Counts
<1> SUFFICES ASSUME Init PROVE Counts
  OBVIOUS
<1>1. injected \in Nat
  BY TrackLifeAssumption, KernelAssumption DEF Init, EnergyOf
<1> QED BY <1>1, TrackLifeAssumption DEF Init, Counts

LEMMA StepCounts ==
  ASSUME IInv, Counts, NEW s \in In("active"), NEW moved, NEW o, Turn(s, moved, o),
         NEW slotOf, StepTo(s, moved, o, slotOf)
  PROVE  Counts'
<1>1. o.energyDeposit \in Nat /\ o.escaped \in Nat /\ o.dropped \in Nat
  BY DEF Turn, AtEnd, Locals
<1>2. ledger' = [ledger EXCEPT !.deposited = @ + o.energyDeposit,
                   !.escaped = @ + o.escaped, !.dropped = @ + o.dropped]
  BY DEF StepTo
<1>3. ledger' \in [deposited : Nat, returned : Nat, escaped : Nat, dropped : Nat]
  <2>1. ledger \in [deposited : Nat, returned : Nat, escaped : Nat, dropped : Nat]
    BY DEF Counts
  <2>2. /\ ledger.deposited + o.energyDeposit \in Nat
        /\ ledger.escaped + o.escaped \in Nat /\ ledger.dropped + o.dropped \in Nat
    BY <1>1, <2>1
  <2>3. ledger' = [deposited |-> ledger.deposited + o.energyDeposit,
                   returned |-> ledger.returned,
                   escaped |-> ledger.escaped + o.escaped,
                   dropped |-> ledger.dropped + o.dropped]
    BY <1>2, <2>1
  <2> QED BY <2>1, <2>2, <2>3
<1>4. UNCHANGED <<injected, active, perEventInFlightPrevious, allowFinishOffEvent>>
  BY DEF StepTo
<1> QED BY <1>3, <1>4 DEF Counts

LEMMA ExtractCounts ==
  ASSUME IInv, Counts, NEW s \in Slots, Extract(s)
  PROVE  Counts'
<1>1. EnergyOf(tracks[s].kind, tracks[s].eKin) \in Nat
  <2>1. tracks[s].eKin \in Nat
    BY DEF IInv, Track, Vacant, Stuck, NewTrack
  <2> QED BY <2>1, KernelAssumption DEF EnergyOf
<1> QED BY <1>1 DEF Extract, Counts

LEMMA NextIterationCounts ==
  ASSUME Counts, NextIteration
  PROVE  Counts'
<1>1. Cardinality(In("next")) \in 0 .. NSlots
  <2>1. NSlots \in Nat /\ In("next") \subseteq 1 .. NSlots
    BY TrackLifeAssumption DEF In, Slots
  <2>2. IsFiniteSet(1 .. NSlots) /\ Cardinality(1 .. NSlots) = NSlots
    BY <2>1, FS_Interval
  <2>3. IsFiniteSet(In("next")) /\ Cardinality(In("next")) <= NSlots
    BY <2>1, <2>2, FS_Subset
  <2> QED BY <2>1, <2>3, FS_CardinalityType
<1> QED BY <1>1 DEF NextIteration, Counts
-----------------------------------------------------------------------------
(* The invariant that all steps preserve, of whatever build.               *)
Whole == IInv /\ Counts /\ EnergyIsAccountedFor

LEMMA StepWhole ==
  ASSUME Whole, NEW s \in In("active"), NEW moved, NEW o, Turn(s, moved, o),
         NEW slotOf \in SlotsFor(o), StepTo(s, moved, o, slotOf)
  PROVE  Whole'
<1>1. IInv /\ Counts /\ EnergyIsAccountedFor
  BY DEF Whole
<1>2. IInv'
  BY <1>1, StepInvariant
<1>3. Counts'
  BY <1>1, StepCounts
<1>4. EnergyIsAccountedFor'
  BY <1>1, <1>2, StepAccount
<1> QED BY <1>2, <1>3, <1>4 DEF Whole

(* The steps that are of no kernel.                                        *)
LEMMA OtherStepWhole ==
  ASSUME Whole, (\E s \in Slots : Extract(s)) \/ NextIteration \/ UNCHANGED vars
  PROVE  Whole'
<1>1. IInv /\ Counts /\ EnergyIsAccountedFor
  BY DEF Whole
<1>2. ASSUME NEW s \in Slots, Extract(s)
      PROVE  Whole'
  <2>1. IInv' /\ Counts'
    BY <1>1, <1>2, ExtractInvariant, ExtractCounts
  <2> QED BY <1>1, <1>2, <2>1, ExtractAccount DEF Whole
<1>3. CASE NextIteration
  <2>1. IInv' /\ Counts'
    BY <1>1, <1>3, NextIterationInvariant, NextIterationCounts
  <2> QED BY <1>1, <1>3, <2>1, NextIterationAccount DEF Whole
<1>4. CASE UNCHANGED vars
  <2>1. IInv' /\ Counts'
    BY <1>1, <1>4 DEF vars, IInv, OneDestination, Counts
  <2>2. UNCHANGED <<tracks, where, injected, ledger>>
    BY <1>4 DEF vars
  <2>3. Energies' = Energies /\ Live' = Live
    BY <2>2 DEF Energies, Live, In
  <2>4. (injected = ledger.deposited + ledger.returned + ledger.escaped
                     + ledger.dropped + Count(Energies, Live))'
    BY <1>1, <2>2, <2>3, AccountIsCount
  <2> QED BY <2>1, <2>4, AccountIsCountNext DEF Whole
<1> QED BY <1>2, <1>3, <1>4

(* In the current kernels.                                                 *)
LEMMA InductiveInvariant == Safety => []Whole
<1>1. Init => Whole
  BY InitInvariant, InitCounts, InitAccount DEF Whole
<1>2. ASSUME Whole, [Next]_vars
      PROVE  Whole'
  <2>1. ASSUME NEW s \in In("active"), NEW m \in Materials,
               NEW o \in StepOutcomes(s, m), NEW slotOf \in SlotsFor(o),
               Step(s, o, slotOf)
        PROVE  Whole'
    <3>1. Turn(s, Stepped(s), o)
      BY <1>2, StepOutcomesEnd DEF Whole
    <3>2. StepTo(s, Stepped(s), o, slotOf)
      BY <2>1 DEF Step
    <3> QED BY <1>2, <3>1, <3>2, StepWhole
  <2>2. CASE (\E s \in Slots : Extract(s)) \/ NextIteration \/ UNCHANGED vars
    BY <1>2, <2>2, OtherStepWhole
  <2>3. CASE Finished
    BY <2>2, <2>3 DEF Finished
  <2> QED BY <1>2, <2>1, <2>2, <2>3 DEF Next
<1> QED BY <1>1, <1>2, PTL DEF Safety

(* Whatever the materials, cuts and particles: no slot is ever enqueued    *)
(* twice, enqueued and freed, or lost while its track lives.               *)
THEOREM OneDestinationHolds == Safety => []OneDestination
<1>1. Whole => OneDestination
  BY DEF Whole, IInv
<1> QED BY <1>1, InductiveInvariant, PTL

(* Whatever a track does in a step: its deposit in a sensitive volume is   *)
(* in the hit the step records.                                            *)
THEOREM DepositsAreScoredHolds == Safety => []DepositsAreScored
<1>1. Whole => DepositsAreScored
  BY StepOutcomesEnd DEF Whole, DepositsAreScored, Scored
<1> QED BY <1>1, InductiveInvariant, PTL

(* The variables keep their types: step counters and looping counters do   *)
(* not overflow, and neither do the sizes of the queues.                   *)
THEOREM TypesHold == Safety => []TypeOK
<1>1. Whole => TypeOK
  BY DEF Whole, IInv, Counts, TypeOK, Track
<1> QED BY <1>1, InductiveInvariant, PTL
-----------------------------------------------------------------------------
(* A turn in any build.                                                    *)
LEMMA BuildOutcomesEnd ==
  ASSUME IInv, build \in Builds, NEW s \in In("active"), NEW m \in Materials,
         NEW o \in BuildOutcomes(s, m)
  PROVE  /\ Turn(s, Counted(s), o) /\ Scored(m, o)
         /\ build = "split" /\ o.dropped > 0 =>
              tracks[s].kind = "gamma" /\ Lossy(tracks[s].eKin, o)
<1>1. CASE build = "current"
  <2>1. o \in StepOutcomes(s, m) /\ Counted(s) = Stepped(s)
    BY <1>1 DEF BuildOutcomes, Counted
  <2>2. Turn(s, Stepped(s), o) /\ Scored(m, o)
    BY <2>1, StepOutcomesEnd
  <2> QED BY <1>1, <2>1, <2>2
<1>2. tracks[s] \in Track /\ s \in Slots
  BY ActiveTrack
<1>3. Steppable(tracks[s])
  BY <1>2, KernelAssumption DEF Steppable, Track
<1>4. ASSUME AtEnd(tracks[s].kind, EnergyOf(tracks[s].kind, tracks[s].eKin), o)
      PROVE  [tracks[s] EXCEPT !.eKin = o.saved, !.looperCounter = o.looperCounter] \in Track
  BY <1>2, <1>4 DEF AtEnd, Locals, Track
<1>5. CASE build = "superseded" /\ tracks[s].kind = "gamma"
  <2>1. Counted(s) = tracks[s] /\ o \in AsyncOutcomes(tracks[s], m)
    BY <1>5 DEF BuildOutcomes, Counted
  <2>2. AtEnd(tracks[s].kind, EnergyOf(tracks[s].kind, tracks[s].eKin), o) /\ Scored(m, o)
    BY <1>3, <2>1, SupersededStepEnds
  <2> QED BY <1>4, <1>5, <2>1, <2>2 DEF Turn
<1>6. CASE build = "superseded" /\ tracks[s].kind # "gamma"
  <2> DEFINE n == Stepped(s)
  <2>1. Counted(s) = n /\ o \in AsyncOutcomes(n, m)
    BY <1>6 DEF BuildOutcomes, Counted
  <2>2. /\ n.kind = tracks[s].kind /\ n.eKin = tracks[s].eKin
        /\ n.looperCounter = tracks[s].looperCounter
        /\ n.stepCounter \in 0 .. maxSteps
        /\ n \in [kind : Kinds, eKin : Nat, stepCounter : 0 .. maxSteps,
                 looperCounter : 0 .. Word - 1]
    BY <1>2, KernelAssumption DEF Stepped, Track
  <2> HIDE DEF n
  <2>3. Steppable(n)
    BY <1>2, <2>2, KernelAssumption DEF Steppable, Track
  <2>4. /\ AtEnd(n.kind, EnergyOf(n.kind, n.eKin), o) /\ Scored(m, o)
        /\ n.kind # "gamma" /\ n.stepCounter >= maxSteps => o.killed
    BY <2>1, <2>3, SupersededStepEnds
  <2>5. ASSUME ~o.killed
        PROVE  [n EXCEPT !.eKin = o.saved, !.looperCounter = o.looperCounter] \in Track
    <3>1. n.stepCounter \in 0 .. maxSteps - 1
      BY <1>6, <2>2, <2>4, <2>5, KernelAssumption
    <3>2. o.saved \in Nat /\ o.looperCounter \in 0 .. Word - 1
      BY <2>4 DEF AtEnd, Locals
    <3> QED BY <2>2, <3>1, <3>2 DEF Track
  <2> QED BY <1>6, <2>1, <2>2, <2>4, <2>5 DEF Turn
<1>7. CASE build = "split"
  <2>1. Counted(s) = tracks[s] /\ o \in SplitOutcomes(tracks[s], m)
    BY <1>7 DEF BuildOutcomes, Counted
  <2>2. /\ AtEnd(tracks[s].kind, EnergyOf(tracks[s].kind, tracks[s].eKin), o)
        /\ Scored(m, o)
        /\ o.dropped > 0 => tracks[s].kind = "gamma" /\ Lossy(tracks[s].eKin, o)
    BY <1>3, <2>1, SplitStepEnds
  <2> QED BY <1>4, <2>1, <2>2 DEF Turn
<1> QED BY <1>1, <1>5, <1>6, <1>7 DEF Builds

KnownBuild == build \in Builds

LEMMA BuildInvariant == BuildSpec => [](Whole /\ KnownBuild)
<1>1. BuildInit => Whole /\ KnownBuild
  BY InitInvariant, InitCounts, InitAccount DEF BuildInit, Whole, KnownBuild
<1>2. ASSUME Whole, KnownBuild, [BuildNext]_BuildVars
      PROVE  Whole' /\ KnownBuild'
  <2>1. ASSUME NEW s \in In("active"), NEW m \in Materials,
               NEW o \in BuildOutcomes(s, m), NEW slotOf \in SlotsFor(o),
               BuildStep(s, o, slotOf)
        PROVE  Whole' /\ KnownBuild'
    <3>1. Turn(s, Counted(s), o)
      BY <1>2, BuildOutcomesEnd DEF Whole, KnownBuild
    <3>2. StepTo(s, Counted(s), o, slotOf) /\ build' = build
      BY <2>1 DEF BuildStep
    <3> QED BY <1>2, <3>1, <3>2, StepWhole DEF KnownBuild
  <2>2. CASE ((\E s \in Slots : Extract(s)) \/ NextIteration \/ UNCHANGED vars)
               /\ UNCHANGED build
    BY <1>2, <2>2, OtherStepWhole DEF KnownBuild
  <2>3. CASE Finished /\ UNCHANGED build
    BY <2>2, <2>3 DEF Finished
  <2>4. CASE UNCHANGED BuildVars
    BY <2>2, <2>4 DEF BuildVars
  <2>5. CASE BuildNext
    BY <2>1, <2>2, <2>3, <2>5 DEF BuildNext
  <2> QED BY <1>2, <2>4, <2>5
<1> QED BY <1>1, <1>2, PTL DEF BuildSpec

(* In every build, for every shower: all the energy that came is in a      *)
(* track, was deposited or returned, left the world, or was dropped.       *)
THEOREM EnergyIsAccountedForHolds == BuildSpec => []EnergyIsAccountedFor
<1>1. Whole => EnergyIsAccountedFor
  BY DEF Whole
<1> QED BY <1>1, BuildInvariant, PTL

(* In every build a slot is in one place at a time, and the types hold.    *)
THEOREM EveryBuildHasOneDestination == BuildSpec => [](OneDestination /\ TypeOK)
<1>1. Whole => OneDestination /\ TypeOK
  BY DEF Whole, IInv, Counts, TypeOK, Track
<1> QED BY <1>1, BuildInvariant, PTL

(* In the superseded and the split kernels, too, what a step deposits in a *)
(* sensitive volume is in the hit it leaves.                               *)
THEOREM OtherBuildsScoreDepositsHolds == BuildSpec => []OtherBuildsScoreDeposits
<1>1. Whole /\ KnownBuild => OtherBuildsScoreDeposits
  BY BuildOutcomesEnd DEF Whole, KnownBuild, OtherBuildsScoreDeposits, Scored
<1> QED BY <1>1, BuildInvariant, PTL

(* The split kernels lose energy in no other way than the two that         *)
(* SplitLosses names, whatever the shower, its energies and the thresholds.*)
THEOREM SplitLossesHolds == BuildSpec => []SplitLosses
<1>1. Whole /\ KnownBuild => SplitLosses
  BY BuildOutcomesEnd DEF Whole, KnownBuild, SplitLosses, Lossy
<1> QED BY <1>1, BuildInvariant, PTL
=============================================================================
