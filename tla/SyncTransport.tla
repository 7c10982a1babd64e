---------------------------- MODULE SyncTransport ----------------------------
(* The synchronous transport (core/AdePTTransport) of one worker: tracks *)
(* that Geant4 adds, showers that bring them and their secondaries through *)
(* the track managers of the device, leaks that come back, hits that are   *)
(* processed on the way.  A track is a number; what its steps can do to    *)
(* queues, slots and hits comes from the kernels (StepEffects).            *)
EXTENDS TrackManager, HostScoring, FiniteSets, FiniteSetsExt, SequencesExt

CONSTANTS
  Regions,            (* of the geometry                                   *)
  StepEffects,        (* kind -> what a step can do: a set of records      *)
  fBufferThreshold,   (* tracks that trigger a shower                      *)
  LoopLimit,          (* 200 in the code: iterations with equal counts     *)
  Garbage,            (* what the hit counters may hold at the start       *)
  MaxTracks,          (* bound: tracks of an event                         *)
  MaxHits             (* bound: hits of a shower                           *)

Kinds == {"electron", "positron", "gamma"}
Tracks == 1 .. MaxTracks

(* A step leaves its track in one place at most (the kernels' part of it   *)
(* is TrackLife's OneDestination).                                         *)
ASSUME SyncTransportAssumption ==
  /\ Regions # {} /\ MaxTracks \in Nat /\ fBufferCapacity \in Nat \ {0}
  /\ Garbage \subseteq [fNextFreeHit : Nat, fUsedSlots : Nat]
  /\ \A k \in Kinds : \A effect \in StepEffects[k] :
       /\ effect \in [next : BOOLEAN, leak : BOOLEAN, hits : 0 .. 2, born : Seq(Kinds)]
       /\ ~(effect.next /\ effect.leak)

VARIABLES
  fGPUregion,         (* regions whose volumes the device accepts          *)
  kind,               (* track -> its kind, "unborn" before its birth      *)
  mgr,                (* kind -> its track manager on the device           *)
  todo,               (* kind -> active slots whose step is still to come  *)
  leakedTracks,       (* kind -> its leak queue on the device              *)
  toDevice,           (* fBuffer.toDevice                                  *)
  bufferEvent, startTrack,             (* fBuffer.eventId, startTrack      *)
  scoring,            (* the hits                                          *)
  loop,               (* loopingNo and the previous counts                 *)
  spc,                (* where the shower is                               *)
  stack,              (* tracks that Geant4 has to track                   *)
  recorded, processed,(* history: hits recorded, and processed on the host *)
  flushedLast,        (* history: the last iteration flushed the hits      *)
  trusted,            (* history: the hit counters started from 0          *)
  seeds, batches,     (* history: seeds of the event, sizes of its batches *)
  killed              (* history: tracks given up by looping detection     *)

deviceVars == <<mgr, todo, leakedTracks>>
bufferVars == <<toDevice, bufferEvent, startTrack>>
hitVars == <<scoring, recorded, processed, flushedLast, trusted>>
seedVars == <<seeds, batches>>
syncVars == <<fGPUregion, kind, deviceVars, bufferVars, hitVars, loop, spc, stack, seedVars, killed>>

NoCounts == [k \in Kinds |-> -1]
NoLoop == [no |-> 0, previous |-> NoCounts]

SyncInit ==
  /\ kind = [t \in Tracks |-> "unborn"]
  /\ mgr = [k \in Kinds |-> NewManager]
  /\ todo = [k \in Kinds |-> <<>>] /\ leakedTracks = [k \in Kinds |-> <<>>]
  /\ toDevice = <<>> /\ bufferEvent = -1 /\ startTrack = 0
  /\ \E g \in Garbage :
       /\ scoring = NewScoring(g.fNextFreeHit, g.fUsedSlots)
       /\ trusted = (g.fNextFreeHit = 0 /\ g.fUsedSlots = 0)
  /\ loop = NoLoop /\ spc = "idle" /\ stack = <<>>
  /\ recorded = 0 /\ processed = <<>> /\ flushedLast = FALSE
  /\ seeds = {} /\ batches = {} /\ killed = {}

Unborn == {t \in Tracks : kind[t] = "unborn"}
Given(k) == {t \in Tracks : kind[t] = k}

-----------------------------------------------------------------------------
(* AddTrack: a track for the device, and a shower when there are enough.   *)
AddTrack(track) ==
  /\ toDevice' = Append(toDevice, track)
  /\ spc' = IF Len(toDevice') >= fBufferThreshold THEN "shower" ELSE "idle"
  /\ UNCHANGED <<bufferEvent, startTrack>>

(* Tracks, one after the other, in the managers of their kinds.            *)
WithTrack(managers, k, track) == [managers EXCEPT ![k] = NextTrack(@, track)]
NewTracks(managers, tracks, kinds) ==
  LET filled[n \in 0 .. Len(tracks)] ==
        IF n = 0 THEN managers ELSE WithTrack(filled[n - 1], kinds[n], tracks[n])
  IN filled[Len(tracks)]

(* Shower up to the kernels: the seeds' numbers, and InitTracks.           *)
KindsOf(tracks) == [i \in DOMAIN tracks |-> kind[tracks[i]]]
InitTracks(managers, tracks) == NewTracks(managers, tracks, KindsOf(tracks))

NumberOf(k, tracks) == Cardinality({i \in DOMAIN tracks : kind[tracks[i]] = k})
NoSlotFor(k, n) == mgr[k].fNextFree - mgr[k].fStart + n > fCapacity

NextSeedsMutant(event) ==
  IF event # bufferEvent THEN 0 ELSE startTrack
NextSeeds(event) == IF event # bufferEvent THEN 0 ELSE startTrack + Len(toDevice)

Shower(event) ==
  /\ spc = "shower" /\ toDevice # <<>>
  /\ bufferEvent' = event /\ startTrack' = NextSeeds(event)
  /\ seeds' = seeds \cup {[seed |-> startTrack' + i - 1, track |-> toDevice[i]] :
                            i \in DOMAIN toDevice}
  /\ batches' = batches \cup {Len(toDevice)}
  /\ IF \E k \in Kinds : NoSlotFor(k, NumberOf(k, toDevice))
       THEN spc' = "failed" /\ UNCHANGED mgr
       ELSE spc' = "transport" /\ mgr' = InitTracks(mgr, toDevice)
  /\ UNCHANGED <<fGPUregion, kind, todo, leakedTracks, toDevice, hitVars, loop, stack, killed>>

(* Nothing to do: Shower returns at once.                                  *)
EmptyShower ==
  /\ spc = "shower" /\ toDevice = <<>>
  /\ spc' = "idle"
  /\ UNCHANGED <<fGPUregion, kind, deviceVars, bufferVars, hitVars, loop, stack, seedVars, killed>>

-----------------------------------------------------------------------------
(* One track's step in the kernel of its kind.                             *)
RecordHits(n) ==
  LET first == RecordHit(scoring, recorded + 1)
  IN CASE n = 0 -> scoring [] n = 1 -> first [] n = 2 -> RecordHit(first, recorded + 2)
NoSlotForHits(n) == n > 0 /\ NoSlotForHit([scoring EXCEPT !.fNextFreeHit = @ + n - 1])

BornOfKind(effect, k) == Cardinality({i \in DOMAIN effect.born : effect.born[i] = k})

Step(k, i, effect) ==
  LET slot == todo[k][i]
      track == mgr[k].fBuffer[slot]
      births == effect.born
      first == Cardinality(Tracks \ Unborn)
      survived == IF effect.next THEN [mgr EXCEPT ![k].fNextTracks = Append(@, slot)] ELSE mgr
      born == NewTracks(survived, [j \in DOMAIN births |-> first + j], births)
  IN /\ spc = "transport"
     /\ Len(births) <= Cardinality(Unborn)
     /\ recorded + effect.hits <= MaxHits
     /\ effect.leak => fGPUregion # Regions
     /\ todo' = [todo EXCEPT ![k] = RemoveAt(@, i)]
     /\ kind' = [t \in Tracks |->
          IF t \in first + 1 .. first + Len(births) THEN births[t - first]
          ELSE IF t = track /\ ~effect.next /\ ~effect.leak THEN "ended" ELSE kind[t]]
     /\ leakedTracks' = IF effect.leak THEN [leakedTracks EXCEPT ![k] = Append(@, track)]
                        ELSE leakedTracks
     /\ IF \/ \E l \in Kinds : NoSlotFor(l, BornOfKind(effect, l))
           \/ NoSlotForHits(effect.hits)
          THEN spc' = "failed" /\ UNCHANGED <<mgr, scoring, recorded>>
          ELSE /\ mgr' = born
               /\ scoring' = RecordHits(effect.hits) /\ recorded' = recorded + effect.hits
               /\ UNCHANGED spc
     /\ UNCHANGED <<fGPUregion, bufferVars, processed, flushedLast, trusted, loop, stack, seedVars, killed>>

-----------------------------------------------------------------------------
(* The end of an iteration: FinishIteration, SwapAndCompact, the flush of  *)
(* the hits, and whether to go on.                                         *)
CountOf(managers) == [k \in Kinds |-> managers[k].fInFlight]
InFlight(counts) == MapThenSumSet(LAMBDA k : counts[k], Kinds)

DetectLoopingMutant(counts) ==
  IF counts = loop.previous THEN loop ELSE [no |-> 0, previous |-> counts]
DetectLooping(counts) ==
  IF counts = loop.previous THEN [loop EXCEPT !.no = @ + 1]
  ELSE [no |-> 0, previous |-> counts]

FinishIteration ==
  LET refreshed == [k \in Kinds |-> refresh_stats(mgr[k])]
      counted == refresh_hit_stats(scoring)
      copied == CopyHitsToHost(counted)
      counts == CountOf(refreshed)
  IN /\ spc = "transport" /\ \A k \in Kinds : todo[k] = <<>>
     /\ mgr' = [k \in Kinds |-> SwapAndCompact(refreshed[k])]
     /\ IF NeedsFlush(counted)
          THEN /\ scoring' = copied /\ processed' = processed \o HitsOnHost(copied)
               /\ flushedLast' = TRUE
          ELSE scoring' = counted /\ flushedLast' = FALSE /\ UNCHANGED processed
     /\ loop' = DetectLooping(counts)
     /\ IF InFlight(counts) > 0 /\ loop'.no < LoopLimit
          THEN todo' = [k \in Kinds |-> mgr'[k].fActiveTracks] /\ spc' = "transport"
          ELSE spc' = "finish" /\ UNCHANGED todo
     /\ UNCHANGED <<fGPUregion, kind, leakedTracks, bufferVars, recorded, trusted, stack,
                    seedVars, killed>>

(* SwapAndCompact asserts that the used part does not fill the ring: it    *)
(* stops a build with assertions, and goes on in others (by default).      *)
FullRingStops ==
  /\ spc = "transport" /\ \A k \in Kinds : todo[k] = <<>>
  /\ \E k \in Kinds : GetNused(refresh_stats(mgr[k])) >= fCapacity
  /\ spc' = "failed"
  /\ UNCHANGED <<fGPUregion, kind, deviceVars, bufferVars, hitVars, loop, stack, seedVars, killed>>

(* The end of a shower: leaks are copied and sorted by energy (any order), *)
(* what still flies is given up, the last hits are processed, and the      *)
(* leaks go to Geant4's stack.                                             *)
Leaked == UNION {Range(leakedTracks[k]) : k \in Kinds}
StillFlying(k) == {mgr[k].fBuffer[mgr[k].fActiveTracks[i]] : i \in DOMAIN mgr[k].fActiveTracks}

ClearManagersMutant == [k \in Kinds |-> mgr[k]]
ClearManagers == [k \in Kinds |-> IF mgr[k].fInFlight = 0 THEN mgr[k] ELSE clear(mgr[k])]

ClearLeakedQueuesMutant == leakedTracks
ClearLeakedQueues == [k \in Kinds |-> <<>>]

EndOfTransport ==
  LET copied == CopyHitsToHost(scoring)
  IN /\ processed' = processed \o HitsOnHost(copied)
     /\ scoring' = ResetBufferStats(copied)

EndShower ==
  /\ spc = "finish"
  /\ \E order \in SetToSeqs(Leaked) : stack' = stack \o order
  /\ killed' = killed \cup UNION {StillFlying(k) : k \in Kinds}
  /\ kind' = [t \in Tracks |-> IF t \in killed' THEN "ended" ELSE kind[t]]
  /\ mgr' = ClearManagers
  /\ leakedTracks' = ClearLeakedQueues
  /\ EndOfTransport
  /\ toDevice' = <<>> /\ spc' = "answered"
  /\ UNCHANGED <<fGPUregion, todo, bufferEvent, startTrack, recorded, flushedLast, trusted,
                 loop, seedVars>>

(* Shower returns to its caller, and its local variables are gone.         *)
ShowerReturns ==
  /\ spc = "answered" /\ spc' = "idle" /\ trusted' = TRUE
  /\ recorded' = 0 /\ processed' = <<>> /\ flushedLast' = FALSE /\ loop' = NoLoop
  /\ UNCHANGED <<fGPUregion, kind, deviceVars, bufferVars, scoring, stack, seedVars, killed>>

Transport(event) ==
  \/ Shower(event) \/ EmptyShower
  \/ \E k \in Kinds : \E i \in DOMAIN todo[k], effect \in StepEffects[k] : Step(k, i, effect)
  \/ FinishIteration \/ FullRingStops \/ EndShower \/ ShowerReturns
=============================================================================
