--------------------------- MODULE TrackingManager ---------------------------
(* A Geant4 worker in the synchronous build: AdePTTrackingManager.cc sends *)
(* the tracks of an event to the device (SyncTransport) or to the CPU      *)
(* (G4HepEmTrackingManagerSpecialized.cc), AdePTGeant4Integration.cpp      *)
(* gives leaked tracks back.  Geant4's event loop and G4HepEm's stepping   *)
(* are external.                                                           *)
EXTENDS SyncTransport, Configuration

CONSTANTS
  Macros,             (* sequences of commands before the run              *)
  MaxEvents,          (* bound: events of the run, numbered from 0         *)
  MaxPrimaries,       (* bound: primaries of an event                      *)
  MaxAdds             (* bound: tracks handed to the device in an event    *)

ASSUME TrackingManagerAssumption ==
  MaxEvents \in Nat /\ MaxPrimaries \in Nat /\ MaxPrimaries <= MaxTracks

VARIABLES
  trackInAllRegions,  (* of the configuration                              *)
  fCPURegionNames,    (* of the configuration: regions it removes          *)
  fSpeedOfLight,      (* of the tracking manager: it only deletes tracks   *)
  fGPURegions, hepEmInAllRegions,    (* of the tracking managers           *)
  event, tpc,         (* Geant4's event, and where the worker is in it     *)
  aTrack,             (* the track in ProcessTrack, 0 for none             *)
  region, status,     (* of the tracks on the CPU                          *)
  secondaries,        (* of aTrack, not stacked yet                        *)
  fFinishEventOnCPU   (* event to be finished on the CPU, or -1            *)

configuration ==
  <<trackInAllRegions, fCPURegionNames, fSpeedOfLight, fGPURegions, hepEmInAllRegions>>
cpuVars == <<event, tpc, aTrack, region, status, secondaries, fFinishEventOnCPU>>
vars == <<syncVars, configuration, cpuVars>>

(* InitVolAuxData: the regions marked in the volumes' data on the device.  *)
InitVolAuxData(inAll, gpuRegions) == IF inAll THEN Regions ELSE gpuRegions

(* A region that is not there, or is listed and removed, ends the program. *)
AcceptedMutant(c, listed, removed) ==
  (IF c.TrackInAllRegions THEN removed ELSE listed) \subseteq Regions
Accepted(c, listed, removed) ==
  /\ (IF c.TrackInAllRegions THEN removed ELSE listed) \subseteq Regions
  /\ c.TrackInAllRegions \/ listed \cap removed = {}

(* InitializeAdePT: GPU regions that are listed, all but the removed ones, *)
(* or all.                                                                 *)
InitializeAdePT(c) ==
  LET listed == Range(c.GPURegionNames)  removed == Range(c.CPURegionNames) IN
  /\ Accepted(c, listed, removed)
  /\ trackInAllRegions = c.TrackInAllRegions /\ fCPURegionNames = removed
  /\ fSpeedOfLight = c.SpeedOfLight
  /\ hepEmInAllRegions = (c.TrackInAllRegions /\ removed = {})
  /\ fGPURegions = IF ~c.TrackInAllRegions THEN listed
                   ELSE IF removed = {} THEN {} ELSE Regions \ removed
  /\ fGPUregion = InitVolAuxData(trackInAllRegions, listed)

Init ==
  /\ SyncInit /\ \E macro \in Macros : InitializeAdePT(Configure(macro))
  /\ event = -1 /\ tpc = "over" /\ aTrack = 0 /\ secondaries = <<>>
  /\ region = [t \in Tracks |-> CHOOSE r \in Regions : TRUE]
  /\ status = [t \in Tracks |-> "fAlive"]
  /\ fFinishEventOnCPU = -1

-----------------------------------------------------------------------------
(* Geant4 starts an event with primaries on its stack.                     *)
NewEvent ==
  /\ tpc = "over" /\ spc = "idle" /\ event < MaxEvents - 1
  /\ event' = event + 1 /\ tpc' = "event"
  /\ \E n \in 1 .. MaxPrimaries :
       /\ stack' = [i \in 1 .. n |-> i]
       /\ \E names \in [1 .. n -> Kinds] :
            kind' = [t \in Tracks |-> IF t <= n THEN names[t] ELSE "unborn"]
       /\ \E places \in [1 .. n -> Regions] :
            region' = [t \in Tracks |-> IF t <= n THEN places[t] ELSE CHOOSE r \in Regions : TRUE]
  /\ status' = [t \in Tracks |-> "fAlive"]
  /\ seeds' = {} /\ batches' = {} /\ killed' = {}
  /\ UNCHANGED <<fGPUregion, deviceVars, bufferVars, hitVars, loop, spc, configuration, aTrack,
                 secondaries, fFinishEventOnCPU>>

(* HandOverOneTrack and the head of ProcessTrack: the mark of a new event  *)
(* is reset, and a track that stopped but lives sets it.                   *)
Mark(track) ==
  LET mark == IF fFinishEventOnCPU >= 0 /\ fFinishEventOnCPU # event THEN -1
              ELSE fFinishEventOnCPU
  IN IF mark < 0 /\ status[track] = "fStopButAlive" THEN event ELSE mark

HandOverOneTrack ==
  /\ tpc = "event" /\ spc = "idle" /\ aTrack = 0 /\ stack # <<>> /\ ~fSpeedOfLight
  /\ aTrack' = Last(stack) /\ stack' = Front(stack)
  /\ IF fGPURegions = {} /\ ~trackInAllRegions      (* straight to G4HepEm *)
       THEN tpc' = "stepping" /\ UNCHANGED fFinishEventOnCPU
       ELSE tpc' = "processing" /\ fFinishEventOnCPU' = Mark(Last(stack))
  /\ UNCHANGED <<fGPUregion, kind, deviceVars, bufferVars, hitVars, loop, spc, seedVars, killed,
                 configuration, event, region, status, secondaries>>

DeleteTrack ==
  /\ tpc = "event" /\ spc = "idle" /\ aTrack = 0 /\ stack # <<>> /\ fSpeedOfLight
  /\ stack' = Front(stack) /\ kind' = [kind EXCEPT ![Last(stack)] = "ended"]
  /\ UNCHANGED <<fGPUregion, deviceVars, bufferVars, hitVars, loop, spc, seedVars, killed,
                 configuration, cpuVars>>

(* The loop of ProcessTrack.                                               *)
isGPURegion == trackInAllRegions \/ region[aTrack] \in fGPURegions

ProcessTrackOnGPU ==
  /\ tpc = "processing" /\ isGPURegion /\ fFinishEventOnCPU < 0
  /\ AddTrack(aTrack)
  /\ aTrack' = 0 /\ tpc' = "event"
  /\ UNCHANGED <<fGPUregion, kind, deviceVars, hitVars, loop, stack, seedVars, killed,
                 configuration, event, region, status, secondaries, fFinishEventOnCPU>>

ProcessTrackOnCPU ==
  /\ tpc = "processing" /\ ~(isGPURegion /\ fFinishEventOnCPU < 0)
  /\ tpc' = "stepping"
  /\ UNCHANGED <<syncVars, configuration, event, aTrack, region, status, secondaries,
                 fFinishEventOnCPU>>

(* CheckEarlyTrackingExit, which G4HepEm calls after a step.               *)
CheckEarlyTrackingExit(r) ==
  ~((~hepEmInAllRegions /\ r \notin fGPURegions) \/ fFinishEventOnCPU > 0)

(* A step of G4HepEm: into any region, with or without a secondary, which  *)
(* is at rest if it is a positron without kinetic energy.                  *)
Added == Cardinality(seeds) + Len(toDevice)
HepEmStep(r, name, rest) ==
  /\ tpc = "stepping"
  /\ r \in Regions /\ (r # region[aTrack] => Added < MaxAdds)
  /\ region' = [region EXCEPT ![aTrack] = r]
  /\ IF name = "none"
       THEN UNCHANGED <<kind, status, secondaries>>
       ELSE /\ Unborn # {} /\ (rest => name = "positron")
            /\ kind' = [kind EXCEPT ![Min(Unborn)] = name]
            /\ status' = [status EXCEPT ![Min(Unborn)] = IF rest THEN "fStopButAlive" ELSE "fAlive"]
            /\ secondaries' = Append(secondaries, Min(Unborn))
  /\ tpc' = IF CheckEarlyTrackingExit(r) THEN "exiting" ELSE "stepping"
  /\ UNCHANGED <<fGPUregion, deviceVars, bufferVars, hitVars, loop, spc, stack, seedVars, killed,
                 configuration, event, aTrack, fFinishEventOnCPU>>

(* Secondaries are where the track is.                                     *)
StackTracks ==
  /\ stack' = stack \o secondaries /\ secondaries' = <<>>
  /\ region' = [t \in Tracks |-> IF t \in Range(secondaries) THEN region[aTrack] ELSE region[t]]

(* The track goes back to the loop of ProcessTrack.                        *)
EarlyExit ==
  /\ tpc = "exiting" /\ StackTracks /\ tpc' = "processing"
  /\ UNCHANGED <<fGPUregion, kind, deviceVars, bufferVars, hitVars, loop, spc, seedVars, killed,
                 configuration, event, aTrack, status, fFinishEventOnCPU>>

(* G4HepEm finishes the track.                                             *)
FinishTrack ==
  /\ tpc = "stepping" /\ StackTracks
  /\ kind' = [kind EXCEPT ![aTrack] = "ended"]
  /\ aTrack' = 0 /\ tpc' = "event"
  /\ UNCHANGED <<fGPUregion, deviceVars, bufferVars, hitVars, loop, spc, seedVars, killed,
                 configuration, event, status, fFinishEventOnCPU>>

(* The stack is empty: FlushEvent, and on with what comes back.            *)
FlushEvent ==
  /\ tpc = "event" /\ spc = "idle" /\ aTrack = 0 /\ stack = <<>>
  /\ spc' = "shower" /\ tpc' = "flushing"
  /\ UNCHANGED <<fGPUregion, kind, deviceVars, bufferVars, hitVars, loop, stack, seedVars, killed,
                 configuration, event, aTrack, region, status, secondaries, fFinishEventOnCPU>>

EventFlushed ==
  /\ tpc = "flushing" /\ spc = "idle"
  /\ tpc' = IF stack = <<>> THEN "over" ELSE "event"
  /\ UNCHANGED <<syncVars, configuration, event, aTrack, region, status, secondaries,
                 fFinishEventOnCPU>>

(* ReturnTrack: a leaked track is alive, in a region it leaked to.         *)
ReturnTracks ==
  /\ \E places \in [Leaked -> Regions \ fGPUregion] :
       region' = [t \in Tracks |-> IF t \in Leaked THEN places[t] ELSE region[t]]
  /\ status' = [t \in Tracks |-> IF t \in Leaked THEN "fAlive" ELSE status[t]]

OnDevice ==
  /\ Transport(event)
  /\ IF spc = "finish" THEN ReturnTracks ELSE UNCHANGED <<region, status>>
  /\ UNCHANGED <<configuration, event, tpc, aTrack, secondaries, fFinishEventOnCPU>>

(* The run is over, or a full container stopped the program.               *)
Over ==
  /\ spc = "failed" \/ (tpc = "over" /\ event = MaxEvents - 1)
  /\ UNCHANGED vars

Next ==
  \/ NewEvent \/ HandOverOneTrack \/ DeleteTrack \/ ProcessTrackOnGPU \/ ProcessTrackOnCPU
  \/ \E r \in Regions, name \in Kinds \cup {"none"}, rest \in BOOLEAN : HepEmStep(r, name, rest)
  \/ EarlyExit \/ FinishTrack \/ FlushEvent \/ EventFlushed
  \/ OnDevice \/ Over

(* A worker goes on as long as it can.                                     *)
Spec == Init /\ [][Next]_vars /\ WF_vars(Next)

-----------------------------------------------------------------------------
(* Where the tracks are: with Geant4, in the buffer for the device, in the *)
(* managers' active and next slots, or in a leak queue.                    *)
SlotsInUse(k) ==
  CASE spc = "transport" -> todo[k] \o mgr[k].fNextTracks
    [] spc = "finish" -> mgr[k].fActiveTracks
    [] OTHER -> <<>>
OnDeviceOfKind(k) ==
  [i \in DOMAIN SlotsInUse(k) |-> mgr[k].fBuffer[SlotsInUse(k)[i]]] \o leakedTracks[k]
Everywhere ==
  stack \o secondaries \o (IF aTrack = 0 THEN <<>> ELSE <<aTrack>>)
    \o (IF spc \in {"idle", "shower"} THEN toDevice ELSE <<>>)
    \o OnDeviceOfKind("electron") \o OnDeviceOfKind("positron") \o OnDeviceOfKind("gamma")

(* A track that lives is in exactly one place, through the compaction of   *)
(* the ring under the other tracks, the exchange of the queues, leaks and  *)
(* early exits: nothing is transported twice or forgotten.                 *)
EveryTrackIsInOnePlace ==
  spc # "failed" =>
    /\ IsInjective(Everywhere)
    /\ Range(Everywhere) = {t \in Tracks : kind[t] \in Kinds}

(* When the worker goes on to the next event nothing of this one is left   *)
(* on the device, not even what looping detection gave up.                 *)
EventsEndClean ==
  tpc = "over" =>
    /\ \A t \in Tracks : kind[t] \in {"unborn", "ended"}
    /\ toDevice = <<>> /\ stack = <<>>
    /\ \A k \in Kinds : /\ leakedTracks[k] = <<>>
                        /\ mgr[k].fInFlight = 0 /\ mgr[k].fNextFree = mgr[k].fStart

(* The hits of a shower reach Geant4 in the order of the device's ring,    *)
(* every one, once they were counted from 0: if the last iteration flushed *)
(* them too, EndOfTransport copies with the statistics of that iteration   *)
(* and processes once more what it brought.                                *)
HitsAreProcessed ==
  (spc = "answered" /\ trusted) =>
    /\ SubSeq(processed, 1, recorded) = [i \in 1 .. recorded |-> i]
    /\ ~flushedLast => Len(processed) = recorded

(* The seeds of the batches of an event are apart as long as the batches   *)
(* have the same size: startTrack advances by the size of the new batch,   *)
(* not of the one before.                                                  *)
SeedsAreDistinct ==
  Cardinality(batches) <= 1 =>
    \A a, b \in seeds : a.seed = b.seed => a.track = b.track

(* The assertion of InitTracks, that a track added is in a GPU region for  *)
(* the volumes' data on the device too, and that where GPU regions are     *)
(* listed none that was removed gets there: the tracking manager's regions *)
(* and InitVolAuxData's come from different parts of the configuration.    *)
Waiting == IF spc \in {"idle", "shower"} THEN Range(toDevice) ELSE {}
AddedTracksAreInGPURegions ==
  \A t \in Waiting :
    /\ region[t] \in fGPUregion
    /\ region[t] \in fCPURegionNames => trackInAllRegions

(* "Track everywhere except explicitly listed CPU regions", as a comment   *)
(* of InitializeAdePT has it: no track waits for the device in a region    *)
(* that the configuration removed.  ProcessTrack does not look at the      *)
(* regions when it tracks everywhere.                                      *)
RemovedRegionsStayOnCPU == \A t \in Waiting : region[t] \notin fCPURegionNames

(* Looping detection: whatever the tracks do, a shower is answered, or a   *)
(* full container stops the program.                                       *)
EveryShowerIsAnswered == spc = "transport" ~> spc \in {"answered", "failed"}
=============================================================================
