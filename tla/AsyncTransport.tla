---------------------------- MODULE AsyncTransport ----------------------------
(***************************************************************************)
(* Asynchronous transport: the event life cycle that the G4 workers        *)
(* (AsyncAdePTTransport.icc: AddTrack, Flush, ProcessGPUSteps), the        *)
(* transport thread (AsyncAdePTTransport.cuh: TransportLoop), the CUDA     *)
(* host callbacks and the hit processing thread (HitProcessingLoop) drive  *)
(* together through eventStates.                                           *)
(*                                                                         *)
(* Abstractions: the three particle types are one; a kernel launch is one  *)
(* step; the hits of an event are one token, which moves with every batch  *)
(* that holds hits of it; an extraction copies its leaks in one batch; a   *)
(* swap of the device hit buffers is one step.                             *)
(***************************************************************************)
EXTENDS Naturals, FiniteSets

CONSTANTS
  Workers,          (* G4 workers: the threadId of tracks and hits         *)
  MaxEvents,        (* bound: events that each worker processes            *)
  MaxTracks,        (* bound: tracks of an event, its secondaries included *)
  BufferSize,       (* maxTracks of a to-device buffer                     *)
  MaxSteps,         (* steps after which a track is killed                 *)
  LeakThreshold,    (* leaks beyond which a leak queue must be extracted   *)
  HitThreshold,     (* events with hits beyond which the hit buffers swap  *)
  SpuriousWakeUps   (* whether a condition variable may wake without notify*)

ASSUME ParametersAssumption ==
  /\ MaxEvents \in Nat \ {0} /\ MaxTracks \in Nat \ {0}
  /\ BufferSize \in Nat \ {0} /\ MaxSteps \in Nat \ {0}
  /\ LeakThreshold \in Nat /\ HitThreshold \in Nat
  /\ SpuriousWakeUps \in BOOLEAN

Events == 1 .. MaxEvents
Tracks == Workers \X Events \X (1 .. MaxTracks)
Owner(t) == <<t[1], t[2]>>              (* threadId and eventId of a track *)

VARIABLES
  eventState,     (* worker -> EventState                                  *)
  evt,            (* worker -> the event it is processing                  *)
  wpc,            (* worker -> where it is                                 *)
  buf,            (* worker -> toDeviceIndex as createToDeviceSlot read it *)
  place,          (* track -> the queue or buffer that holds it            *)
  age,            (* track -> steps it has made                            *)
  toDeviceIndex,  (* the active to-device buffer                           *)
  injectState, extractState,
  clearPending,   (* the ClearQueues of the last extraction is on extractStream *)
  tpc,            (* where the transport thread is                         *)
  counted,        (* workers with perEventInFlight # 0 in the host stats   *)
  inFlight,       (* whether the sum of Stats::inFlight is > 0, on host    *)
  devInFlight,    (* the same, as FinishIteration left it on the device    *)
  devHits,        (* events with hits in the active device hit buffer      *)
  batchHits,      (* events with hits in the batch under way to the queues *)
  batch,          (* stage of that batch; "none": ReadyToSwapBuffers       *)
  hitQueue,       (* worker -> events with hits in its fHitQueues entry    *)
  hpc,            (* where the hit processing thread is                    *)
  runTransport, keepRunning,
  strayed,        (* history: tracks stored in a buffer after its turn     *)
  overtaken       (* history: workers whose hit flush began before the     *)
                  (* previous batch's AdvanceEventStates                   *)

workerVars    == <<evt, wpc, buf>>
deviceVars    == <<place, age>>
extractVars   == <<extractState, clearPending>>
statsVars     == <<counted, inFlight, devInFlight>>
hitVars       == <<devHits, batchHits, batch, hitQueue>>
vars == <<eventState, workerVars, deviceVars, toDeviceIndex, injectState,
          extractVars, tpc, statsVars, hitVars, hpc, runTransport,
          keepRunning, strayed, overtaken>>

-----------------------------------------------------------------------------
(* States at which transport of the event is over, DeviceFlushed included. *)
Transported == {"RequestHitFlush", "FlushingHits", "HitsFlushed",
                "FlushingTracks", "DeviceFlushed"}
BeforeTransported == {"NewTracksFromG4", "G4RequestsFlush", "Inject",
                "InjectionCompleted", "Transporting",
                "WaitingForTransportToFinish"}
EventStates == BeforeTransported \cup Transported
                 \cup {"LeakedTracksRetrieved", "ScoringRetrieved"}

ToDevice == [i \in {0, 1} |-> IF i = 0 THEN "toDevice0" ELSE "toDevice1"]
InTransport == {"toDevice0", "toDevice1", "injection", "next", "current"}
OnDevice == InTransport \cup {"leaked", "frozen"}
Places == OnDevice \cup {"unborn", "held", "fromDevice", "gone"}

At(p) == {t \in Tracks : place[t] = p}
OfEvent(w) == {t \in Tracks : t[1] = w /\ t[2] = evt[w]}

TypeOK ==
  /\ eventState \in [Workers -> EventStates]
  /\ evt \in [Workers -> Events]
  /\ wpc \in [Workers -> {"tracking", "storing", "publishing", "testing",
                "toWait", "waiting", "woken", "returning", "closing", "done"}]
  /\ buf \in [Workers -> {0, 1}]
  /\ place \in [Tracks -> Places]
  /\ age \in [Tracks -> 0 .. MaxSteps - 1]
  /\ toDeviceIndex \in {0, 1}
  /\ injectState \in {"Idle", "CreatingSlots", "ReadyToEnqueue", "Enqueueing"}
  /\ extractState \in {"Idle", "ExtractionRequested", "TracksSaved"}
  /\ clearPending \in BOOLEAN
  /\ tpc \in {"outer", "sleeping", "begin", "copy", "transport",
              "extract", "blocked", "decide", "stop", "join", "exited"}
  /\ counted \in SUBSET Workers
  /\ inFlight \in BOOLEAN /\ devInFlight \in BOOLEAN
  /\ devHits \in SUBSET (Workers \X Events)
  /\ batchHits \in SUBSET (Workers \X Events)
  /\ batch \in {"none", "onDevice", "onHost"}
  /\ hitQueue \in [Workers -> SUBSET Events]
  /\ hpc \in {"top", "toWait", "waiting", "transfer", "process", "advance",
              "notify", "exited"}
  /\ runTransport \in BOOLEAN /\ keepRunning \in BOOLEAN
  /\ strayed \in SUBSET Tracks
  /\ overtaken \in SUBSET Workers

Init ==
  /\ eventState = [w \in Workers |-> "ScoringRetrieved"]
  /\ evt = [w \in Workers |-> 1]
  /\ wpc = [w \in Workers |-> "tracking"]
  /\ buf = [w \in Workers |-> 0]
  /\ place = [t \in Tracks |-> "unborn"]
  /\ age = [t \in Tracks |-> 0]
  /\ toDeviceIndex = 0
  /\ injectState = "Idle" /\ extractState = "Idle" /\ clearPending = FALSE
  /\ tpc = "outer" /\ hpc = "top"
  /\ counted = {} /\ inFlight = FALSE /\ devInFlight = FALSE
  /\ devHits = {} /\ batchHits = {} /\ batch = "none"
  /\ hitQueue = [w \in Workers |-> {}]
  /\ runTransport = TRUE /\ keepRunning = TRUE
  /\ strayed = {} /\ overtaken = {}

-----------------------------------------------------------------------------
(* Helpers.                                                                *)

(* AdvanceEventStates: every event in state old goes to new.               *)
Advance(es, old, new) ==
  [w \in Workers |-> IF es[w] = old THEN new ELSE es[w]]

Goto(w, p) == wpc' = [wpc EXCEPT ![w] = p]

(* The lowest unused track number of an event: new tracks are alike.       *)
NextId(w, e) ==
  {t \in Tracks : /\ Owner(t) = <<w, e>> /\ place[t] = "unborn"
                  /\ \A u \in Tracks : (Owner(u) = <<w, e>> /\ u[3] < t[3])
                                         => place[u] # "unborn"}

Move(from, to) == [t \in Tracks |-> IF place[t] = from THEN to ELSE place[t]]

(* cvG4Workers.notify_all: wakes the workers that are waiting now.         *)
NotifyWorkers ==
  wpc' = [w \in Workers |-> IF wpc[w] = "waiting" THEN "woken" ELSE wpc[w]]

(* hitProcessing->cv.notify_one: lost unless the hit thread is waiting.    *)
NotifyHitThread == hpc' = IF hpc = "waiting" THEN "transfer" ELSE hpc

-----------------------------------------------------------------------------
(* G4 workers.                                                             *)

(* AdePTTrackingManager::ProcessTrack: looks for GPU steps first, then     *)
(* either tracks the particle on CPU or hands it to AddTrack, where        *)
(* createToDeviceSlot reads toDeviceIndex without holding a lock.          *)
ProcessTrack(w) ==
  /\ wpc[w] = "tracking"
  /\ hitQueue' = [hitQueue EXCEPT ![w] = {}]
  /\ \/ UNCHANGED <<wpc, buf, place>>
     \/ \E t \in NextId(w, evt[w]) :
          /\ place' = [place EXCEPT ![t] = "held"]
          /\ buf' = [buf EXCEPT ![w] = toDeviceIndex]
          /\ Goto(w, "storing")
  /\ UNCHANGED <<eventState, evt, age, toDeviceIndex, injectState,
                 extractVars, tpc, statsVars, devHits, batchHits, batch, hpc,
                 runTransport, keepRunning, strayed, overtaken>>

(* createToDeviceSlot: takes the lock of the buffer it chose earlier and   *)
(* fills a slot of it.  When the buffer is full it sleeps and chooses anew.*)
(* The track is a stray if the buffers were swapped meanwhile and the      *)
(* other one has been emptied too: it stays behind until the next swap.    *)
StoreTrack(w) ==
  /\ wpc[w] = "storing"
  /\ \/ /\ Cardinality(At(ToDevice[buf[w]])) < BufferSize
        /\ \E t \in At("held") \cap OfEvent(w) :
             /\ place' = [place EXCEPT ![t] = ToDevice[buf[w]]]
             /\ strayed' = IF buf[w] # toDeviceIndex /\ tpc # "copy"
                             THEN strayed \cup {t} ELSE strayed
        /\ Goto(w, "publishing")
        /\ UNCHANGED buf
     \/ /\ Cardinality(At(ToDevice[buf[w]])) = BufferSize
        /\ buf' = [buf EXCEPT ![w] = toDeviceIndex]
        /\ UNCHANGED <<place, strayed, wpc>>
  /\ UNCHANGED <<eventState, evt, age, toDeviceIndex, injectState,
                 extractVars, tpc, statsVars, hitVars, hpc, runTransport,
                 keepRunning, overtaken>>

(* The end of AddTrack: the transport thread now sees that there is work.  *)
PublishTrack(w) ==
  /\ wpc[w] = "publishing"
  /\ eventState' = [eventState EXCEPT ![w] = "NewTracksFromG4"]
  /\ buf' = [buf EXCEPT ![w] = 0]
  /\ Goto(w, "tracking")
  /\ UNCHANGED <<evt, deviceVars, toDeviceIndex, injectState, extractVars,
                 tpc, statsVars, hitVars, hpc, runTransport, keepRunning,
                 strayed, overtaken>>

(* Flush, up to its loop.                                                  *)
Flush(w) ==
  /\ wpc[w] = "tracking"
  /\ eventState' = [eventState EXCEPT ![w] = "G4RequestsFlush"]
  /\ Goto(w, "testing")
  /\ UNCHANGED <<evt, buf, deviceVars, toDeviceIndex, injectState,
                 extractVars, tpc, statsVars, hitVars, hpc, runTransport,
                 keepRunning, strayed, overtaken>>

(* The loop test of Flush; past DeviceFlushed, the worker takes its leaked *)
(* tracks under fromDeviceMutex and publishes that it has them.            *)
FlushTest(w) ==
  /\ wpc[w] = "testing"
  /\ \/ /\ eventState[w] # "DeviceFlushed"
        /\ Goto(w, "toWait")
        /\ UNCHANGED <<eventState, place>>
     \/ /\ eventState[w] = "DeviceFlushed"
        /\ place' = [t \in Tracks |->
                       IF t[1] = w /\ place[t] = "fromDevice" THEN "gone"
                       ELSE place[t]]
        /\ eventState' = [eventState EXCEPT ![w] = "LeakedTracksRetrieved"]
        /\ Goto(w, IF \E t \in At("fromDevice") : t[1] = w
                   THEN "returning" ELSE "closing")
  /\ UNCHANGED <<evt, buf, age, toDeviceIndex, injectState, extractVars,
                 tpc, statsVars, hitVars, hpc, runTransport, keepRunning,
                 strayed, overtaken>>

(* fCV_G4Workers.wait has no predicate: a notification between the loop    *)
(* test and the wait is lost.  ProcessGPUSteps follows every wake-up.      *)
Wait(w) ==
  /\ \/ wpc[w] = "toWait" /\ Goto(w, "waiting") /\ UNCHANGED hitQueue
     \/ wpc[w] = "woken" /\ Goto(w, "testing")
          /\ hitQueue' = [hitQueue EXCEPT ![w] = {}]
  /\ UNCHANGED <<eventState, evt, buf, deviceVars, toDeviceIndex,
                 injectState, extractVars, tpc, statsVars, devHits,
                 batchHits, batch, hpc, runTransport, keepRunning, strayed,
                 overtaken>>

(* ReturnTracks and FlushScoring.  Returned tracks are on the G4 stack: the*)
(* worker tracks on, and flushes the same event again; otherwise the event *)
(* is over and the worker takes the next one.                              *)
Return(w) ==
  /\ wpc[w] \in {"returning", "closing"}
  /\ eventState' = [eventState EXCEPT ![w] = "ScoringRetrieved"]
  /\ overtaken' = overtaken \ {w}
  /\ LET over == wpc[w] = "closing"
         last == evt[w] = MaxEvents
     IN  /\ evt' = [evt EXCEPT ![w] = IF over /\ ~last THEN @ + 1 ELSE @]
         /\ Goto(w, IF over /\ last THEN "done" ELSE "tracking")
  /\ UNCHANGED <<buf, deviceVars, toDeviceIndex, injectState, extractVars,
                 tpc, statsVars, hitVars, hpc, runTransport, keepRunning,
                 strayed>>

Worker(w) ==
  \/ ProcessTrack(w) \/ StoreTrack(w) \/ PublishTrack(w) \/ Flush(w)
  \/ FlushTest(w) \/ Wait(w) \/ Return(w)

-----------------------------------------------------------------------------
(* The transport thread.                                                   *)

needTransportMutant(w) == eventState[w] \in BeforeTransported

(* Whether a worker's event keeps the transport loop going.                *)
needTransport(w) ==
  eventState[w] \notin {"LeakedTracksRetrieved", "ScoringRetrieved"}

(* The head of the outer loop: InitSlotManagers and the zeroed statistics. *)
OuterLoop ==
  /\ tpc = "outer"
  /\ tpc' = IF runTransport THEN "sleeping" ELSE "stop"
  /\ counted' = {} /\ inFlight' = FALSE /\ devInFlight' = FALSE
  /\ UNCHANGED <<eventState, workerVars, deviceVars, toDeviceIndex,
                 injectState, extractVars, hitVars, hpc, runTransport,
                 keepRunning, strayed, overtaken>>

WaitForWork ==
  /\ tpc = "sleeping"
  /\ ~runTransport \/ \E w \in Workers : needTransport(w)
  /\ tpc' = "begin"
  /\ UNCHANGED <<eventState, workerVars, deviceVars, toDeviceIndex,
                 injectState, extractVars, statsVars, hitVars, hpc,
                 runTransport, keepRunning, strayed, overtaken>>

(* The condition of the loop over iterations.                              *)
LoopContinues ==
  \/ inFlight \/ injectState # "Idle" \/ extractState # "Idle"
  \/ \E w \in Workers : needTransport(w)

AdvanceInjectionMutant(es) ==
  Advance(es, "G4RequestsFlush", "InjectionCompleted")

(* A flush request first goes to Inject, and only at a later iteration with*)
(* the injection idle again to InjectionCompleted.                         *)
AdvanceInjection(es) ==
  Advance(Advance(es, "Inject", "InjectionCompleted"), "G4RequestsFlush", "Inject")

(* The head of an iteration: SwapActive (what was enqueued in the previous *)
(* iteration is now current) and the start of an injection.  The statistics*)
(* read at the end of the last iteration are not used any more.            *)
BeginIteration ==
  /\ tpc = "begin"
  /\ LoopContinues
  /\ place' = Move("next", "current")
  /\ eventState' = IF injectState = "Idle" THEN AdvanceInjection(eventState)
                                           ELSE eventState
  /\ IF injectState = "Idle" /\ At(ToDevice[toDeviceIndex]) # {}
     THEN /\ injectState' = "CreatingSlots"
          /\ toDeviceIndex' = 1 - toDeviceIndex
          /\ tpc' = "copy"
     ELSE /\ tpc' = "transport"
          /\ UNCHANGED <<injectState, toDeviceIndex>>
  /\ inFlight' = FALSE
  /\ UNCHANGED <<workerVars, age, extractVars, counted, devInFlight, hitVars,
                 hpc, runTransport, keepRunning, strayed, overtaken>>

(* With the lock of the buffer that was active: copy to device, InitTracks.*)
CopyBuffer ==
  /\ tpc = "copy"
  /\ place' = Move(ToDevice[1 - toDeviceIndex], "injection")
  /\ tpc' = "transport"
  /\ UNCHANGED <<eventState, workerVars, age, toDeviceIndex, injectState,
                 extractVars, statsVars, hitVars, hpc, runTransport,
                 keepRunning, strayed, overtaken>>

(* The host function on injectStream, after InitTracks.                    *)
InjectCallback ==
  /\ injectState = "CreatingSlots" /\ tpc # "copy"
  /\ injectState' = "ReadyToEnqueue"
  /\ UNCHANGED <<eventState, workerVars, deviceVars, toDeviceIndex,
                 extractVars, tpc, statsVars, hitVars, hpc, runTransport,
                 keepRunning, strayed, overtaken>>

(* What is enqueued is idle again one iteration later.                     *)
AfterEnqueue(is) ==
  CASE is = "ReadyToEnqueue" -> "Enqueueing"
    [] is = "Enqueueing" -> "Idle"
    [] OTHER -> is

SurvivesMutant(t) == age[t] + 1 <= MaxSteps

(* The step limit of the kernels.                                          *)
Survives(t) == age[t] + 1 < MaxSteps

Secondaries(mothers) == UNION {NextId(t[1], t[2]) : t \in mothers}

(* The slots that EnqueueTracks hands to the active queues.                *)
Enqueued == IF injectState = "ReadyToEnqueue" THEN At("injection") ELSE {}

(* One launch of the transport kernels: a current track goes where its     *)
(* fate is, mothers leave a secondary, a stray's is a stray.               *)
(* perEventInFlight counts the tracks that were current.                   *)
Launch(fate, hits, mothers) ==
  /\ place' = [t \in Tracks |-> IF place[t] = "current" THEN fate[t]
                                ELSE IF t \in Secondaries(mothers) \cup Enqueued THEN "next"
                                ELSE place[t]]
  /\ strayed' = strayed \cup Secondaries(mothers \cap strayed)
  /\ age' = [t \in Tracks |-> IF place[t] = "current" /\ fate[t] = "next" THEN age[t] + 1
                                                                        ELSE 0]
  /\ counted' = {t[1] : t \in At("current")}
  /\ devHits' = devHits \cup hits

(* EnqueueTracks, the kernels, and the state changes and statistics that   *)
(* follow.  Every current track steps: it survives, leaks or dies, and may *)
(* leave hits.  Bound: one secondary per launch.  The copy of inFlight to  *)
(* host races with FinishIteration: the host may see the value of the      *)
(* iteration before.                                                       *)
Transport ==
  /\ tpc = "transport"
  /\ injectState' = AfterEnqueue(injectState)
  /\ \E fate \in [At("current") -> {"next", "leaked", "gone"}],
        hits \in SUBSET {Owner(t) : t \in At("current")},
        mothers \in SUBSET At("current") :
       /\ Cardinality(mothers) <= 1
       /\ \A t \in At("current") : fate[t] = "next" => Survives(t)
       /\ Launch(fate, hits, mothers)
  /\ devInFlight' = \E t \in Tracks : place'[t] = "next"
  /\ inFlight' \in {devInFlight, devInFlight'}
  /\ eventState' = Advance(Advance(eventState, "Transporting", "WaitingForTransportToFinish"),
                           "InjectionCompleted", "Transporting")
  /\ tpc' = "extract"
  /\ UNCHANGED <<workerVars, toDeviceIndex, extractVars, batchHits, batch,
                 hitQueue, hpc, runTransport, keepRunning, overtaken>>

(* The leak queues are frozen and swapped for the events that have their   *)
(* hits, and for the tracks of every other event that leaked so far.       *)
StartExtraction ==
  /\ extractState = "Idle"
  /\ extractState' = "ExtractionRequested"
  /\ UNCHANGED clearPending
  /\ eventState' = Advance(eventState, "HitsFlushed", "FlushingTracks")
  /\ place' = Move("leaked", "frozen")

FlushedStateMutant(es) ==
  Advance(Advance(es, "FlushingTracks", "DeviceFlushed"), "HitsFlushed", "DeviceFlushed")

(* What the end of an extraction does to the events.                       *)
FlushedState(es) == Advance(es, "FlushingTracks", "DeviceFlushed")

(* The leaks are in fromDeviceBuffers: the next extraction may begin.  The *)
(* host does not wait for the ClearQueues that it enqueues.                *)
EndExtraction ==
  /\ extractState = "TracksSaved"
  /\ extractState' = "Idle" /\ clearPending' = TRUE
  /\ eventState' = FlushedState(eventState)
  /\ UNCHANGED place

(* One pass of the extraction loop.  Leaks need a transfer when an event   *)
(* asks for it or when a leak queue is over its threshold (any occupied    *)
(* queue may be); in the latter case transport blocks until it can begin.  *)
CollectLeaks ==
  /\ tpc = "extract"
  /\ \E overThreshold \in BOOLEAN :
       /\ overThreshold =>
            Cardinality(At("leaked") \cup At("frozen")) > LeakThreshold
       /\ \/ /\ overThreshold \/ \E w \in Workers : eventState[w] = "HitsFlushed"
             /\ StartExtraction
             /\ tpc' = "decide"
          \/ /\ extractState = "Idle" /\ ~overThreshold
             /\ \A w \in Workers : eventState[w] # "HitsFlushed"
             /\ tpc' = "decide"
             /\ UNCHANGED <<extractVars, eventState, place>>
          \/ /\ EndExtraction
             /\ tpc' = IF overThreshold THEN "blocked" ELSE "decide"
          \/ /\ extractState = "ExtractionRequested"
             /\ tpc' = IF overThreshold THEN "blocked" ELSE "decide"
             /\ UNCHANGED <<extractVars, eventState, place>>
  /\ UNCHANGED <<workerVars, age, toDeviceIndex, injectState, statsVars,
                 hitVars, hpc, runTransport, keepRunning, strayed, overtaken>>

(* Further passes, with transport stopped, until the queues are swapped.   *)
BlockedOnLeaks ==
  /\ tpc = "blocked"
  /\ \/ EndExtraction /\ UNCHANGED tpc
     \/ StartExtraction /\ tpc' = "decide"
  /\ UNCHANGED <<workerVars, age, toDeviceIndex, injectState, statsVars,
                 hitVars, hpc, runTransport, keepRunning, strayed, overtaken>>

(* ClearQueues executes.  Before the next extraction begins that changes   *)
(* nothing; after its swap the queues are the active ones again, and leaks *)
(* that have reached them meanwhile are wiped.                             *)
ClearQueues ==
  /\ clearPending /\ extractState = "ExtractionRequested"
  /\ clearPending' = FALSE
  /\ place' = Move("leaked", "gone")
  /\ UNCHANGED <<eventState, workerVars, age, toDeviceIndex, injectState,
                 extractState, tpc, statsVars, hitVars, hpc, runTransport,
                 keepRunning, strayed, overtaken>>

(* ReturnTracksToG4, a host function on extractStream.                     *)
ReturnTracksToG4 ==
  /\ extractState = "ExtractionRequested" /\ ~clearPending
  /\ extractState' = "TracksSaved"
  /\ place' = Move("frozen", "fromDevice")
  /\ UNCHANGED <<eventState, workerVars, age, toDeviceIndex, injectState,
                 clearPending, tpc, statsVars, hitVars, hpc, runTransport, keepRunning,
                 strayed, overtaken>>

TransportFinishedMutant(es) ==
  Advance(es, "WaitingForTransportToFinish", "RequestHitFlush")

(* Transport of an event is over when none of its tracks was current.      *)
TransportFinished(es) ==
  [w \in Workers |-> IF es[w] = "WaitingForTransportToFinish" /\ w \notin counted
                       THEN "RequestHitFlush" ELSE es[w]]

ReadyToSwapBuffersMutant == batch # "onHost"

(* HitScoring::ReadyToSwapBuffers: the previous batch is in the queues.    *)
ReadyToSwapBuffers == batch = "none"

AfterHitManagementMutant(es) == Advance(es, "RequestHitFlush", "FlushingHits")

(* Events wait in RequestHitFlush until the buffers can be swapped.        *)
AfterHitManagement(es) ==
  IF ReadyToSwapBuffers THEN Advance(es, "RequestHitFlush", "FlushingHits") ELSE es

NotifyOfFlushedMutant(es) == FALSE

(* An event is done: the hit thread has to tell the workers.               *)
NotifyOfFlushed(es) == \E w \in Workers : es[w] = "DeviceFlushed"

(* The decisions at the end of an iteration, once injectStream is idle:    *)
(* which events are transported, whether the hit buffers are swapped (at   *)
(* the request of an event or when they are filling up, as any occupied    *)
(* buffer may be), and whom to wake.                                       *)
Decide ==
  /\ tpc = "decide"
  /\ injectState # "CreatingSlots"
  /\ LET es == TransportFinished(eventState)
         requested == {w \in Workers : es[w] = "RequestHitFlush"}
     IN
     /\ eventState' = AfterHitManagement(es)
     /\ \/ /\ ~ReadyToSwapBuffers
           /\ NotifyHitThread
           /\ UNCHANGED <<devHits, batchHits, batch, overtaken>>
        \/ /\ ReadyToSwapBuffers
           /\ requested # {} \/ Cardinality(devHits) > HitThreshold
           /\ overtaken' = IF hpc = "advance" THEN overtaken \cup requested
                                             ELSE overtaken
           /\ batchHits' = devHits /\ devHits' = {} /\ batch' = "onDevice"
           /\ NotifyHitThread
        \/ /\ ReadyToSwapBuffers
           /\ requested = {}
           /\ IF NotifyOfFlushed(es) THEN NotifyHitThread ELSE UNCHANGED hpc
           /\ UNCHANGED <<devHits, batchHits, batch, overtaken>>
  /\ tpc' = "begin"
  /\ counted' = {}
  /\ UNCHANGED <<workerVars, deviceVars, toDeviceIndex, injectState,
                 extractVars, inFlight, devInFlight, hitQueue, runTransport,
                 keepRunning, strayed>>

(* The loop ends: ClearAllQueues drops whatever is in a queue.             *)
EndTransportLoop ==
  /\ tpc = "begin"
  /\ ~LoopContinues
  /\ place' = [t \in Tracks |-> IF place[t] \in {"next", "current", "leaked"}
                                THEN "gone" ELSE place[t]]
  /\ tpc' = "outer"
  /\ UNCHANGED <<eventState, workerVars, age, toDeviceIndex, injectState,
                 extractVars, statsVars, hitVars, hpc, runTransport,
                 keepRunning, strayed, overtaken>>

(* After the outer loop: stop the hit thread, and join it.                 *)
StopHitThread ==
  /\ \/ tpc = "stop" /\ keepRunning /\ keepRunning' = FALSE
          /\ UNCHANGED <<tpc, hpc>>
     \/ tpc = "stop" /\ ~keepRunning /\ NotifyHitThread /\ tpc' = "join"
          /\ UNCHANGED keepRunning
     \/ tpc = "join" /\ hpc = "exited" /\ tpc' = "exited"
          /\ UNCHANGED <<keepRunning, hpc>>
  /\ UNCHANGED <<eventState, workerVars, deviceVars, toDeviceIndex,
                 injectState, extractVars, statsVars, hitVars, runTransport,
                 strayed, overtaken>>

TransportThread ==
  \/ OuterLoop \/ WaitForWork \/ BeginIteration \/ CopyBuffer
  \/ Transport \/ CollectLeaks \/ BlockedOnLeaks
  \/ Decide \/ EndTransportLoop \/ StopHitThread

(* FreeGPU, once the workers are done.                                     *)
FreeGPU ==
  /\ runTransport
  /\ \A w \in Workers : wpc[w] = "done"
  /\ runTransport' = FALSE
  /\ UNCHANGED <<eventState, workerVars, deviceVars, toDeviceIndex,
                 injectState, extractVars, tpc, statsVars, hitVars, hpc,
                 keepRunning, strayed, overtaken>>

-----------------------------------------------------------------------------
(* The hit processing thread.                                              *)

(* ProcessHits has a batch to process, or the wake-up was for nothing new. *)
AfterTransfer == IF batch = "none" THEN "notify" ELSE "process"

(* HitProcessingLoop, up to ProcessHits: keepRunning is tested before the  *)
(* wait, which has no predicate: a notification in between is lost.        *)
(* TransferHitsToHost moves the batch to the host buffer; its host         *)
(* functions free the device buffer and let ProcessHits go on.             *)
WaitAndTransfer ==
  /\ \/ hpc = "top" /\ hpc' = (IF keepRunning THEN "toWait" ELSE "exited")
          /\ UNCHANGED batch
     \/ hpc = "toWait" /\ hpc' = "waiting" /\ UNCHANGED batch
     \/ hpc = "transfer" /\ hpc' = AfterTransfer
          /\ batch' = IF batch = "onDevice" THEN "onHost" ELSE batch
  /\ UNCHANGED <<eventState, workerVars, deviceVars, toDeviceIndex,
                 injectState, extractVars, tpc, statsVars, devHits,
                 batchHits, hitQueue, runTransport, keepRunning, strayed,
                 overtaken>>

(* ProcessBuffer: queues the hits, declares the host buffer ready (from    *)
(* here on the transport thread may swap again) and notifies the workers.  *)
ProcessBuffer ==
  /\ hpc = "process"
  /\ hitQueue' = [w \in Workers |->
                    hitQueue[w] \cup {e \in Events : <<w, e>> \in batchHits}]
  /\ batchHits' = {} /\ batch' = "none"
  /\ NotifyWorkers
  /\ hpc' = "advance"
  /\ UNCHANGED <<eventState, evt, buf, deviceVars, toDeviceIndex,
                 injectState, extractVars, tpc, statsVars, devHits,
                 runTransport, keepRunning, strayed, overtaken>>

(* The rest of HitProcessingLoop's body after a new batch.                 *)
AdvanceFlushedHits ==
  /\ hpc = "advance"
  /\ eventState' = Advance(eventState, "FlushingHits", "HitsFlushed")
  /\ hpc' = "notify"
  /\ UNCHANGED <<workerVars, deviceVars, toDeviceIndex, injectState,
                 extractVars, tpc, statsVars, hitVars, runTransport,
                 keepRunning, strayed, overtaken>>

NotifyG4Workers ==
  /\ hpc = "notify"
  /\ NotifyWorkers
  /\ hpc' = "top"
  /\ UNCHANGED <<eventState, evt, buf, deviceVars, toDeviceIndex,
                 injectState, extractVars, tpc, statsVars, hitVars,
                 runTransport, keepRunning, strayed, overtaken>>

HitThread ==
  WaitAndTransfer \/ ProcessBuffer \/ AdvanceFlushedHits \/ NotifyG4Workers

(* Both threads' waits are bare cv.wait calls.                             *)
WakeSpuriously ==
  /\ SpuriousWakeUps
  /\ \/ hpc = "waiting" /\ NotifyHitThread /\ UNCHANGED wpc
     \/ \E w \in Workers : wpc[w] = "waiting" /\ Goto(w, "woken")
          /\ UNCHANGED hpc
  /\ UNCHANGED <<eventState, evt, buf, deviceVars, toDeviceIndex,
                 injectState, extractVars, tpc, statsVars, hitVars,
                 runTransport, keepRunning, strayed, overtaken>>

Callback == InjectCallback \/ ReturnTracksToG4 \/ ClearQueues

(* The end: everything has been joined, or the shutdown's only notification*)
(* came before the hit thread waited, and the join never returns.          *)
Finished ==
  /\ tpc = "exited" \/ (tpc = "join" /\ hpc = "waiting" /\ ~SpuriousWakeUps)
  /\ UNCHANGED vars

Next ==
  \/ \E w \in Workers : Worker(w)
  \/ TransportThread \/ HitThread \/ Callback
  \/ WakeSpuriously \/ FreeGPU \/ Finished

(* Threads are scheduled, and CUDA executes what is enqueued on a stream.  *)
Fairness ==
  /\ \A w \in Workers : WF_vars(Worker(w))
  /\ WF_vars(TransportThread)
  /\ WF_vars(HitThread)
  /\ WF_vars(InjectCallback)
  /\ WF_vars(ClearQueues) /\ WF_vars(ReturnTracksToG4)

Safety == Init /\ [][Next]_vars
Spec == Safety /\ Fairness

-----------------------------------------------------------------------------
(* Properties.                                                             *)

(* No event is declared transported (RequestHitFlush and later) while a    *)
(* track of it is on its way to the device or in an active queue, unless   *)
(* that track is a stray.                                                  *)
TransportIsOver ==
  \A w \in Workers : eventState[w] \in Transported =>
    \A t \in OfEvent(w) \ strayed : place[t] \notin InTransport

(* When an event reaches DeviceFlushed, no leak of it is left on the device*)
(* and none has yet to get to the buffer from which its worker is about to *)
(* take the leaks.  Leaks that ClearQueues wiped are gone, not left behind.*)
LeaksAreOnHost ==
  \A w \in Workers : eventState[w] = "DeviceFlushed" =>
    \A t \in OfEvent(w) \ strayed : place[t] \notin OnDevice

(* From HitsFlushed until it is collected, an event has no hits left in a  *)
(* hit buffer: they are all in the queue of its worker.  Two races escape: *)
(* strays, and a hit flush that the batch before it completes.             *)
HitsAreQueued ==
  \A w \in Workers :
    (/\ eventState[w] \in {"HitsFlushed", "FlushingTracks", "DeviceFlushed"}
     /\ w \notin overtaken
     /\ strayed \cap OfEvent(w) = {})
      => <<w, evt[w]>> \notin devHits \cup batchHits

HitsMoveOn ==
  \A w \in Workers, e \in Events :
    <<w, e>> \in devHits \cup batchHits =>
      <<w, e>> \in devHits' \cup batchHits' \/ e \in hitQueue'[w]

(* No hits are lost on their way: what leaves the hit buffers is in the    *)
(* queue of its worker.  A swap that came too early would overwrite the    *)
(* batch under way.                                                        *)
HitsAreNotLost == [][HitsMoveOn]_vars

StraysAreDropped ==
  EndTransportLoop =>
    \A t \in Tracks \ strayed :
      (place[t] # "gone" /\ place'[t] = "gone") => wpc[t[1]] = "publishing"

(* ClearAllQueues never drops a track, unless it is a stray or its worker  *)
(* has not announced it yet.                                               *)
NothingIsDropped == [][StraysAreDropped]_vars

(* Every flush request is answered: the worker gets out of Flush.          *)
EveryFlushIsServed ==
  \A w \in Workers :
    (eventState[w] = "G4RequestsFlush") ~> (eventState[w] = "ScoringRetrieved")

(* What the flush service sees of an event, and of the tracks of a worker. *)
phase ==
  [w \in Workers |->
     CASE eventState[w] \in {"NewTracksFromG4", "LeakedTracksRetrieved", "ScoringRetrieved"} -> "open"
       [] eventState[w] = "DeviceFlushed" -> "served"
       [] OTHER -> "requested"]
owed == [w \in Workers |-> {t \in Tracks \ strayed : t[1] = w /\ place[t] \in OnDevice}]

(* The event life cycle implements the flush service, but for strays.      *)
Service == INSTANCE FlushService
ImplementsFlushService == Service!Spec

(* Claims of the repository that the code does not keep.                   *)

(* The assertion of Flush: the tracks a worker takes from the device are   *)
(* of the event it flushes.                                                *)
ReturnedTracksAreOfThisEvent ==
  \A w \in Workers : (wpc[w] = "testing" /\ eventState[w] = "DeviceFlushed") =>
    \A t \in At("fromDevice") : t[1] = w => t[2] = evt[w]

(* The sanity check of ProcessGPUSteps: a worker that looks for GPU steps  *)
(* finds hits of its current event only.                                   *)
HitsAreOfThisEvent ==
  \A w \in Workers :
    wpc[w] \in {"tracking", "woken"} => hitQueue[w] \subseteq {evt[w]}
=============================================================================
