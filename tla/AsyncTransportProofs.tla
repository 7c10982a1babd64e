------------------------- MODULE AsyncTransportProofs -------------------------
(* For every set of workers, every number of events and tracks and every   *)
(* buffer size: no event is declared transported too early, its leaks are  *)
(* on the host when it is flushed, its hits are in the queue, and the      *)
(* event life cycle implements the flush service.                          *)
EXTENDS AsyncTransport, TLAPS

-----------------------------------------------------------------------------
(* What a worker does tells what only it does to its event's state.        *)
WorkerStates ==
  \A w \in Workers :
    /\ wpc[w] \in {"tracking", "storing", "publishing", "done"} =>
         eventState[w] \in {"ScoringRetrieved", "NewTracksFromG4"}
    /\ wpc[w] \in {"returning", "closing"} => eventState[w] = "LeakedTracksRetrieved"
    /\ wpc[w] \in {"testing", "toWait", "waiting", "woken"} =>
         eventState[w] \notin {"ScoringRetrieved", "NewTracksFromG4", "LeakedTracksRetrieved"}

Buffered == {"toDevice0", "toDevice1"}

(* Where tracks are tells how far the injection and the extraction are: but *)
(* for strays, the buffer that is not active is empty or about to be copied.*)
InQueue(t) ==
  /\ place[t] = "injection" => injectState \in {"CreatingSlots", "ReadyToEnqueue"}
  /\ place[t] = "current" => tpc \in {"copy", "transport"}
  /\ place[t] = "next" => tpc \notin {"copy", "transport"}
  /\ place[t] = "frozen" => extractState = "ExtractionRequested"
  /\ place[t] \in Buffered /\ t \notin strayed =>
       place[t] = ToDevice[toDeviceIndex] \/ tpc = "copy"

Queues ==
  /\ tpc = "copy" => injectState = "CreatingSlots"
  /\ \A t \in Tracks : InQueue(t)

(* How far the event of a worker can be while a track is where it is.      *)
Stage(w, p) ==
  /\ eventState[w] = "ScoringRetrieved" => wpc[w] = "publishing"
  /\ eventState[w] \notin {"LeakedTracksRetrieved", "DeviceFlushed"}
  /\ eventState[w] = "Inject" => p # ToDevice[toDeviceIndex]
  /\ eventState[w] \in {"InjectionCompleted", "Transporting", "WaitingForTransportToFinish"} =>
       p \notin Buffered \cup {"injection"}
  /\ eventState[w] = "WaitingForTransportToFinish" /\ tpc \in {"extract", "blocked", "decide"}
       /\ w \notin counted => p # "next"
  /\ eventState[w] \in Transported => p \in {"leaked", "frozen"}
  /\ eventState[w] = "FlushingTracks" => p = "frozen"

(* What is on the device is of the event its worker processes, and that    *)
(* event has not got further than the track.                               *)
Stages ==
  \A t \in Tracks \ strayed :
    place[t] \in OnDevice => t[2] = evt[t[1]] /\ Stage(t[1], place[t])

(* The hits of an event have left the device buffer when its flush begins, *)
(* and the batch when the hit thread gets to the event.                    *)
HitsOf(w) ==
  /\ eventState[w] \in {"FlushingHits", "HitsFlushed", "FlushingTracks", "DeviceFlushed"} =>
       <<w, evt[w]>> \notin devHits
  /\ w \notin overtaken /\ (\/ eventState[w] \in {"HitsFlushed", "FlushingTracks", "DeviceFlushed"}
                            \/ eventState[w] = "FlushingHits" /\ hpc = "advance") =>
       <<w, evt[w]>> \notin batchHits

Hits ==
  /\ batch = "none" => batchHits = {}
  /\ \A w \in Workers : strayed \cap OfEvent(w) = {} => HitsOf(w)

IInv == TypeOK /\ WorkerStates /\ Queues /\ Stages /\ Hits

(* A track carries the worker and the event it belongs to.                 *)
LEMMA TrackOwner == \A t \in Tracks : t[1] \in Workers /\ t[2] \in Events
BY DEF Tracks

(* Nothing is on the device at the start.                                  *)
LEMMA InitInvariant == Init => IInv
<1> SUFFICES ASSUME Init PROVE IInv
  OBVIOUS
<1>1. TypeOK
  <2>1. age \in [Tracks -> 0 .. MaxSteps - 1] /\ evt \in [Workers -> Events]
    BY ParametersAssumption DEF Init, Events
  <2>2. place \in [Tracks -> Places] /\ eventState \in [Workers -> EventStates]
    BY DEF Init, Places, EventStates
  <2>3. hitQueue \in [Workers -> SUBSET Events]
    BY DEF Init
  <2>4. /\ inFlight \in BOOLEAN /\ devInFlight \in BOOLEAN
        /\ runTransport \in BOOLEAN /\ keepRunning \in BOOLEAN
    BY DEF Init
  <2> QED BY <2>1, <2>2, <2>3, <2>4 DEF Init, TypeOK
<1>2. WorkerStates /\ Queues
  BY DEF Init, WorkerStates, Queues, InQueue, Buffered
<1>3. Stages /\ Hits
  BY DEF Init, Stages, Hits, HitsOf, OnDevice, InTransport
<1> QED BY <1>1, <1>2, <1>3 DEF IInv


(* Every step keeps the types.                                             *)
LEMMA TypesStep == IInv /\ [Next]_vars => TypeOK'
<1> SUFFICES ASSUME IInv, [Next]_vars PROVE TypeOK'
  OBVIOUS
<1> USE ParametersAssumption, TrackOwner DEF IInv, TypeOK, vars, workerVars, deviceVars, statsVars, extractVars,
   hitVars, EventStates, BeforeTransported, Transported, Places, OnDevice, InTransport, Events,
   ToDevice
<1>1. ASSUME NEW w \in Workers, ProcessTrack(w) PROVE TypeOK'
  BY <1>1 DEF ProcessTrack, Goto
<1>2. ASSUME NEW w \in Workers, StoreTrack(w) PROVE TypeOK'
  <2>1. strayed' \in SUBSET Tracks
    BY <1>2 DEF StoreTrack, OfEvent
  <2>2. place' \in [Tracks -> Places]
    BY <1>2 DEF StoreTrack
  <2> QED BY <1>2, <2>1, <2>2 DEF StoreTrack, Goto
<1>3. ASSUME NEW w \in Workers, PublishTrack(w) PROVE TypeOK'
  BY <1>3 DEF PublishTrack, Goto
<1>4. ASSUME NEW w \in Workers, Flush(w) PROVE TypeOK'
  BY <1>4 DEF Flush, Goto
<1>5. ASSUME NEW w \in Workers, FlushTest(w) PROVE TypeOK'
  BY <1>5 DEF FlushTest, Goto
<1>6. ASSUME NEW w \in Workers, Wait(w) PROVE TypeOK'
  BY <1>6 DEF Wait, Goto
<1>7. ASSUME NEW w \in Workers, Return(w) PROVE TypeOK'
  BY <1>7 DEF Return, Goto
<1>8. CASE OuterLoop
  <2>1. inFlight' \in BOOLEAN /\ devInFlight' \in BOOLEAN
    BY <1>8 DEF OuterLoop
  <2>2. counted' \in SUBSET Workers
    BY <1>8 DEF OuterLoop
  <2> QED BY <1>8, <2>1, <2>2 DEF OuterLoop
<1>9. CASE WaitForWork
  BY <1>9 DEF WaitForWork
<1>10. CASE BeginIteration
  <2>1. inFlight' \in BOOLEAN
    BY <1>10 DEF BeginIteration
  <2>2. place' \in [Tracks -> Places]
    BY <1>10 DEF BeginIteration, Move
  <2>3. eventState' \in [Workers -> EventStates]
    BY <1>10 DEF BeginIteration, AdvanceInjection, Advance
  <2>4. injectState' \in {"Idle", "CreatingSlots", "ReadyToEnqueue", "Enqueueing"}
        /\ toDeviceIndex' \in {0, 1} /\ tpc' \in {"copy", "transport"}
    BY <1>10 DEF BeginIteration
  <2> QED BY <1>10, <2>1, <2>2, <2>3, <2>4 DEF BeginIteration
<1>11. CASE CopyBuffer
  BY <1>11 DEF CopyBuffer, Move
<1>12. CASE Transport
  <2>1. PICK fate \in [At("current") -> {"next", "leaked", "gone"}],
              hits \in SUBSET {Owner(t) : t \in At("current")},
              mothers \in SUBSET At("current") :
                /\ \A t \in At("current") : fate[t] = "next" => Survives(t)
                /\ Launch(fate, hits, mothers)
    BY <1>12 DEF Transport
  <2>2. place' \in [Tracks -> Places]
    BY <2>1 DEF Launch, At
  <2>3. strayed' \in SUBSET Tracks
    BY <2>1 DEF Launch, Secondaries, NextId
  <2>4. age' \in [Tracks -> 0 .. MaxSteps - 1]
    BY <2>1 DEF Launch, At, Survives
  <2>5. counted' \in SUBSET Workers /\ devHits' \in SUBSET (Workers \X Events)
    BY <2>1 DEF Launch, At, Owner
  <2>6. eventState' \in [Workers -> EventStates]
        /\ injectState' \in {"Idle", "CreatingSlots", "ReadyToEnqueue", "Enqueueing"}
    BY <1>12 DEF Transport, Advance, AfterEnqueue
  <2>7. inFlight' \in BOOLEAN /\ devInFlight' \in BOOLEAN
    <3>1. devInFlight' \in BOOLEAN
      BY <1>12 DEF Transport
    <3> QED BY <3>1, <1>12 DEF Transport
  <2> QED BY <1>12, <2>2, <2>3, <2>4, <2>5, <2>6, <2>7 DEF Transport
<1>13. CASE CollectLeaks
  <2>1. clearPending' \in BOOLEAN
    BY <1>13 DEF CollectLeaks, StartExtraction, EndExtraction
  <2> QED BY <1>13, <2>1 DEF CollectLeaks, StartExtraction, EndExtraction, FlushedState, Advance, Move
<1>14. CASE BlockedOnLeaks
  <2>1. clearPending' \in BOOLEAN
    BY <1>14 DEF BlockedOnLeaks, StartExtraction, EndExtraction
  <2> QED BY <1>14, <2>1 DEF BlockedOnLeaks, StartExtraction, EndExtraction, FlushedState, Advance, Move
<1>15. CASE Decide
  <2>1. eventState' \in [Workers -> EventStates]
    BY <1>15 DEF Decide, TransportFinished, AfterHitManagement, Advance
  <2>2. overtaken' \in SUBSET Workers
    <3> DEFINE requested == {w \in Workers : TransportFinished(eventState)[w] = "RequestHitFlush"}
    <3>1. overtaken' \in {overtaken, overtaken \cup requested}
      BY <1>15 DEF Decide
    <3>2. requested \in SUBSET Workers
      OBVIOUS
    <3> HIDE DEF requested
    <3> QED BY <3>1, <3>2
  <2>3. hpc' \in {hpc, "transfer"}
    BY <1>15 DEF Decide, NotifyHitThread
  <2>4. devHits' \in SUBSET (Workers \X Events) /\ batchHits' \in SUBSET (Workers \X Events)
        /\ batch' \in {batch, "onDevice"} /\ counted' \in SUBSET Workers
    BY <1>15 DEF Decide
  <2> QED BY <1>15, <2>1, <2>2, <2>3, <2>4 DEF Decide
<1>16. CASE EndTransportLoop
  BY <1>16 DEF EndTransportLoop
<1>17. CASE StopHitThread
  <2>1. keepRunning' \in BOOLEAN
    BY <1>17 DEF StopHitThread
  <2> QED BY <1>17, <2>1 DEF StopHitThread, NotifyHitThread
<1>18. CASE FreeGPU
  <2>1. runTransport' \in BOOLEAN
    BY <1>18 DEF FreeGPU
  <2> QED BY <1>18, <2>1 DEF FreeGPU
<1>19. CASE WaitAndTransfer
  BY <1>19 DEF WaitAndTransfer, AfterTransfer
<1>20. CASE ProcessBuffer
  BY <1>20 DEF ProcessBuffer, NotifyWorkers
<1>21. CASE AdvanceFlushedHits
  BY <1>21 DEF AdvanceFlushedHits, Advance
<1>22. CASE NotifyG4Workers
  BY <1>22 DEF NotifyG4Workers, NotifyWorkers
<1>23. CASE InjectCallback
  BY <1>23 DEF InjectCallback
<1>24. CASE ReturnTracksToG4
  BY <1>24 DEF ReturnTracksToG4, Move
<1>27. CASE ClearQueues
  <2>1. clearPending' \in BOOLEAN
    BY <1>27 DEF ClearQueues
  <2> QED BY <1>27, <2>1 DEF ClearQueues, Move
<1>25. CASE WakeSpuriously
  BY <1>25 DEF WakeSpuriously, NotifyHitThread, Goto
<1>26. CASE UNCHANGED vars
  BY <1>26 DEF vars
<1> QED
  BY <1>1, <1>2, <1>3, <1>4, <1>5, <1>6, <1>7, <1>8, <1>9, <1>10, <1>11, <1>12, <1>13,
     <1>14, <1>15, <1>16, <1>17, <1>18, <1>19, <1>20, <1>21, <1>22, <1>23, <1>24, <1>25, <1>26, <1>27
        DEF Next, Worker, TransportThread, HitThread, Callback, Finished

(* Only the worker leaves the states it is in charge of.                   *)
LEMMA WorkersStep == IInv /\ [Next]_vars => WorkerStates'
<1> SUFFICES ASSUME IInv, [Next]_vars PROVE WorkerStates'
  OBVIOUS
<1> USE DEF IInv, WorkerStates, TypeOK, vars, workerVars, deviceVars, statsVars, extractVars, hitVars
<1>1. ASSUME NEW w \in Workers, ProcessTrack(w) PROVE WorkerStates'
  BY <1>1 DEF ProcessTrack, Goto
<1>2. ASSUME NEW w \in Workers, StoreTrack(w) PROVE WorkerStates'
  BY <1>2 DEF StoreTrack, Goto
<1>3. ASSUME NEW w \in Workers, PublishTrack(w) PROVE WorkerStates'
  BY <1>3 DEF PublishTrack, Goto
<1>4. ASSUME NEW w \in Workers, Flush(w) PROVE WorkerStates'
  BY <1>4 DEF Flush, Goto
<1>5. ASSUME NEW w \in Workers, FlushTest(w) PROVE WorkerStates'
  BY <1>5 DEF FlushTest, Goto
<1>6. ASSUME NEW w \in Workers, Wait(w) PROVE WorkerStates'
  BY <1>6 DEF Wait, Goto
<1>7. ASSUME NEW w \in Workers, Return(w) PROVE WorkerStates'
  BY <1>7 DEF Return, Goto
<1>8. CASE OuterLoop
  BY <1>8 DEF OuterLoop
<1>9. CASE WaitForWork
  BY <1>9 DEF WaitForWork
<1>10. CASE BeginIteration
  BY <1>10 DEF BeginIteration, AdvanceInjection, Advance, Move
<1>11. CASE CopyBuffer
  BY <1>11 DEF CopyBuffer, Move
<1>12. CASE Transport
  BY <1>12 DEF Transport, Advance, AfterEnqueue, Survives, NextId, Owner
<1>13. CASE CollectLeaks
  BY <1>13 DEF CollectLeaks, StartExtraction, EndExtraction, FlushedState, Advance, Move
<1>14. CASE BlockedOnLeaks
  BY <1>14 DEF BlockedOnLeaks, StartExtraction, EndExtraction, FlushedState, Advance, Move
<1>15. CASE Decide
  BY <1>15 DEF Decide, TransportFinished, AfterHitManagement, NotifyHitThread, ReadyToSwapBuffers,
     Advance
<1>16. CASE EndTransportLoop
  BY <1>16 DEF EndTransportLoop
<1>17. CASE StopHitThread
  BY <1>17 DEF StopHitThread, NotifyHitThread
<1>18. CASE FreeGPU
  BY <1>18 DEF FreeGPU
<1>19. CASE WaitAndTransfer
  BY <1>19 DEF WaitAndTransfer, AfterTransfer
<1>20. CASE ProcessBuffer
  BY <1>20 DEF ProcessBuffer, NotifyWorkers
<1>21. CASE AdvanceFlushedHits
  BY <1>21 DEF AdvanceFlushedHits, Advance
<1>22. CASE NotifyG4Workers
  BY <1>22 DEF NotifyG4Workers, NotifyWorkers
<1>23. CASE InjectCallback
  BY <1>23 DEF InjectCallback
<1>24. CASE ReturnTracksToG4
  BY <1>24 DEF ReturnTracksToG4, Move
<1>27. CASE ClearQueues
  BY <1>27 DEF ClearQueues, Move
<1>25. CASE WakeSpuriously
  BY <1>25 DEF WakeSpuriously, NotifyHitThread, Goto
<1>26. CASE UNCHANGED vars
  BY <1>26 DEF vars
<1> QED
  BY <1>1, <1>2, <1>3, <1>4, <1>5, <1>6, <1>7, <1>8, <1>9, <1>10, <1>11, <1>12, <1>13,
     <1>14, <1>15, <1>16, <1>17, <1>18, <1>19, <1>20, <1>21, <1>22, <1>23, <1>24, <1>25, <1>26, <1>27
        DEF Next, Worker, TransportThread, HitThread, Callback, Finished

(* A buffer that is swapped out is copied at once, and enqueued before the *)
(* next one is.                                                            *)
LEMMA QueuesStep == IInv /\ [Next]_vars => Queues'
<1> SUFFICES ASSUME IInv, [Next]_vars PROVE Queues'
  OBVIOUS
<1> USE TrackOwner DEF IInv, Queues, InQueue, TypeOK, Buffered, ToDevice, vars, workerVars,
   deviceVars, statsVars, extractVars, hitVars
<1>1. ASSUME NEW w \in Workers, ProcessTrack(w) PROVE Queues'
  BY <1>1 DEF ProcessTrack, Goto
<1>2. ASSUME NEW w \in Workers, StoreTrack(w) PROVE Queues'
  BY <1>2 DEF StoreTrack, Goto
<1>3. ASSUME NEW w \in Workers, PublishTrack(w) PROVE Queues'
  BY <1>3 DEF PublishTrack, Goto
<1>4. ASSUME NEW w \in Workers, Flush(w) PROVE Queues'
  BY <1>4 DEF Flush, Goto
<1>5. ASSUME NEW w \in Workers, FlushTest(w) PROVE Queues'
  BY <1>5 DEF FlushTest, Goto
<1>6. ASSUME NEW w \in Workers, Wait(w) PROVE Queues'
  BY <1>6 DEF Wait, Goto
<1>7. ASSUME NEW w \in Workers, Return(w) PROVE Queues'
  BY <1>7 DEF Return, Goto
<1>8. CASE OuterLoop
  BY <1>8 DEF OuterLoop
<1>9. CASE WaitForWork
  BY <1>9 DEF WaitForWork
<1>10. CASE BeginIteration
  BY <1>10 DEF BeginIteration, AdvanceInjection, Advance, Move
<1>11. CASE CopyBuffer
  BY <1>11 DEF CopyBuffer, Move
<1>12. CASE Transport
  <2>1. PICK fate \in [At("current") -> {"next", "leaked", "gone"}],
              hits \in SUBSET {Owner(t) : t \in At("current")},
              mothers \in SUBSET At("current") : Launch(fate, hits, mothers)
    BY <1>12 DEF Transport
  <2>2. ASSUME NEW t \in Tracks PROVE InQueue(t)'
    BY <2>1, <2>2, <1>12 DEF Transport, Launch, At, AfterEnqueue, Enqueued
  <2> QED BY <1>12, <2>2 DEF Transport
<1>13. CASE CollectLeaks
  BY <1>13 DEF CollectLeaks, StartExtraction, EndExtraction, FlushedState, Advance, Move
<1>14. CASE BlockedOnLeaks
  BY <1>14 DEF BlockedOnLeaks, StartExtraction, EndExtraction, FlushedState, Advance, Move
<1>15. CASE Decide
  BY <1>15 DEF Decide, TransportFinished, AfterHitManagement, NotifyHitThread, ReadyToSwapBuffers,
     Advance
<1>16. CASE EndTransportLoop
  BY <1>16 DEF EndTransportLoop
<1>17. CASE StopHitThread
  BY <1>17 DEF StopHitThread, NotifyHitThread
<1>18. CASE FreeGPU
  BY <1>18 DEF FreeGPU
<1>19. CASE WaitAndTransfer
  BY <1>19 DEF WaitAndTransfer, AfterTransfer
<1>20. CASE ProcessBuffer
  BY <1>20 DEF ProcessBuffer, NotifyWorkers
<1>21. CASE AdvanceFlushedHits
  BY <1>21 DEF AdvanceFlushedHits, Advance
<1>22. CASE NotifyG4Workers
  BY <1>22 DEF NotifyG4Workers, NotifyWorkers
<1>23. CASE InjectCallback
  BY <1>23 DEF InjectCallback
<1>24. CASE ReturnTracksToG4
  BY <1>24 DEF ReturnTracksToG4, Move
<1>27. CASE ClearQueues
  BY <1>27 DEF ClearQueues, Move
<1>25. CASE WakeSpuriously
  BY <1>25 DEF WakeSpuriously, NotifyHitThread, Goto
<1>26. CASE UNCHANGED vars
  BY <1>26 DEF vars
<1> QED
  BY <1>1, <1>2, <1>3, <1>4, <1>5, <1>6, <1>7, <1>8, <1>9, <1>10, <1>11, <1>12, <1>13,
     <1>14, <1>15, <1>16, <1>17, <1>18, <1>19, <1>20, <1>21, <1>22, <1>23, <1>24, <1>25, <1>26, <1>27
        DEF Next, Worker, TransportThread, HitThread, Callback, Finished

(* No track enters a queue that its event has left.                        *)
LEMMA StagesStep == IInv /\ [Next]_vars => Stages'
<1> SUFFICES ASSUME IInv, [Next]_vars PROVE Stages'
  OBVIOUS
<1> USE TrackOwner DEF IInv, Queues, InQueue, WorkerStates, TypeOK, Stages, Stage, Buffered,
   OnDevice, InTransport, Transported, ToDevice, vars, workerVars, deviceVars, statsVars, extractVars, hitVars
<1>1. ASSUME NEW w \in Workers, ProcessTrack(w) PROVE Stages'
  BY <1>1 DEF ProcessTrack, Goto
<1>2. ASSUME NEW w \in Workers, StoreTrack(w) PROVE Stages'
  <2> SUFFICES ASSUME NEW t \in Tracks, t \notin strayed', place'[t] \in OnDevice
               PROVE  t[2] = evt'[t[1]] /\ Stage(t[1], place[t])'
    BY DEF Stages
  <2>1. CASE place'[t] = place[t]
    BY <2>1, <1>2 DEF StoreTrack, Goto
  <2>2. CASE place'[t] # place[t]
    <3>1. t \in OfEvent(w) /\ place'[t] = ToDevice[buf[w]] /\ wpc' = [wpc EXCEPT ![w] = "publishing"]
      BY <2>2, <1>2 DEF StoreTrack, Goto
    <3> QED BY <3>1, <1>2 DEF StoreTrack, Goto, OfEvent
  <2> QED BY <2>1, <2>2
<1>3. ASSUME NEW w \in Workers, PublishTrack(w) PROVE Stages'
  BY <1>3 DEF PublishTrack, Goto
<1>4. ASSUME NEW w \in Workers, Flush(w) PROVE Stages'
  BY <1>4 DEF Flush, Goto
<1>5. ASSUME NEW w \in Workers, FlushTest(w) PROVE Stages'
  BY <1>5 DEF FlushTest, Goto
<1>6. ASSUME NEW w \in Workers, Wait(w) PROVE Stages'
  BY <1>6 DEF Wait, Goto
<1>7. ASSUME NEW w \in Workers, Return(w) PROVE Stages'
  BY <1>7 DEF Return, Goto
<1>8. CASE OuterLoop
  BY <1>8 DEF OuterLoop
<1>9. CASE WaitForWork
  BY <1>9 DEF WaitForWork
<1>10. CASE BeginIteration
  <2> SUFFICES ASSUME NEW t \in Tracks \ strayed, place'[t] \in OnDevice
               PROVE  t[2] = evt'[t[1]] /\ Stage(t[1], place[t])'
    BY <1>10 DEF Stages, BeginIteration
  <2>1. place[t] \in OnDevice /\ t[2] = evt[t[1]] /\ t[1] \in Workers /\ evt' = evt
    BY <1>10 DEF BeginIteration, Move
  <2> QED BY <2>1, <1>10 DEF BeginIteration, AdvanceInjection, Advance, Move, At
<1>11. CASE CopyBuffer
  BY <1>11 DEF CopyBuffer, Move
<1>12. CASE Transport
  <2>1. PICK fate \in [At("current") -> {"next", "leaked", "gone"}],
              hits \in SUBSET {Owner(t) : t \in At("current")},
              mothers \in SUBSET At("current") : Launch(fate, hits, mothers)
    BY <1>12 DEF Transport
  <2>2. SUFFICES ASSUME NEW t \in Tracks, t \notin strayed', place'[t] \in OnDevice
               PROVE  t[2] = evt'[t[1]] /\ Stage(t[1], place[t])'
    BY DEF Stages
  <2>3. evt' = evt /\ t[1] \in Workers /\ t \notin strayed
    BY <2>1, <2>2, <1>12 DEF Transport, Launch
  <2>4. CASE place[t] = "current"
    BY <2>1, <2>2, <2>3, <2>4, <1>12 DEF Transport, Launch, At, Advance
  <2>5. CASE place[t] # "current" /\ t \in Secondaries(mothers)
    <3>1. PICK m \in mothers \ strayed : t \in NextId(m[1], m[2])
      BY <2>1, <2>2, <2>5 DEF Launch, Secondaries
    <3>2. m[1] = t[1] /\ m[2] = t[2] /\ m \in Tracks /\ place[m] = "current" /\ place'[t] = "next"
      BY <2>1, <2>5, <3>1 DEF NextId, Owner, At, Launch
    <3>3. Stage(m[1], "current") /\ t[2] = evt[t[1]]
      BY <3>1, <3>2
    <3>4. t[1] \in counted'
      BY <2>1, <3>2 DEF Launch, At
    <3> QED BY <2>3, <3>2, <3>3, <3>4, <1>12 DEF Transport, Advance
  <2>6. CASE place[t] = "injection" /\ t \notin Secondaries(mothers) /\ injectState = "ReadyToEnqueue"
    BY <2>1, <2>2, <2>3, <2>6, <1>12 DEF Transport, Launch, Enqueued, At, Advance
  <2>7. CASE place[t] # "current" /\ t \notin Secondaries(mothers) /\ t \notin Enqueued
    <3>1. place'[t] = place[t]
      BY <2>1, <2>2, <2>7 DEF Launch, At
    <3> QED BY <3>1, <2>1, <2>2, <2>3, <1>12 DEF Transport, Launch, Advance
  <2> QED BY <2>4, <2>5, <2>6, <2>7 DEF Enqueued, At
<1>13. CASE CollectLeaks
  BY <1>13 DEF CollectLeaks, StartExtraction, EndExtraction, FlushedState, Advance, Move
<1>14. CASE BlockedOnLeaks
  BY <1>14 DEF BlockedOnLeaks, StartExtraction, EndExtraction, FlushedState, Advance, Move
<1>15. CASE Decide
  BY <1>15 DEF Decide, TransportFinished, AfterHitManagement, NotifyHitThread, ReadyToSwapBuffers,
     Advance
<1>16. CASE EndTransportLoop
  BY <1>16 DEF EndTransportLoop
<1>17. CASE StopHitThread
  BY <1>17 DEF StopHitThread, NotifyHitThread
<1>18. CASE FreeGPU
  BY <1>18 DEF FreeGPU
<1>19. CASE WaitAndTransfer
  BY <1>19 DEF WaitAndTransfer, AfterTransfer
<1>20. CASE ProcessBuffer
  BY <1>20 DEF ProcessBuffer, NotifyWorkers
<1>21. CASE AdvanceFlushedHits
  BY <1>21 DEF AdvanceFlushedHits, Advance
<1>22. CASE NotifyG4Workers
  BY <1>22 DEF NotifyG4Workers, NotifyWorkers
<1>23. CASE InjectCallback
  BY <1>23 DEF InjectCallback
<1>24. CASE ReturnTracksToG4
  BY <1>24 DEF ReturnTracksToG4, Move
<1>27. CASE ClearQueues
  BY <1>27 DEF ClearQueues, Move
<1>25. CASE WakeSpuriously
  BY <1>25 DEF WakeSpuriously, NotifyHitThread, Goto
<1>26. CASE UNCHANGED vars
  BY <1>26 DEF vars
<1> QED
  BY <1>1, <1>2, <1>3, <1>4, <1>5, <1>6, <1>7, <1>8, <1>9, <1>10, <1>11, <1>12, <1>13,
     <1>14, <1>15, <1>16, <1>17, <1>18, <1>19, <1>20, <1>21, <1>22, <1>23, <1>24, <1>25, <1>26, <1>27
        DEF Next, Worker, TransportThread, HitThread, Callback, Finished

(* Hits move on before their events do.                                    *)
LEMMA HitsStep == IInv /\ [Next]_vars => Hits'
<1> SUFFICES ASSUME IInv, [Next]_vars PROVE Hits'
  OBVIOUS
<1> USE TrackOwner DEF IInv, Queues, InQueue, WorkerStates, TypeOK, Stages, Stage, Hits, HitsOf,
   OfEvent, OnDevice, InTransport, Transported, vars, workerVars, deviceVars, statsVars, extractVars, hitVars
<1>1. ASSUME NEW w \in Workers, ProcessTrack(w) PROVE Hits'
  BY <1>1 DEF ProcessTrack, Goto
<1>2. ASSUME NEW w \in Workers, StoreTrack(w) PROVE Hits'
  BY <1>2 DEF StoreTrack, Goto
<1>3. ASSUME NEW w \in Workers, PublishTrack(w) PROVE Hits'
  BY <1>3 DEF PublishTrack, Goto
<1>4. ASSUME NEW w \in Workers, Flush(w) PROVE Hits'
  BY <1>4 DEF Flush, Goto
<1>5. ASSUME NEW w \in Workers, FlushTest(w) PROVE Hits'
  BY <1>5 DEF FlushTest, Goto
<1>6. ASSUME NEW w \in Workers, Wait(w) PROVE Hits'
  BY <1>6 DEF Wait, Goto
<1>7. ASSUME NEW w \in Workers, Return(w) PROVE Hits'
  BY <1>7 DEF Return, Goto
<1>8. CASE OuterLoop
  BY <1>8 DEF OuterLoop
<1>9. CASE WaitForWork
  BY <1>9 DEF WaitForWork
<1>10. CASE BeginIteration
  BY <1>10 DEF BeginIteration, AdvanceInjection, Advance, Move
<1>11. CASE CopyBuffer
  BY <1>11 DEF CopyBuffer, Move
<1>12. CASE Transport
  <2>1. PICK fate \in [At("current") -> {"next", "leaked", "gone"}],
              hits \in SUBSET {Owner(t) : t \in At("current")},
              mothers \in SUBSET At("current") : Launch(fate, hits, mothers)
    BY <1>12 DEF Transport
  <2>2. batchHits' = batchHits /\ batch' = batch /\ hpc' = hpc /\ overtaken' = overtaken /\ evt' = evt
    BY <1>12 DEF Transport
  <2>3. SUFFICES ASSUME NEW w \in Workers, strayed' \cap OfEvent(w)' = {}
                 PROVE  HitsOf(w)'
    BY <2>2 DEF Hits
  <2>4. strayed \cap OfEvent(w) = {}
    BY <2>1, <2>2, <2>3 DEF Launch, OfEvent
  <2>5. eventState'[w] \in {"FlushingHits", "HitsFlushed", "FlushingTracks", "DeviceFlushed"} =>
          eventState'[w] = eventState[w]
    BY <1>12 DEF Transport, Advance
  <2>6. ASSUME eventState'[w] \in {"FlushingHits", "HitsFlushed", "FlushingTracks",
     "DeviceFlushed"},
               <<w, evt[w]>> \in hits
        PROVE  FALSE
    <3>1. PICK t \in At("current") : Owner(t) = <<w, evt[w]>>
      BY <2>6, <2>1
    <3>2. t \in Tracks /\ place[t] = "current" /\ t[1] = w /\ t[2] = evt[w] /\ t \notin strayed
      BY <3>1, <2>4 DEF At, Owner
    <3> QED BY <3>2, <2>5, <2>6
  <2> QED BY <2>1, <2>2, <2>3, <2>4, <2>5, <2>6 DEF Launch
<1>13. CASE CollectLeaks
  BY <1>13 DEF CollectLeaks, StartExtraction, EndExtraction, FlushedState, Advance, Move
<1>14. CASE BlockedOnLeaks
  BY <1>14 DEF BlockedOnLeaks, StartExtraction, EndExtraction, FlushedState, Advance, Move
<1>15. CASE Decide
  <2>1. evt' = evt /\ strayed' = strayed /\ (hpc' = "advance" <=> hpc = "advance")
    BY <1>15 DEF Decide, NotifyHitThread
  <2>2. batch' = "none" => batchHits' = {}
    BY <1>15 DEF Decide
  <2>3. SUFFICES ASSUME NEW w \in Workers, strayed \cap OfEvent(w) = {}
                 PROVE  HitsOf(w)'
    BY <2>1, <2>2 DEF Hits
  <2>4. eventState'[w] \in {"FlushingHits", "HitsFlushed", "FlushingTracks", "DeviceFlushed"} =>
          \/ eventState[w] = eventState'[w]
          \/ /\ eventState'[w] = "FlushingHits" /\ ReadyToSwapBuffers
             /\ TransportFinished(eventState)[w] = "RequestHitFlush"
    BY <1>15 DEF Decide, AfterHitManagement, TransportFinished, Advance
  <2>5. CASE eventState[w] = eventState'[w]
    BY <2>1, <2>3, <2>5, <1>15 DEF Decide, ReadyToSwapBuffers
  <2>6. CASE TransportFinished(eventState)[w] = "RequestHitFlush" /\ ReadyToSwapBuffers
    <3>1. w \in {v \in Workers : TransportFinished(eventState)[v] = "RequestHitFlush"}
      BY <2>6
    <3>2. devHits' = {} /\ (hpc = "advance" => w \in overtaken') /\ eventState'[w] = "FlushingHits"
      BY <3>1, <2>6, <1>15 DEF Decide, AfterHitManagement, Advance
    <3> QED BY <3>2, <2>1
  <2>7. CASE eventState'[w] \notin {"FlushingHits", "HitsFlushed", "FlushingTracks",
     "DeviceFlushed"}
    BY <2>7
  <2> QED BY <2>4, <2>5, <2>6, <2>7
<1>16. CASE EndTransportLoop
  BY <1>16 DEF EndTransportLoop
<1>17. CASE StopHitThread
  BY <1>17 DEF StopHitThread, NotifyHitThread
<1>18. CASE FreeGPU
  BY <1>18 DEF FreeGPU
<1>19. CASE WaitAndTransfer
  BY <1>19 DEF WaitAndTransfer, AfterTransfer
<1>20. CASE ProcessBuffer
  BY <1>20 DEF ProcessBuffer, NotifyWorkers
<1>21. CASE AdvanceFlushedHits
  BY <1>21 DEF AdvanceFlushedHits, Advance
<1>22. CASE NotifyG4Workers
  BY <1>22 DEF NotifyG4Workers, NotifyWorkers
<1>23. CASE InjectCallback
  BY <1>23 DEF InjectCallback
<1>24. CASE ReturnTracksToG4
  BY <1>24 DEF ReturnTracksToG4, Move
<1>27. CASE ClearQueues
  BY <1>27 DEF ClearQueues, Move
<1>25. CASE WakeSpuriously
  BY <1>25 DEF WakeSpuriously, NotifyHitThread, Goto
<1>26. CASE UNCHANGED vars
  BY <1>26 DEF vars
<1> QED
  BY <1>1, <1>2, <1>3, <1>4, <1>5, <1>6, <1>7, <1>8, <1>9, <1>10, <1>11, <1>12, <1>13,
     <1>14, <1>15, <1>16, <1>17, <1>18, <1>19, <1>20, <1>21, <1>22, <1>23, <1>24, <1>25, <1>26, <1>27
        DEF Next, Worker, TransportThread, HitThread, Callback, Finished

-----------------------------------------------------------------------------
(* The invariant holds in every reachable state.                           *)
THEOREM InvariantHolds == Safety => []IInv
<1>1. IInv /\ [Next]_vars => IInv'
  BY TypesStep, WorkersStep, QueuesStep, StagesStep, HitsStep DEF IInv
<1> QED BY InitInvariant, <1>1, PTL DEF Safety

(* The variables have their types.                                         *)
THEOREM TypesHold == Safety => []TypeOK
BY InvariantHolds, PTL DEF IInv

(* For any number of workers, events and tracks, no event is declared      *)
(* transported while a track of it, stray ones aside, is still to come.    *)
THEOREM TransportIsOverHolds == Safety => []TransportIsOver
<1>1. IInv => TransportIsOver
  BY DEF IInv, Stages, Stage, TransportIsOver, OfEvent, OnDevice, InTransport
<1> QED BY InvariantHolds, <1>1, PTL

(* A flushed event has nothing left on the device: its worker finds all    *)
(* that leaked in the host buffer.                                         *)
THEOREM LeaksAreOnHostHolds == Safety => []LeaksAreOnHost
<1>1. IInv => LeaksAreOnHost
  BY DEF IInv, Stages, Stage, LeaksAreOnHost, OfEvent
<1> QED BY InvariantHolds, <1>1, PTL

(* Once its hits are flushed, an event without strays that was not         *)
(* overtaken has none in a hit buffer.                                     *)
THEOREM HitsAreQueuedHolds == Safety => []HitsAreQueued
<1>1. IInv => HitsAreQueued
  BY DEF IInv, Hits, HitsOf, HitsAreQueued
<1> QED BY InvariantHolds, <1>1, PTL

(* Hits leave the buffers for the queue of their worker only: no batch is  *)
(* overwritten by the next.                                                *)
THEOREM HitsAreNotLostHolds == Safety => HitsAreNotLost
<1>1. IInv /\ [Next]_vars => [HitsMoveOn]_vars
  <2> SUFFICES ASSUME IInv, Next PROVE HitsMoveOn
    OBVIOUS
  <2> USE DEF HitsMoveOn
  <2>1. CASE Transport
    BY <2>1 DEF Transport, Launch
  <2>2. CASE Decide
    BY <2>2 DEF Decide, ReadyToSwapBuffers, IInv, Hits
  <2>3. CASE ProcessBuffer
    BY <2>3 DEF ProcessBuffer
  <2>4. CASE devHits' = devHits /\ batchHits' = batchHits
    BY <2>4
  <2> QED
    BY <2>1, <2>2, <2>3, <2>4 DEF Next, Worker, TransportThread, HitThread, Callback, Finished,
       vars, extractVars,
       hitVars, ProcessTrack, StoreTrack, PublishTrack, Flush, FlushTest, Wait, Return, OuterLoop,
       WaitForWork, BeginIteration, CopyBuffer, CollectLeaks, BlockedOnLeaks, EndTransportLoop,
       StopHitThread, FreeGPU, WaitAndTransfer, AdvanceFlushedHits, NotifyG4Workers, InjectCallback,
       ReturnTracksToG4, ClearQueues, WakeSpuriously
<1> QED BY InvariantHolds, <1>1, PTL DEF HitsAreNotLost, Safety

(* The loop ends only when nothing but strays, and what a worker is about  *)
(* to announce, would be dropped.                                          *)
THEOREM NothingIsDroppedHolds == Safety => NothingIsDropped
<1>1. IInv /\ [Next]_vars => [StraysAreDropped]_vars
  <2> SUFFICES ASSUME IInv, EndTransportLoop, NEW t \in Tracks \ strayed,
                      place[t] # "gone", place'[t] = "gone"
               PROVE  wpc[t[1]] = "publishing"
    BY DEF StraysAreDropped
  <2>1. place[t] \in OnDevice /\ t[1] \in Workers
    BY TrackOwner DEF EndTransportLoop, OnDevice, InTransport
  <2>2. Stage(t[1], place[t])
    BY <2>1 DEF IInv, Stages
  <2>3. eventState[t[1]] \in {"LeakedTracksRetrieved", "ScoringRetrieved"}
    BY <2>1 DEF EndTransportLoop, LoopContinues, needTransport
  <2> QED BY <2>2, <2>3 DEF Stage
<1> QED BY InvariantHolds, <1>1, PTL DEF NothingIsDropped, Safety
-----------------------------------------------------------------------------
(* The device works on what it owes, but takes on no new debts.            *)
LEMMA Works ==
  ASSUME phase' = phase, \A w \in Workers : owed[w] = {} => owed'[w] = {}
  PROVE  [Service!Next]_(Service!vars)
<1>1. owed' \in [Workers -> SUBSET Tracks]
  BY DEF owed
<1> QED BY <1>1 DEF Service!Next, Service!Work

(* Nothing changes for the service.                                        *)
LEMMA Stutters ==
  ASSUME phase' = phase, owed' = owed
  PROVE  [Service!Next]_(Service!vars)
BY DEF Service!vars

(* The events of an extraction that ends are owed nothing.                 *)
LEMMA Serves ==
  ASSUME IInv, EndExtraction, UNCHANGED strayed
  PROVE  [Service!Next]_(Service!vars)
<1> DEFINE W == {w \in Workers : eventState[w] = "FlushingTracks"}
<1>1. owed' = owed
  BY DEF EndExtraction, owed
<1>2. ASSUME NEW w \in W PROVE phase[w] = "requested" /\ owed[w] = {}
  <2>1. \A t \in Tracks \ strayed : t[1] = w => place[t] \notin OnDevice
    BY <1>2 DEF IInv, Stages, Stage, Queues, InQueue, EndExtraction
  <2> QED BY <1>2, <2>1 DEF phase, owed
<1>3. phase' = [w \in Workers |-> IF w \in W THEN "served" ELSE phase[w]]
  BY DEF phase, EndExtraction, FlushedState, Advance
<1> HIDE DEF W
<1>4. W \in SUBSET Workers
  BY DEF W
<1> QED BY <1>1, <1>2, <1>3, <1>4 DEF Service!Next, Service!Serve


(* Every step is a step of the flush service, or none.                     *)
LEMMA ServiceStep == IInv /\ [Next]_vars => [Service!Next]_(Service!vars)
<1> SUFFICES ASSUME IInv, [Next]_vars PROVE [Service!Next]_(Service!vars)
  OBVIOUS
<1> USE DEF IInv, TypeOK, OnDevice, vars, workerVars, deviceVars, statsVars, extractVars, hitVars
<1>1. ASSUME NEW w \in Workers, ProcessTrack(w) PROVE [Service!Next]_(Service!vars)
  <2>1. phase' = phase
    BY <1>1 DEF ProcessTrack, Goto, phase
  <2>2. owed' = owed
    BY <1>1 DEF ProcessTrack, Goto, NextId, owed, InTransport
  <2> QED BY <2>1, <2>2, Stutters
<1>2. ASSUME NEW w \in Workers, StoreTrack(w) PROVE [Service!Next]_(Service!vars)
  <2>1. phase' = phase
    BY <1>2 DEF StoreTrack, phase
  <2>2. phase[w] = "open"
    BY <1>2 DEF StoreTrack, WorkerStates, phase
  <2>3. CASE place' = place /\ strayed' = strayed
    BY <2>1, <2>3, Stutters DEF owed
  <2>4. CASE place' # place \/ strayed' # strayed
    <3>1. PICK t \in At("held") \cap OfEvent(w) :
            /\ place' = [place EXCEPT ![t] = ToDevice[buf[w]]]
            /\ strayed' \in {strayed, strayed \cup {t}}
      BY <2>4, <1>2 DEF StoreTrack
    <3>2. t \in Tracks /\ t[1] = w /\ place[t] = "held" /\ place'[t] \in OnDevice
      BY <3>1 DEF At, OfEvent, ToDevice, InTransport
    <3>3. \A u \in Tracks \ {t} : place'[u] = place[u] /\ (u \in strayed' <=> u \in strayed)
      BY <3>1
    <3>4. \A v \in Workers \ {w} : owed'[v] = owed[v]
      BY <3>2, <3>3 DEF owed
    <3>5. owed'[w] = owed[w] \/ owed'[w] = owed[w] \cup {t}
      <4>1. CASE t \in strayed'
        <5>1. owed'[w] = owed[w]
          BY <3>2, <3>3, <4>1 DEF owed, InTransport
        <5> QED BY <5>1
      <4>2. CASE t \notin strayed'
        <5>1. owed'[w] = owed[w] \cup {t}
          BY <3>2, <3>3, <4>2 DEF owed
        <5> QED BY <5>1
      <4> QED BY <4>1, <4>2
    <3>6. CASE owed'[w] = owed[w]
      <4>1. owed' = owed
        BY <3>4, <3>6 DEF owed
      <4> QED BY <2>1, <4>1, Stutters
    <3>7. CASE owed'[w] = owed[w] \cup {t}
      <4>1. owed' = [owed EXCEPT ![w] = owed[w] \cup {t}]
        BY <3>4, <3>7 DEF owed
      <4> QED BY <2>1, <2>2, <3>2, <4>1 DEF Service!Next, Service!Submit
    <3> QED BY <3>5, <3>6, <3>7
  <2> QED BY <2>3, <2>4
<1>3. ASSUME NEW w \in Workers, PublishTrack(w) PROVE [Service!Next]_(Service!vars)
  <2>1. phase' = phase
    BY <1>3 DEF PublishTrack, Goto, WorkerStates, phase
  <2>2. owed' = owed
    BY <1>3 DEF PublishTrack, Goto, owed, InTransport
  <2> QED BY <2>1, <2>2, Stutters
<1>4. ASSUME NEW w \in Workers, Flush(w) PROVE [Service!Next]_(Service!vars)
  <2>1. owed' = owed
    BY <1>4 DEF Flush, owed
  <2>2. eventState[w] \in {"ScoringRetrieved", "NewTracksFromG4"}
    BY <1>4 DEF Flush, WorkerStates
  <2>3. phase[w] = "open" /\ phase' = [phase EXCEPT ![w] = "requested"]
    BY <2>2, <1>4 DEF Flush, phase
  <2> QED BY <2>1, <2>3 DEF Service!Next, Service!Request
<1>5. ASSUME NEW w \in Workers, FlushTest(w) PROVE [Service!Next]_(Service!vars)
  <2>1. owed' = owed
    BY <1>5 DEF FlushTest, owed, InTransport
  <2>2. CASE eventState[w] # "DeviceFlushed"
    BY <2>1, <2>2, <1>5, Stutters DEF FlushTest, phase
  <2>3. CASE eventState[w] = "DeviceFlushed"
    <3>1. phase[w] = "served" /\ phase' = [phase EXCEPT ![w] = "open"]
      BY <2>3, <1>5 DEF FlushTest, phase
    <3> QED BY <2>1, <3>1 DEF Service!Next, Service!Collect
  <2> QED BY <2>2, <2>3
<1>6. ASSUME NEW w \in Workers, Wait(w) PROVE [Service!Next]_(Service!vars)
  <2>1. phase' = phase
    BY <1>6 DEF Wait, Goto, phase
  <2>2. owed' = owed
    BY <1>6 DEF Wait, Goto, owed, InTransport
  <2> QED BY <2>1, <2>2, Stutters
<1>7. ASSUME NEW w \in Workers, Return(w) PROVE [Service!Next]_(Service!vars)
  <2>1. phase' = phase
    BY <1>7 DEF Return, Goto, WorkerStates, phase
  <2>2. owed' = owed
    BY <1>7 DEF Return, Goto, owed, InTransport
  <2> QED BY <2>1, <2>2, Stutters
<1>8. CASE OuterLoop
  <2>1. phase' = phase
    BY <1>8 DEF OuterLoop, phase
  <2>2. owed' = owed
    BY <1>8 DEF OuterLoop, owed, InTransport
  <2> QED BY <2>1, <2>2, Stutters
<1>9. CASE WaitForWork
  <2>1. phase' = phase
    BY <1>9 DEF WaitForWork, phase
  <2>2. owed' = owed
    BY <1>9 DEF WaitForWork, owed, InTransport
  <2> QED BY <2>1, <2>2, Stutters
<1>10. CASE BeginIteration
  <2>1. phase' = phase
    BY <1>10 DEF BeginIteration, AdvanceInjection, Advance, Move, phase
  <2>2. owed' = owed
    BY <1>10 DEF BeginIteration, AdvanceInjection, Advance, Move, owed, InTransport
  <2> QED BY <2>1, <2>2, Stutters
<1>11. CASE CopyBuffer
  <2>1. phase' = phase
    BY <1>11 DEF CopyBuffer, Move, phase
  <2>2. owed' = owed
    BY <1>11 DEF CopyBuffer, Move, ToDevice, owed, InTransport
  <2> QED BY <2>1, <2>2, Stutters
<1>12. CASE Transport
  <2>1. PICK fate \in [At("current") -> {"next", "leaked", "gone"}],
              hits \in SUBSET {Owner(t) : t \in At("current")},
              mothers \in SUBSET At("current") : Launch(fate, hits, mothers)
    BY <1>12 DEF Transport
  <2>2. phase' = phase
    BY <1>12 DEF Transport, Advance, phase
  <2>3. ASSUME NEW w \in Workers, owed[w] = {}, NEW t \in owed'[w] PROVE FALSE
    <3>1. t \in Tracks /\ t \notin strayed' /\ t[1] = w /\ place'[t] \in OnDevice /\ t \notin strayed
      BY <2>1, <2>3 DEF owed, Launch
    <3>2. place[t] \notin OnDevice
      BY <2>3, <3>1 DEF owed
    <3>3. t \in Secondaries(mothers)
      BY <2>1, <3>1, <3>2 DEF Launch, Enqueued, At, InTransport
    <3>4. PICK m \in mothers \ strayed : t \in NextId(m[1], m[2])
      BY <2>1, <3>1, <3>3 DEF Launch, Secondaries
    <3>5. m \in Tracks \ strayed /\ m[1] = w /\ place[m] \in OnDevice
      BY <3>1, <3>4 DEF NextId, Owner, At, InTransport
    <3> QED BY <2>3, <3>5 DEF owed
  <2> QED BY <2>2, <2>3, Works
<1>13. CASE CollectLeaks
  <2>1. CASE EndExtraction
    BY <2>1, <1>13, Serves DEF CollectLeaks
  <2>2. CASE StartExtraction
    <3>1. phase' = phase
      BY <2>2, <1>13 DEF CollectLeaks, StartExtraction, Advance, phase
    <3>2. owed' = owed
      BY <2>2, <1>13 DEF CollectLeaks, StartExtraction, Move, owed
    <3> QED BY <3>1, <3>2, Stutters
  <2>3. CASE UNCHANGED <<eventState, place>>
    BY <2>3, <1>13, Stutters DEF CollectLeaks, phase, owed
  <2> QED BY <2>1, <2>2, <2>3, <1>13 DEF CollectLeaks
<1>14. CASE BlockedOnLeaks
  <2>1. CASE EndExtraction
    BY <2>1, <1>14, Serves DEF BlockedOnLeaks
  <2>2. CASE StartExtraction
    <3>1. phase' = phase
      BY <2>2, <1>14 DEF BlockedOnLeaks, StartExtraction, Advance, phase
    <3>2. owed' = owed
      BY <2>2, <1>14 DEF BlockedOnLeaks, StartExtraction, Move, owed
    <3> QED BY <3>1, <3>2, Stutters
  <2> QED BY <2>1, <2>2, <1>14 DEF BlockedOnLeaks
<1>15. CASE Decide
  <2>1. phase' = phase
    BY <1>15 DEF Decide, TransportFinished, AfterHitManagement, NotifyHitThread,
       ReadyToSwapBuffers, Advance, phase
  <2>2. owed' = owed
    BY <1>15 DEF Decide, TransportFinished, AfterHitManagement, NotifyHitThread,
       ReadyToSwapBuffers, Advance, owed, InTransport
  <2> QED BY <2>1, <2>2, Stutters
<1>16. CASE EndTransportLoop
  <2>1. phase' = phase
    BY <1>16 DEF EndTransportLoop, phase
  <2>2. \A w \in Workers : owed[w] = {} => owed'[w] = {}
    BY <1>16 DEF EndTransportLoop, owed, InTransport
  <2> QED BY <2>1, <2>2, Works
<1>17. CASE StopHitThread
  <2>1. phase' = phase
    BY <1>17 DEF StopHitThread, NotifyHitThread, phase
  <2>2. owed' = owed
    BY <1>17 DEF StopHitThread, NotifyHitThread, owed, InTransport
  <2> QED BY <2>1, <2>2, Stutters
<1>18. CASE FreeGPU
  <2>1. phase' = phase
    BY <1>18 DEF FreeGPU, phase
  <2>2. owed' = owed
    BY <1>18 DEF FreeGPU, owed, InTransport
  <2> QED BY <2>1, <2>2, Stutters
<1>19. CASE WaitAndTransfer
  <2>1. phase' = phase
    BY <1>19 DEF WaitAndTransfer, AfterTransfer, phase
  <2>2. owed' = owed
    BY <1>19 DEF WaitAndTransfer, AfterTransfer, owed, InTransport
  <2> QED BY <2>1, <2>2, Stutters
<1>20. CASE ProcessBuffer
  <2>1. phase' = phase
    BY <1>20 DEF ProcessBuffer, NotifyWorkers, phase
  <2>2. owed' = owed
    BY <1>20 DEF ProcessBuffer, NotifyWorkers, owed, InTransport
  <2> QED BY <2>1, <2>2, Stutters
<1>21. CASE AdvanceFlushedHits
  <2>1. phase' = phase
    BY <1>21 DEF AdvanceFlushedHits, Advance, phase
  <2>2. owed' = owed
    BY <1>21 DEF AdvanceFlushedHits, Advance, owed, InTransport
  <2> QED BY <2>1, <2>2, Stutters
<1>22. CASE NotifyG4Workers
  <2>1. phase' = phase
    BY <1>22 DEF NotifyG4Workers, NotifyWorkers, phase
  <2>2. owed' = owed
    BY <1>22 DEF NotifyG4Workers, NotifyWorkers, owed, InTransport
  <2> QED BY <2>1, <2>2, Stutters
<1>23. CASE InjectCallback
  <2>1. phase' = phase
    BY <1>23 DEF InjectCallback, phase
  <2>2. owed' = owed
    BY <1>23 DEF InjectCallback, owed, InTransport
  <2> QED BY <2>1, <2>2, Stutters
<1>24. CASE ReturnTracksToG4
  <2>1. phase' = phase
    BY <1>24 DEF ReturnTracksToG4, Move, phase
  <2>2. \A w \in Workers : owed[w] = {} => owed'[w] = {}
    BY <1>24 DEF ReturnTracksToG4, Move, owed, InTransport
  <2> QED BY <2>1, <2>2, Works
<1>27. CASE ClearQueues
  <2>1. phase' = phase
    BY <1>27 DEF ClearQueues, Move, phase
  <2>2. \A w \in Workers : owed[w] = {} => owed'[w] = {}
    BY <1>27 DEF ClearQueues, Move, owed, InTransport
  <2> QED BY <2>1, <2>2, Works
<1>25. CASE WakeSpuriously
  <2>1. phase' = phase
    BY <1>25 DEF WakeSpuriously, NotifyHitThread, Goto, phase
  <2>2. owed' = owed
    BY <1>25 DEF WakeSpuriously, NotifyHitThread, Goto, owed, InTransport
  <2> QED BY <2>1, <2>2, Stutters
<1>26. CASE UNCHANGED vars
  BY <1>26, Stutters DEF vars, phase, owed
<1> QED
  BY <1>1, <1>2, <1>3, <1>4, <1>5, <1>6, <1>7, <1>8, <1>9, <1>10, <1>11, <1>12, <1>13,
     <1>14, <1>15, <1>16, <1>17, <1>18, <1>19, <1>20, <1>21, <1>22, <1>23, <1>24, <1>25, <1>26, <1>27
        DEF Next, Worker, TransportThread, HitThread, Callback, Finished

(* The event life cycle implements the flush service: a flush is answered  *)
(* once the device owes nothing to the worker, strays aside, and nothing   *)
(* comes to be owed while it waits.                                        *)
THEOREM FlushServiceIsImplemented == Safety => ImplementsFlushService
<1>1. Init => Service!Init
  BY DEF Init, Service!Init, phase, owed, OnDevice, InTransport
<1> QED BY <1>1, InvariantHolds, ServiceStep, PTL DEF Safety, ImplementsFlushService, Service!Spec

=============================================================================
