---------------------------- MODULE LeakExtraction ----------------------------
(* How the transport thread brings leaked tracks to the host: two sets of  *)
(* leak queues, one filled by the kernels while the other is emptied       *)
(* through a staging buffer of limited size, and the chain of extractState *)
(* between the thread and the host functions on extractStream.  The thread *)
(* goes ahead of the device: a kernel, the statistics and what is launched *)
(* on extractStream run when their streams get to them.  AsyncTransport    *)
(* takes all this as one step.                                             *)
EXTENDS FiniteSets, Integers, SequencesExt

CONSTANTS
  Workers,
  Tracks,             (* <<worker, type, number>>                          *)
  LeakCapacity,       (* of a leak queue                                   *)
  NumFromDevice       (* fNumFromDevice: the size of the staging buffer    *)

Types == {"gamma", "electron", "positron"}

ASSUME LeakExtractionAssumption ==
  /\ IsFiniteSet(Tracks) /\ \A t \in Tracks : t[1] \in Workers /\ t[2] \in Types
  /\ LeakCapacity \in Nat \ {0} /\ NumFromDevice \in Nat \ {0}

VARIABLES
  eventState,
  nextActive, currentlyActive,    (* the tracks in the queues of the kernels *)
  kernels,            (* the leak queues of the kernels launched, in order *)
  todo,               (* what the first of them has yet to step            *)
  leakQueue,          (* set -> type -> the tracks pushed, in order        *)
  current,            (* which set the host calls leakedTracksCurrent      *)
  counting,           (* the set whose sizes the statistics count, or -1   *)
  nLeakedCurrent,     (* host: the types that were over the threshold      *)
  tpc, step,          (* transport thread, and how far its pass has come   *)
  leakQueueNeedsTransfer, leakExtractionNeeded,
  extractState, allLeaked, fNumLeaksTransferred,
  extractStream,      (* what was launched on it and is not done, in order *)
  transportEvents,    (* kernels extractStream waits for                   *)
  fromDevice_dev, fromDevice_host, nRemainingLeaks,
  fromDeviceBuffers,  (* worker -> how often each track is in its buffer,  *)
                      (* which Flush sorts before it returns the tracks    *)
  trapped,            (* a leak queue was full: the kernel traps           *)
  leaked, extracted, wiped      (* history: the leaks of the events, how   *)
                      (* many entries of a queue have been extracted, and  *)
                      (* leaks that were cleared without                   *)

kernelVars == <<nextActive, currentlyActive, kernels, todo, trapped, leaked>>
historyVars == <<extracted, wiped>>
threadVars == <<tpc, step, leakQueueNeedsTransfer, leakExtractionNeeded>>
extractVars == <<allLeaked, fNumLeaksTransferred, transportEvents>>
stagingVars == <<fromDevice_dev, fromDevice_host, nRemainingLeaks>>
vars == <<eventState, kernelVars, leakQueue, current, counting, nLeakedCurrent, threadVars,
          extractState, extractVars, extractStream, stagingVars, fromDeviceBuffers, historyVars>>

EventStates == {"InjectionCompleted", "Transporting", "WaitingForTransportToFinish",
                "RequestHitFlush", "HitsFlushed", "FlushingTracks", "DeviceFlushed",
                "LeakedTracksRetrieved"}
Empty == [type \in Types |-> <<>>]
Nothing == [type \in Types |-> 0]
NoTracks == [t \in Tracks |-> 0]

Init ==
  /\ eventState = [w \in Workers |-> "LeakedTracksRetrieved"]
  /\ nextActive = {} /\ currentlyActive = {} /\ kernels = <<>> /\ todo = {}
  /\ leakQueue = [q \in {0, 1} |-> Empty] /\ current = 0
  /\ counting = -1 /\ nLeakedCurrent = {}
  /\ tpc = "launch" /\ step = 1 /\ leakQueueNeedsTransfer = FALSE /\ leakExtractionNeeded = FALSE
  /\ extractState = "Idle" /\ allLeaked = 0 /\ fNumLeaksTransferred = 0
  /\ extractStream = <<>> /\ transportEvents = 0
  /\ fromDevice_dev = <<>> /\ fromDevice_host = <<>> /\ nRemainingLeaks = 0
  /\ fromDeviceBuffers = [w \in Workers |-> NoTracks]
  /\ trapped = FALSE
  /\ leaked = {} /\ extracted = [q \in {0, 1} |-> Nothing] /\ wiped = {}

Of(w) == {t \in Tracks : t[1] = w}
Advance(old, new) == [w \in Workers |-> IF eventState[w] = old THEN new ELSE eventState[w]]

-----------------------------------------------------------------------------
(* Workers and hit thread.                                                 *)

(* The tracks of a new event are injected and enqueued.                    *)
InjectEvent(w) ==
  /\ eventState[w] = "LeakedTracksRetrieved"
  /\ nextActive' = nextActive \cup Of(w)
  /\ eventState' = [eventState EXCEPT ![w] = "InjectionCompleted"]
  /\ UNCHANGED <<currentlyActive, kernels, todo, trapped, leaked, leakQueue, current, counting,
                 nLeakedCurrent, threadVars, extractState, extractVars, extractStream,
                 stagingVars, fromDeviceBuffers, historyVars>>

(* The hits of the event are on the host (HitScoring).                     *)
FlushHits(w) ==
  /\ eventState[w] = "RequestHitFlush"
  /\ eventState' = [eventState EXCEPT ![w] = "HitsFlushed"]
  /\ UNCHANGED <<kernelVars, leakQueue, current, counting, nLeakedCurrent, threadVars,
                 extractState, extractVars, extractStream, stagingVars, fromDeviceBuffers, historyVars>>

RetrieveTracks(w) ==
  /\ eventState[w] = "DeviceFlushed"
  /\ eventState' = [eventState EXCEPT ![w] = "LeakedTracksRetrieved"]
  /\ fromDeviceBuffers' = [fromDeviceBuffers EXCEPT ![w] = NoTracks]
  /\ leaked' = leaked \ Of(w) /\ wiped' = wiped \ Of(w)
  /\ UNCHANGED <<nextActive, currentlyActive, kernels, todo, trapped, leakQueue, current,
                 counting, nLeakedCurrent, threadVars, extractState, extractVars, extractStream,
                 stagingVars, extracted>>

-----------------------------------------------------------------------------
(* Device: the kernels, one iteration's after the other's.                 *)

(* The queues are swapped for the kernels that now come first, with those  *)
(* that survived the ones before.  Kernels without tracks end at once.     *)
StartKernels(launched, survivors) ==
  /\ kernels' = IF survivors = {} THEN <<>> ELSE launched
  /\ nextActive' = {} /\ currentlyActive' = survivors /\ todo' = survivors

Stepped(t, survivors) ==
  \/ /\ todo # {t} /\ nextActive' = survivors /\ todo' = todo \ {t}
     /\ UNCHANGED <<kernels, currentlyActive, transportEvents>>
  \/ /\ todo = {t} /\ transportEvents' = 0
     /\ Len(kernels) = 1 /\ kernels' = <<>>
     /\ nextActive' = survivors /\ todo' = {} /\ UNCHANGED currentlyActive
  \/ /\ todo = {t} /\ Len(kernels) > 1 /\ StartKernels(Tail(kernels), survivors)
     /\ transportEvents' = IF kernels' = <<>> \/ transportEvents = 0 THEN 0
                           ELSE transportEvents - 1

(* One track survives, leaks or dies.                                      *)
StepTrack(t) ==
  /\ t \in todo
  /\ \/ Stepped(t, nextActive \cup {t}) /\ UNCHANGED <<leakQueue, trapped, leaked>>
     \/ LET q == kernels[1]  full == Len(leakQueue[q][t[2]]) = LeakCapacity IN
        /\ Stepped(t, nextActive) /\ leaked' = leaked \cup {t} /\ trapped' = full
        /\ leakQueue' = IF full THEN leakQueue
                        ELSE [leakQueue EXCEPT ![q][t[2]] = Append(@, t)]
     \/ Stepped(t, nextActive) /\ UNCHANGED <<leakQueue, trapped, leaked>>
  /\ UNCHANGED <<eventState, current, counting, nLeakedCurrent, threadVars, extractState,
                 allLeaked, fNumLeaksTransferred, extractStream, stagingVars, fromDeviceBuffers,
                 historyVars>>

-----------------------------------------------------------------------------
(* Transport thread.                                                       *)
NeedsTransport(w) == eventState[w] # "LeakedTracksRetrieved"
LoopContinues ==
  nextActive \cup todo # {} \/ extractState # "Idle" \/ \E w \in Workers : NeedsTransport(w)

(* Types whose leak queue is over the threshold; counted when the kernels  *)
(* of the iteration before are done.                                       *)
CountLeakedTracks(q) == {type \in Types : 2 * Len(leakQueue[q][type]) > LeakCapacity}

(* SwapActive, the kernels, and whether leaks are to be extracted.  The    *)
(* statistics of this iteration may or may not be on the host already.     *)
LaunchKernels ==
  /\ tpc = "launch" /\ LoopContinues /\ tpc' = "request"
  /\ IF kernels = <<>> THEN StartKernels(<<current>>, nextActive)
     ELSE kernels' = Append(kernels, current) /\ UNCHANGED <<nextActive, currentlyActive, todo>>
  /\ \/ counting' = current /\ UNCHANGED nLeakedCurrent
     \/ counting' = -1 /\ Len(kernels') <= 1 /\ nLeakedCurrent' = CountLeakedTracks(current)
  /\ leakQueueNeedsTransfer' = (nLeakedCurrent' # {})
  /\ leakExtractionNeeded' =
       (leakQueueNeedsTransfer' \/ \E w \in Workers : eventState[w] = "HitsFlushed")
  /\ eventState' = [w \in Workers |->
       CASE eventState[w] = "Transporting" -> "WaitingForTransportToFinish"
         [] eventState[w] = "InjectionCompleted" -> "Transporting"
         [] OTHER -> eventState[w]]
  /\ UNCHANGED <<trapped, leaked, leakQueue, current, step, extractState, extractVars,
                 extractStream, stagingVars, fromDeviceBuffers, historyVars>>

AdvanceExtractState(old, new) == extractState = old /\ extractState' = new
Launch(op) == extractStream' = Append(extractStream, op)

RequestExtraction ==
  /\ tpc = "request" /\ leakExtractionNeeded
  /\ AdvanceExtractState("Idle", "ExtractionRequested")
  /\ tpc' = "pass" /\ leakExtractionNeeded' = FALSE
  /\ eventState' = Advance("HitsFlushed", "FlushingTracks")
  /\ fNumLeaksTransferred' = 0 /\ allLeaked' = current /\ transportEvents' = Len(kernels)
  /\ Launch(<<"request">>)
  /\ current' = 1 - current
  /\ UNCHANGED <<step, kernelVars, leakQueue, counting, nLeakedCurrent, leakQueueNeedsTransfer,
                 stagingVars, fromDeviceBuffers, historyVars>>

(* An extraction is in progress: transport goes on, unless it is blocked.  *)
NoRequest ==
  /\ tpc = "request" /\ tpc' = "pass"
  /\ ~leakExtractionNeeded \/ extractState # "Idle"
  /\ leakExtractionNeeded' = (leakExtractionNeeded /\ leakQueueNeedsTransfer)
  /\ UNCHANGED <<step, eventState, kernelVars, leakQueue, current, counting, nLeakedCurrent,
                 leakQueueNeedsTransfer, extractState, extractVars, extractStream, stagingVars,
                 fromDeviceBuffers, historyVars>>

(* The rest of a pass: in this order, what extractState allows.            *)
Awaited == <<"TracksNeedTransfer", "TracksReadyToCopy", "TracksOnHost", "TracksSaved">>

PassStep(k, next) ==
  /\ tpc = "pass" /\ step <= k /\ step' = k + 1
  /\ AdvanceExtractState(Awaited[k], next)
  /\ UNCHANGED <<tpc, kernelVars, leakQueue, current, counting, nLeakedCurrent,
                 leakQueueNeedsTransfer, leakExtractionNeeded, allLeaked, transportEvents,
                 stagingVars, fromDeviceBuffers, wiped>>

PrepareTracks ==
  /\ PassStep(1, "PreparingTracks")
  /\ Launch(<<"fill">>) /\ UNCHANGED <<eventState, fNumLeaksTransferred, extracted>>

CopyTracks ==
  /\ PassStep(2, "CopyingTracks")
  /\ Launch(<<"copy">>) /\ UNCHANGED <<eventState, fNumLeaksTransferred, extracted>>

SaveTracks ==
  /\ PassStep(3, "SavingTracks")
  /\ fNumLeaksTransferred' = fNumLeaksTransferred + Len(fromDevice_host)
  /\ Launch(<<"save">>) /\ UNCHANGED <<eventState, extracted>>

(* With nothing left, the queues are cleared, when extractStream gets to   *)
(* it, and the next extraction may begin at once.                          *)
EndExtraction ==
  /\ nRemainingLeaks = 0 /\ PassStep(4, "Idle")
  /\ Launch(<<"clear", allLeaked>>)
  /\ eventState' = Advance("FlushingTracks", "DeviceFlushed")
  /\ extracted' = [extracted EXCEPT ![allLeaked] =
                     [type \in Types |-> Len(leakQueue[allLeaked][type])]]
  /\ UNCHANGED fNumLeaksTransferred

ExtractMore ==
  /\ nRemainingLeaks # 0 /\ PassStep(4, "TracksNeedTransfer")
  /\ UNCHANGED <<eventState, extractStream, fNumLeaksTransferred, extracted>>

PassEnds == tpc = "pass" /\ step' = 1 /\ \A k \in step .. 4 : extractState # Awaited[k]

(* Blocked, the thread makes one pass after the other.                     *)
Blocked ==
  /\ PassEnds /\ leakExtractionNeeded /\ tpc' = "request"
  /\ UNCHANGED <<eventState, kernelVars, leakQueue, current, counting, nLeakedCurrent,
                 leakQueueNeedsTransfer, leakExtractionNeeded, extractState, extractVars,
                 extractStream, stagingVars, fromDeviceBuffers, historyVars>>

(* An event's tracks in the queues that the kernels have worked on.        *)
CountCurrentPopulation(w) == Cardinality(currentlyActive \cap Of(w))

(* When the statistics are there, on to the next iteration.                *)
Decide ==
  /\ PassEnds /\ ~leakExtractionNeeded /\ tpc' = "launch" /\ Len(kernels) <= 1
  /\ leakQueueNeedsTransfer' = FALSE /\ counting' = -1
  /\ nLeakedCurrent' = IF counting = -1 THEN nLeakedCurrent ELSE CountLeakedTracks(counting)
  /\ eventState' = [w \in Workers |->
       IF eventState[w] = "WaitingForTransportToFinish" /\ CountCurrentPopulation(w) = 0
       THEN "RequestHitFlush" ELSE eventState[w]]
  /\ UNCHANGED <<kernelVars, leakQueue, current, leakExtractionNeeded, extractState, extractVars,
                 extractStream, stagingVars, fromDeviceBuffers, historyVars>>

(* ClearAllQueues waits for the kernels, not for extractStream.            *)
EndTransportLoop ==
  /\ tpc = "launch" /\ ~LoopContinues /\ kernels = <<>>
  /\ leakQueue' = [q \in {0, 1} |-> Empty] /\ extracted' = [q \in {0, 1} |-> Nothing]
  /\ UNCHANGED <<eventState, kernelVars, current, counting, nLeakedCurrent, threadVars,
                 extractState, extractVars, extractStream, stagingVars, fromDeviceBuffers, wiped>>

-----------------------------------------------------------------------------
(* extractStream does what was launched on it, one after the other.        *)
StreamOp(op) ==
  /\ extractStream # <<>> /\ extractStream[1][1] = op
  /\ extractStream' = Tail(extractStream)
  /\ UNCHANGED <<eventState, kernelVars, current, counting, nLeakedCurrent, threadVars,
                 extractVars>>

TransportHasFinished ==
  /\ transportEvents = 0 /\ StreamOp("request")
  /\ AdvanceExtractState("ExtractionRequested", "TracksNeedTransfer")
  /\ UNCHANGED <<leakQueue, stagingVars, fromDeviceBuffers, historyVars>>

(* The index of the leaks runs over the three queues, one after the other. *)
Leaks(q) == leakQueue[q]["gamma"] \o leakQueue[q]["electron"] \o leakQueue[q]["positron"]
NumToCopy(total) == IF total < NumFromDevice THEN total ELSE NumFromDevice
RemainingMutant(leaks) == Len(leaks) - NumToCopy(Len(leaks) - fNumLeaksTransferred)
Remaining(leaks) ==
  Len(leaks) - fNumLeaksTransferred - NumToCopy(Len(leaks) - fNumLeaksTransferred)
StagedMutant(leaks) == SubSeq(leaks, 1, NumToCopy(Len(leaks) - fNumLeaksTransferred))
Staged(leaks) ==
  SubSeq(leaks, fNumLeaksTransferred + 1,
         fNumLeaksTransferred + NumToCopy(Len(leaks) - fNumLeaksTransferred))

FillFromDeviceBuffer ==
  /\ StreamOp("fill") /\ AdvanceExtractState("PreparingTracks", "TracksReadyToCopy")
  /\ fromDevice_dev' = Staged(Leaks(allLeaked)) /\ nRemainingLeaks' = Remaining(Leaks(allLeaked))
  /\ UNCHANGED <<leakQueue, fromDevice_host, fromDeviceBuffers, historyVars>>

CopyToHost ==
  /\ StreamOp("copy") /\ AdvanceExtractState("CopyingTracks", "TracksOnHost")
  /\ fromDevice_host' = fromDevice_dev /\ fromDevice_dev' = <<>>
  /\ UNCHANGED <<leakQueue, nRemainingLeaks, fromDeviceBuffers, historyVars>>

Copies(staged, t) == Cardinality({i \in DOMAIN staged : staged[i] = t})

ReturnTracksToG4 ==
  /\ StreamOp("save") /\ AdvanceExtractState("SavingTracks", "TracksSaved")
  /\ fromDeviceBuffers' = [w \in Workers |-> [t \in Tracks |->
       fromDeviceBuffers[w][t] + IF t[1] = w THEN Copies(fromDevice_host, t) ELSE 0]]
  /\ fromDevice_host' = <<>>
  /\ UNCHANGED <<leakQueue, fromDevice_dev, nRemainingLeaks, historyVars>>

(* What came into the queues since they were extracted goes as well.       *)
ClearQueues ==
  /\ StreamOp("clear") /\ UNCHANGED extractState
  /\ LET q == extractStream[1][2]
         lost(type) == SubSeq(leakQueue[q][type], extracted[q][type] + 1, Len(leakQueue[q][type]))
     IN /\ wiped' = wiped \cup UNION {ToSet(lost(type)) : type \in Types}
        /\ leakQueue' = [leakQueue EXCEPT ![q] = Empty]
        /\ extracted' = [extracted EXCEPT ![q] = Nothing]
  /\ UNCHANGED <<stagingVars, fromDeviceBuffers>>

-----------------------------------------------------------------------------
Kernels == \E t \in Tracks : StepTrack(t)
TransportThread ==
  \/ LaunchKernels \/ RequestExtraction \/ NoRequest \/ PrepareTracks \/ CopyTracks \/ SaveTracks
  \/ EndExtraction \/ ExtractMore \/ Blocked \/ Decide \/ EndTransportLoop
Stream ==
  TransportHasFinished \/ FillFromDeviceBuffer \/ CopyToHost \/ ReturnTracksToG4 \/ ClearQueues

(* A trap ends the program.                                                *)
Next ==
  /\ ~trapped
  /\ \/ \E w \in Workers : InjectEvent(w) \/ FlushHits(w) \/ RetrieveTracks(w)
     \/ Kernels \/ TransportThread \/ Stream

(* The transport thread runs, and so does whatever is on a stream.         *)
Spec ==
  /\ Init /\ [][Next]_vars
  /\ WF_vars(~trapped /\ Kernels) /\ WF_vars(~trapped /\ TransportThread)
  /\ WF_vars(~trapped /\ Stream)

-----------------------------------------------------------------------------
(* The variables hold what they are declared for.                          *)
TypeOK ==
  /\ eventState \in [Workers -> EventStates]
  /\ nextActive \subseteq Tracks /\ todo \subseteq currentlyActive /\ currentlyActive \subseteq Tracks
  /\ Len(kernels) <= 2 /\ ToSet(kernels) \subseteq {0, 1}
  /\ \A q \in {0, 1}, type \in Types : /\ ToSet(leakQueue[q][type]) \subseteq Tracks
                                       /\ Len(leakQueue[q][type]) <= LeakCapacity
  /\ current \in {0, 1} /\ allLeaked \in {0, 1} /\ nLeakedCurrent \subseteq Types
  /\ tpc \in {"launch", "request", "pass"} /\ step \in 1 .. 5
  /\ extractState \in ToSet(Awaited) \cup {"Idle", "ExtractionRequested", "PreparingTracks",
                                          "CopyingTracks", "SavingTracks"}
  /\ transportEvents \in 0 .. 2 /\ Len(extractStream) <= 2
  /\ Len(fromDevice_dev) <= NumFromDevice /\ Len(fromDevice_host) <= NumFromDevice
  /\ leaked \subseteq Tracks /\ wiped \subseteq leaked

(* What a worker finds when its event is flushed are the leaks of that     *)
(* event, each of them once, however many transfers they took; what is     *)
(* missing was pushed into queues whose clearing extractStream still had   *)
(* before it.  No event gets, or keeps, a track of another.                *)
Returned(w) == {t \in Tracks : fromDeviceBuffers[w][t] # 0}
FlushedEventsHaveTheirTracks ==
  \A w \in Workers :
    /\ eventState[w] = "DeviceFlushed" => Returned(w) = (leaked \cap Of(w)) \ wiped
    /\ Returned(w) \subseteq leaked \cap Of(w) /\ \A t \in Tracks : fromDeviceBuffers[w][t] <= 1

(* Whatever the transport thread is blocked on, an event with its hits on  *)
(* the host gets its tracks, unless a leak queue overflows.                *)
EveryFlushIsExtracted ==
  \A w \in Workers : eventState[w] = "HitsFlushed" ~> (eventState[w] = "DeviceFlushed" \/ trapped)
=============================================================================
