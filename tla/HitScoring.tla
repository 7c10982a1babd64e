------------------------------ MODULE HitScoring ------------------------------
(***************************************************************************)
(* HitScoring (include/AdePT/core/PerEventScoringImpl.cuh): how hits get   *)
(* from the kernels to the G4 workers.  The device records into the active *)
(* one of two device buffers; the transport thread swaps them; the hit     *)
(* processing thread has the batch copied to the host buffer, of which     *)
(* CircularBuffer keeps track, and queues for each worker where its hits   *)
(* are; it copies hits out of the host buffer when that fills up before    *)
(* their worker takes them.  Workers are numbered by threadId from 1.  A   *)
(* hit is its number among those of its worker, 0 what is not a hit.       *)
(***************************************************************************)
EXTENDS CircularBuffer, Sequences, Functions

CONSTANTS
  NWorkers,       (* nThread                                               *)
  NSlot,          (* fNSlot: slots per worker in a device buffer           *)
  CopyThreshold,  (* hits in the host buffer beyond which to copy out      *)
  MaxHits         (* bound: hits recorded for a worker                     *)

HitCapacity == NWorkers * NSlot

ASSUME HitScoringAssumption ==
  /\ NWorkers \in Nat \ {0} /\ NSlot \in Nat \ {0}
  /\ Capacity > 2 * HitCapacity        (* CPUCapacityFactor of them        *)
  /\ CopyThreshold \in 0 .. Capacity
  /\ MaxHits \in Nat \ {0}

Workers == 1 .. NWorkers

VARIABLES
  recorded, delivered,        (* history: hits of each worker, both ends   *)
  deviceHits,                 (* device buffer -> worker -> slots          *)
  fSlotCounter,               (* device buffer -> worker -> slots used     *)
  fActiveBuffer, fDeviceState,
  hostBufferCount, hostState, offsetAtCopy,
  copySizes,                  (* worker -> hits in the copies enqueued     *)
  hostBuffer,                 (* address -> hit; 0 where memory is free    *)
  fHitQueues,                 (* worker -> HitQueueItems                   *)
  handle,                     (* worker -> what it knows of the item it is *)
                              (* processing, and whether it has done so    *)
  countsCopied,               (* whether the copy of the counters is done  *)
  stream,                     (* what hitTransferStream does next          *)
  tpc, hpc,                   (* transport thread, hit processing thread   *)
  index,                      (* the loop variable of ProcessBuffer        *)
  hasty                       (* history: the hit thread has begun to      *)
                              (* transfer a batch whose counters were not  *)
                              (* copied or whose hostState was not set yet *)

historyVars == <<recorded, delivered>>
deviceVars  == <<deviceHits, fSlotCounter>>
swapVars    == <<fActiveBuffer, countsCopied, tpc>>
stateVars   == <<fDeviceState, hostState>>
batchVars   == <<hostBufferCount, offsetAtCopy, copySizes, stream, hasty>>
hostVars    == <<hostBuffer, fHitQueues>>
threadVars  == <<hpc, index>>
vars == <<historyVars, deviceVars, swapVars, stateVars, batchVars, hostVars,
          handle, threadVars, bufferVars>>

Delivery == INSTANCE HitDelivery

-----------------------------------------------------------------------------
previous == 1 - fActiveBuffer

(* The sum of the counts of the workers in S.                              *)
Hits(S) == FoldFunctionOnSet(+, 0, hostBufferCount, S)

(* Where the hits of worker i are in the host buffer.                      *)
Begin(i) == offsetAtCopy + Hits(1 .. i - 1)
End(i)   == Begin(i) + hostBufferCount[i]

(* Where the copies put them.                                              *)
CopyBegin(i) == offsetAtCopy + FoldFunctionOnSet(+, 0, copySizes, 1 .. i - 1)
CopyEnd(i)   == CopyBegin(i) + copySizes[i]

HasHitsMutant(i) == TRUE

HasHits(i) == Begin(i) # End(i)

Clear(begin) ==
  [a \in DOMAIN hostBuffer |->
     IF \E s \in fSegments : s[1] = begin /\ s[1] <= a /\ a < s[2] THEN 0
     ELSE hostBuffer[a]]

NoItem == [begin |-> 0, end |-> 0, ScoringStarted |-> FALSE,
           IsDataOnHostBuffer |-> FALSE, holdoutBuffer |-> <<>>]

Contents(item) ==
  IF item.IsDataOnHostBuffer
  THEN [k \in 1 .. item.end - item.begin |-> hostBuffer[item.begin + k - 1]]
  ELSE item.holdoutBuffer

(* hostBufferCount is not initialised (bound: to numbers up to NSlot).     *)
Init ==
  /\ recorded = [w \in Workers |-> 0]
  /\ delivered = [w \in Workers |-> <<>>]
  /\ deviceHits = [b \in {0, 1} |-> [w \in Workers |-> [n \in 1 .. NSlot |-> 0]]]
  /\ fSlotCounter = [b \in {0, 1} |-> [w \in Workers |-> 0]]
  /\ fActiveBuffer = 0
  /\ fDeviceState = [b \in {0, 1} |-> IF b = 0 THEN "Filling" ELSE "Free"]
  /\ hostBufferCount \in [Workers -> 0 .. NSlot]
  /\ hostState = "ReadyToBeFilled" /\ offsetAtCopy = 0
  /\ hostBuffer = [a \in 0 .. Capacity - 1 |-> 0]
  /\ fHitQueues = [w \in Workers |-> <<>>]
  /\ handle = [w \in Workers |-> [item |-> NoItem, step |-> "none"]]
  /\ countsCopied = TRUE /\ stream = "idle" /\ hasty = FALSE
  /\ copySizes = [w \in Workers |-> 0]
  /\ tpc = "transport" /\ hpc = "waiting" /\ index = 1
  /\ BufferInit

-----------------------------------------------------------------------------
(* The buffer that kernels know: the previous one until the copies of a    *)
(* swap are done.                                                          *)
deviceBuffer == IF countsCopied THEN fActiveBuffer ELSE previous

(* A kernel records a hit.  The copies of a swap wait for the kernels that *)
(* run, and the swap for the copies.  Bound: a batch never needs more than *)
(* NSlot slots of a worker (the device traps if it does).                  *)
RecordHit(w) ==
  /\ tpc = "transport" \/ ~countsCopied
  /\ recorded[w] < MaxHits /\ fSlotCounter[deviceBuffer][w] < NSlot
  /\ recorded' = [recorded EXCEPT ![w] = @ + 1]
  /\ deviceHits' = [deviceHits EXCEPT
       ![deviceBuffer][w][fSlotCounter[deviceBuffer][w] + 1] = recorded'[w]]
  /\ fSlotCounter' = [fSlotCounter EXCEPT ![deviceBuffer][w] = @ + 1]
  /\ UNCHANGED <<delivered, swapVars, stateVars, batchVars, hostVars,
                 threadVars, bufferVars, handle>>

ReadyToSwapBuffersMutant == hostState # "TransferFromDevice"

ReadyToSwapBuffers ==
  /\ \E b \in {0, 1} : fDeviceState[b] = "Free"
  /\ hostState = "ReadyToBeFilled"

(* SwapDeviceBuffers, when TransportLoop decides for it: it enqueues the   *)
(* copy of the counters and flips.  A next buffer in use is a throw.       *)
SwapDeviceBuffers ==
  /\ tpc = "transport" /\ ReadyToSwapBuffers
  /\ countsCopied' = FALSE
  /\ fActiveBuffer' = previous
  /\ IF fDeviceState[previous] = "Free"
     THEN /\ fDeviceState' = [fDeviceState EXCEPT ![previous] = "Filling"]
          /\ tpc' = "flipped"
     ELSE tpc' = "thrown" /\ UNCHANGED fDeviceState
  /\ UNCHANGED <<historyVars, deviceVars, hostState, batchVars, hostVars,
                 threadVars, bufferVars, handle>>

(* Two more stores, and the synchronisation that ends the swap.            *)
PublishSwap ==
  /\ \/ /\ tpc = "flipped" /\ tpc' = "published"
        /\ fDeviceState' = [fDeviceState EXCEPT ![previous] = "NeedTransferToHost"]
        /\ UNCHANGED hostState
     \/ /\ tpc = "published" /\ tpc' = "synchronizing"
        /\ hostState' = "AwaitingDeviceTransfer"
        /\ UNCHANGED fDeviceState
     \/ /\ tpc = "synchronizing" /\ countsCopied /\ tpc' = "transport"
        /\ UNCHANGED <<hostState, fDeviceState>>
  /\ UNCHANGED <<historyVars, deviceVars, fActiveBuffer, countsCopied,
                 batchVars, hostVars, threadVars, bufferVars, handle>>

CopyCountsMutant ==
  /\ ~countsCopied /\ tpc # "thrown"
  /\ hostBufferCount' = fSlotCounter[previous]
  /\ countsCopied' = TRUE
  /\ UNCHANGED <<historyVars, deviceVars, fActiveBuffer, tpc, stateVars,
                 offsetAtCopy, copySizes, stream, hasty, hostVars, threadVars,
                 bufferVars, handle>>

(* The memcpy and memset of the counters that the swap has enqueued.       *)
CopyCounts ==
  /\ ~countsCopied /\ tpc # "thrown"
  /\ hostBufferCount' = fSlotCounter[previous]
  /\ fSlotCounter' = [fSlotCounter EXCEPT ![previous] = [w \in Workers |-> 0]]
  /\ countsCopied' = TRUE
  /\ UNCHANGED <<historyVars, deviceHits, fActiveBuffer, tpc, stateVars,
                 offsetAtCopy, copySizes, stream, hasty, hostVars, threadVars,
                 bufferVars, handle>>

-----------------------------------------------------------------------------
(* The hit processing thread.                                              *)

(* Its wait ends with a notification of the transport thread or without.   *)
WakeUp ==
  /\ hpc = "waiting"
  /\ hpc' = "transfer"
  /\ UNCHANGED <<historyVars, deviceVars, swapVars, stateVars, batchVars,
                 hostVars, index, bufferVars, handle>>

Batch == 1 .. NWorkers
NeedsTransfer == \E b \in {0, 1} : fDeviceState[b] = "NeedTransferToHost"

(* TransferHitsToHost: one turn of its loop.  Without enough room it tries *)
(* again; else it sets both states and enqueues the copies and two host    *)
(* functions.  Nothing keeps it from a batch whose swap is not over.       *)
TransferHitsToHost ==
  /\ hpc = "transfer"
  /\ IF ~NeedsTransfer
     THEN /\ hpc' = "process"
          /\ UNCHANGED <<fDeviceState, hostState, offsetAtCopy, copySizes, stream,
                         hasty, bufferVars>>
     ELSE /\ getFreeContiguousMemory(Hits(Batch))
          /\ IF Admits(FreeMemory(fSegments, fWritePtr, Hits(Batch)),
                              Hits(Batch))
             THEN /\ fDeviceState' = [fDeviceState EXCEPT ![previous] = "TransferToHost"]
                  /\ hostState' = "TransferFromDevice"
                  /\ offsetAtCopy' = fWritePtr' /\ copySizes' = hostBufferCount
                  /\ stream' = "copy"
                  /\ hasty' = (hasty \/ ~countsCopied \/ tpc = "published")
             ELSE UNCHANGED <<fDeviceState, hostState, offsetAtCopy, copySizes,
                              stream, hasty>>
          /\ UNCHANGED hpc
  /\ UNCHANGED <<historyVars, deviceVars, swapVars, hostBufferCount, hostVars,
                 index, handle>>

(* hitTransferStream: the copies, worker after worker ...                  *)
CopyHits ==
  /\ stream = "copy" /\ stream' = "free"
  /\ hostBuffer' = [a \in DOMAIN hostBuffer |->
       IF \E i \in Workers : CopyBegin(i) <= a /\ a < CopyEnd(i)
       THEN LET i == CHOOSE i \in Workers : CopyBegin(i) <= a /\ a < CopyEnd(i)
            IN  deviceHits[previous][i][a - CopyBegin(i) + 1]
       ELSE hostBuffer[a]]
  /\ copySizes' = [w \in Workers |-> 0]
  /\ UNCHANGED <<historyVars, deviceVars, swapVars, stateVars,
                 hostBufferCount, offsetAtCopy, hasty, fHitQueues, threadVars,
                 bufferVars, handle>>

(* ... and the host functions: the device buffer is free (what is in it    *)
(* does not matter any more), then the transfer is finished.               *)
FreeDeviceBuffer ==
  /\ stream = "free" /\ stream' = "finish"
  /\ fDeviceState' = [fDeviceState EXCEPT ![previous] = "Free"]
  /\ deviceHits' = [deviceHits EXCEPT ![previous] =
                      [w \in Workers |-> [n \in 1 .. NSlot |-> 0]]]
  /\ UNCHANGED <<historyVars, fSlotCounter, swapVars, hostState,
                 hostBufferCount, offsetAtCopy, copySizes, hasty, hostVars,
                 threadVars, bufferVars, handle>>

FinishTransfer ==
  /\ stream = "finish" /\ stream' = "idle"
  /\ hostState' = "TransferFromDeviceFinished"
  /\ UNCHANGED <<historyVars, deviceVars, swapVars, fDeviceState,
                 hostBufferCount, offsetAtCopy, copySizes, hasty, hostVars,
                 threadVars, bufferVars, handle>>

(* ProcessHits: it processes a batch that is there, waits for one that is  *)
(* on its way, and returns to HitProcessingLoop otherwise.                 *)
ProcessHits ==
  /\ hpc = "process"
  /\ \/ hostState = "TransferFromDeviceFinished" /\ hpc' = "push"
     \/ hostState \in {"ReadyToBeFilled", "AwaitingDeviceTransfer"} /\ hpc' = "waiting"
  /\ index' = 1
  /\ UNCHANGED <<historyVars, deviceVars, swapVars, stateVars, batchVars,
                 hostVars, bufferVars, handle>>

(* ProcessBuffer, first loop: the hits of worker index become a segment    *)
(* and an item of its queue.                                               *)
PushHits ==
  /\ hpc = "push" /\ index <= NWorkers
  /\ index' = index + 1
  /\ IF HasHits(index)
     THEN /\ fSegments' = fSegments \cup {<<Begin(index), End(index)>>}
          /\ fWritePtr' = End(index)
          /\ reserved' = <<End(index), reserved[2]>>
          /\ fHitQueues' = [fHitQueues EXCEPT ![index] = Append(@,
               [begin |-> Begin(index), end |-> End(index), ScoringStarted |-> FALSE,
                IsDataOnHostBuffer |-> TRUE, holdoutBuffer |-> <<>>])]
     ELSE UNCHANGED <<fSegments, fWritePtr, reserved, fHitQueues>>
  /\ UNCHANGED <<historyVars, deviceVars, swapVars, stateVars, batchVars,
                 hostBuffer, hpc, fFreeContiguousSpace, handle>>

(* The batch is queued: the next swap may come.                            *)
ReleaseHostBuffer ==
  /\ hpc = "push" /\ index > NWorkers
  /\ hostState' = "ReadyToBeFilled"
  /\ hpc' = "copyOut" /\ index' = 1
  /\ UNCHANGED <<historyVars, deviceVars, swapVars, fDeviceState, batchVars,
                 hostVars, bufferVars, handle>>

(* getFillFraction > fCPUCopyFraction, in hits.                            *)
TooFull == Capacity - fFreeContiguousSpace > CopyThreshold

CopyOutMutant ==
  /\ hpc = "copyOut" /\ index <= NWorkers
  /\ index' = index + 1
  /\ LET queue == fHitQueues[index]
         last  == queue[Len(queue)]
     IN  IF queue # <<>> /\ last.IsDataOnHostBuffer /\ TooFull
         THEN /\ fSegments' = {s \in fSegments : s[1] # last.begin}
              /\ hostBuffer' = Clear(last.begin)
              /\ fHitQueues' = [fHitQueues EXCEPT ![index][Len(queue)] =
                   [NoItem EXCEPT !.ScoringStarted = TRUE,
                                  !.holdoutBuffer = Contents(last)]]
         ELSE UNCHANGED <<fSegments, hostBuffer, fHitQueues>>
  /\ UNCHANGED <<historyVars, deviceVars, swapVars, stateVars, batchVars, hpc,
                 fWritePtr, fFreeContiguousSpace, reserved, handle>>

(* ProcessBuffer, second loop, with the lock of the queue: the last item   *)
(* moves to its holdoutBuffer if nobody has started on it and the host     *)
(* buffer is too full.                                                     *)
CopyOut ==
  /\ hpc = "copyOut" /\ index <= NWorkers
  /\ index' = index + 1
  /\ LET queue == fHitQueues[index]
         last  == queue[Len(queue)]
     IN  IF queue # <<>> /\ ~last.ScoringStarted /\ TooFull
         THEN /\ fSegments' = {s \in fSegments : s[1] # last.begin}
              /\ hostBuffer' = Clear(last.begin)
              /\ fHitQueues' = [fHitQueues EXCEPT ![index][Len(queue)] =
                   [NoItem EXCEPT !.ScoringStarted = TRUE,
                                  !.holdoutBuffer = Contents(last)]]
         ELSE UNCHANGED <<fSegments, hostBuffer, fHitQueues>>
  /\ UNCHANGED <<historyVars, deviceVars, swapVars, stateVars, batchVars, hpc,
                 fWritePtr, fFreeContiguousSpace, reserved, handle>>

EndProcessBuffer ==
  /\ hpc = "copyOut" /\ index > NWorkers
  /\ hpc' = "process" /\ index' = 1
  /\ UNCHANGED <<historyVars, deviceVars, swapVars, stateVars, batchVars,
                 hostVars, bufferVars, handle>>

-----------------------------------------------------------------------------
(* A worker in ProcessGPUSteps: GetNextHitsHandle takes the first item ... *)
GetNextHitsHandle(w) ==
  /\ handle[w].step = "none" /\ fHitQueues[w] # <<>>
  /\ fHitQueues' = [fHitQueues EXCEPT ![w][1].ScoringStarted = TRUE]
  /\ handle' = [handle EXCEPT ![w] = [item |-> Head(fHitQueues[w]), step |-> "taken"]]
  /\ UNCHANGED <<historyVars, deviceVars, swapVars, stateVars, batchVars,
                 hostBuffer, threadVars, bufferVars>>

(* ... its hits are processed ...                                          *)
ProcessGPUSteps(w) ==
  /\ handle[w].step = "taken"
  /\ delivered' = [delivered EXCEPT ![w] = @ \o Contents(handle[w].item)]
  /\ handle' = [handle EXCEPT ![w].step = "processed"]
  /\ UNCHANGED <<recorded, deviceVars, swapVars, stateVars, batchVars,
                 hostVars, threadVars, bufferVars>>

CloseHitsHandleMutant(w) ==
  /\ handle[w].step = "processed"
  /\ UNCHANGED <<fSegments, hostBuffer>>
  /\ fHitQueues' = [fHitQueues EXCEPT ![w] = Tail(@)]
  /\ handle' = [handle EXCEPT ![w] = [item |-> NoItem, step |-> "none"]]
  /\ UNCHANGED <<historyVars, deviceVars, swapVars, stateVars, batchVars,
                 threadVars, fWritePtr, fFreeContiguousSpace, reserved>>

(* ... and CloseHitsHandle gives the memory back and pops the item.        *)
CloseHitsHandle(w) ==
  /\ handle[w].step = "processed"
  /\ IF handle[w].item.IsDataOnHostBuffer
     THEN /\ fSegments' = {s \in fSegments : s[1] # handle[w].item.begin}
          /\ hostBuffer' = Clear(handle[w].item.begin)
     ELSE UNCHANGED <<fSegments, hostBuffer>>
  /\ fHitQueues' = [fHitQueues EXCEPT ![w] = Tail(@)]
  /\ handle' = [handle EXCEPT ![w] = [item |-> NoItem, step |-> "none"]]
  /\ UNCHANGED <<historyVars, deviceVars, swapVars, stateVars, batchVars,
                 threadVars, fWritePtr, fFreeContiguousSpace, reserved>>

-----------------------------------------------------------------------------
HitThread ==
  \/ TransferHitsToHost \/ ProcessHits \/ PushHits \/ ReleaseHostBuffer
  \/ CopyOut \/ EndProcessBuffer

Callback == CopyCounts \/ CopyHits \/ FreeDeviceBuffer \/ FinishTransfer

Worker(w) == GetNextHitsHandle(w) \/ ProcessGPUSteps(w) \/ CloseHitsHandle(w)

Next ==
  \/ \E w \in Workers : RecordHit(w)
  \/ SwapDeviceBuffers \/ PublishSwap
  \/ WakeUp \/ HitThread \/ Callback
  \/ \E w \in Workers : Worker(w)

(* TransportLoop notifies the hit thread at every iteration until the      *)
(* batch is queued; a worker looks for hits again and again.               *)
Fairness ==
  /\ WF_vars(PublishSwap) /\ WF_vars(WakeUp) /\ WF_vars(HitThread)
  /\ WF_vars(CopyCounts) /\ WF_vars(CopyHits)
  /\ WF_vars(FreeDeviceBuffer) /\ WF_vars(FinishTransfer)
  /\ \A w \in Workers : WF_vars(Worker(w))

Safety == Init /\ [][Next]_vars
Spec == Safety /\ Fairness

-----------------------------------------------------------------------------
Items == [begin : 0 .. Capacity, end : 0 .. Capacity, ScoringStarted : BOOLEAN,
          IsDataOnHostBuffer : BOOLEAN, holdoutBuffer : Seq(0 .. MaxHits)]

TypeOK ==
  /\ recorded \in [Workers -> 0 .. MaxHits]
  /\ delivered \in [Workers -> Seq(0 .. MaxHits)]
  /\ deviceHits \in [{0, 1} -> [Workers -> [1 .. NSlot -> 0 .. MaxHits]]]
  /\ fSlotCounter \in [{0, 1} -> [Workers -> 0 .. NSlot]]
  /\ fActiveBuffer \in {0, 1}
  /\ fDeviceState \in [{0, 1} -> {"Free", "Filling", "NeedTransferToHost",
                                  "TransferToHost"}]
  /\ hostBufferCount \in [Workers -> 0 .. NSlot]
  /\ hostState \in {"ReadyToBeFilled", "AwaitingDeviceTransfer",
                    "TransferFromDevice", "TransferFromDeviceFinished"}
  /\ offsetAtCopy \in 0 .. Capacity
  /\ copySizes \in [Workers -> 0 .. NSlot] /\ hasty \in BOOLEAN
  /\ hostBuffer \in [0 .. Capacity - 1 -> 0 .. MaxHits]
  /\ fHitQueues \in [Workers -> Seq(Items)]
  /\ handle \in [Workers -> [item : Items, step : {"none", "taken", "processed"}]]
  /\ countsCopied \in BOOLEAN
  /\ stream \in {"idle", "copy", "free", "finish"}
  /\ tpc \in {"transport", "flipped", "published", "synchronizing", "thrown"}
  /\ hpc \in {"waiting", "transfer", "process", "push", "copyOut"}
  /\ index \in 1 .. NWorkers + 1
  /\ BufferTypeOK

(* SwapDeviceBuffers never throws "Next on-device buffer in wrong state".  *)
SwapNeverThrows == tpc # "thrown"

(* The parts of the host buffer to which an item of some queue points.     *)
QueuedSegments ==
  {<<item.begin, item.end>> : item \in
    UNION {{fHitQueues[w][k] : k \in {k \in DOMAIN fHitQueues[w] :
                                        fHitQueues[w][k].IsDataOnHostBuffer}}
             : w \in Workers}}

(* The segments in use are exactly those: none leaks, none is freed under  *)
(* a worker.  As in the properties below, a hasty transfer is the          *)
(* exception: SwapsWaitForTheQueue shows what it leads to.                 *)
SegmentsAreQueued == ~hasty => fSegments = QueuedSegments

(* Every worker processes the hits recorded for it, once and in order.     *)
HitsAreDelivered ==
  Delivery!Init /\ [][hasty \/ Delivery!Next]_<<recorded, delivered>>

(* CircularBuffer is used as it expects: what is asked for is what is      *)
(* added, and the segments that a worker and the copy-out remove exist and *)
(* are those of the items they have done with.                             *)
BufferUse ==
  \/ \E size \in 0 .. Capacity : getFreeContiguousMemory(size)
  \/ \E end \in 0 .. Capacity : addSegment(end)
  \/ \E s \in fSegments : removeSegment(s)
Removes(item) == removeSegment(<<item.begin, item.end>>)
Removals ==
  /\ \A w \in Workers :
       handle[w].step # "none" /\ handle[w].item.IsDataOnHostBuffer /\ handle'[w].step = "none" =>
         Removes(handle[w].item)
  /\ hpc = "copyOut" /\ fHitQueues' # fHitQueues /\ UNCHANGED handle =>
       Removes(fHitQueues[index][Len(fHitQueues[index])])
UsesBufferCorrectly ==
  /\ BufferInit
  /\ [][hasty \/ BufferUse]_bufferVars
  /\ [][hasty \/ Removals]_<<handle, fHitQueues>>

(* Hits of w have left the active device buffer and not reached w yet.     *)
Underway(w) ==
  \E n \in Len(delivered[w]) + 1 .. recorded[w] :
    \A k \in 1 .. NSlot : deviceHits[fActiveBuffer][w][k] # n

(* "this prevents the next swap until the hits in the hostBuffer are send  *)
(* to the HitQueue": when a swap may come every hit is with its worker, in *)
(* an item for it, or still in the active device buffer.                   *)
SwapsWaitForTheQueue ==
  tpc = "transport" /\ ReadyToSwapBuffers =>
    \A w \in Workers : \A n \in 1 .. recorded[w] :
      \/ \E k \in DOMAIN delivered[w] : delivered[w][k] = n
      \/ \E k \in DOMAIN fHitQueues[w] :
           \E j \in DOMAIN Contents(fHitQueues[w][k]) : Contents(fHitQueues[w][k])[j] = n
      \/ \E k \in 1 .. NSlot : deviceHits[fActiveBuffer][w][k] = n
=============================================================================
