--------------------------- MODULE MCFlushWaiting ---------------------------
(* FlushWaiting for TLC.  "free": both workers track, everything           *)
(* interleaves, and they have two hits and one.  "batches": the second one *)
(* may be in Flush, and the device fills batches given here, the next one  *)
(* when the one before is queued, so that the host buffer wraps around.    *)
(* "buffer": only CircularBuffer takes steps, for parts of batches of any  *)
(* size, each the item of a worker, which are removed in any order.  All   *)
(* end with a hasty transfer, which the properties leave out.              *)
EXTENDS FlushWaiting

VARIABLE scenario

AfterBatches ==
  IF wpc[2] = "tracking" THEN {<<1, 1>>, <<1, 2>>, <<1, 3>>, <<2, 4>>}
  ELSE {<<1, 1>>, <<1, 2>>, <<2, 3>>}
Halfway == {<<0, 0>>, <<1, 0>>, IF wpc[2] = "tracking" THEN <<2, 3>> ELSE <<2, 2>>}

InBatches ==
  /\ recorded' # recorded =>
       /\ recorded' \in Halfway \cup AfterBatches
       /\ recorded \in AfterBatches => \A w \in Workers : fSlotCounter[fActiveBuffer][w] = 0
  /\ fActiveBuffer' # fActiveBuffer => recorded \in AfterBatches
  /\ <<recorded', fActiveBuffer'>> # <<recorded, fActiveBuffer>> =>
       hpc = "waiting" /\ stream = "idle" /\ ~NeedsTransfer
  /\ hpc = "waiting" /\ hpc' # hpc =>
       tpc = "transport" /\ (NeedsTransfer \/ wpc[2] # "tracking")

Queue(queue) == fHitQueues' = [fHitQueues EXCEPT ![1] = queue]
BufferAlone ==
  /\ \/ \E size \in 0 .. Capacity : getFreeContiguousMemory(size) /\ UNCHANGED fHitQueues
     \/ \E end \in 0 .. Capacity : addSegment(end) /\ Queue(Append(fHitQueues[1],
          [NoItem EXCEPT !.begin = reserved[1], !.end = end, !.IsDataOnHostBuffer = TRUE]))
     \/ \E s \in fSegments : removeSegment(s) /\ Queue(
          SelectSeq(fHitQueues[1], LAMBDA item : <<item.begin, item.end>> # s))
  /\ UNCHANGED <<historyVars, deviceVars, swapVars, stateVars, batchVars, hostBuffer,
                 handle, threadVars, wpc>>

MCInit ==
  /\ FlushInit /\ wpc[1] = "tracking"
  /\ scenario \in {"free", "batches", "buffer"}
  /\ scenario # "batches" => wpc[2] = "tracking"
  /\ scenario # "free" => hostBufferCount = [w \in Workers |-> 0]
MCNext ==
  /\ ~hasty /\ UNCHANGED scenario
  /\ \/ scenario = "free" /\ FlushNext /\ recorded'[1] <= 2 /\ recorded'[2] <= 1
     \/ scenario = "batches" /\ FlushNext /\ InBatches
     \/ scenario = "buffer" /\ BufferAlone
MCSpec == MCInit /\ [][MCNext]_<<waitVars, scenario>> /\ FlushFairness
=============================================================================
