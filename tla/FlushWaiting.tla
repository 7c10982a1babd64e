---------------------------- MODULE FlushWaiting ----------------------------
(* HitScoring with the waits of Flush: a worker that processes its event's *)
(* last hits looks for them, and waits for the next notification when it   *)
(* has found its queue empty.  Only the hit thread notifies, and a worker  *)
(* that is on its way into the wait misses it.  For as long as this is     *)
(* followed a worker stays in Flush, or goes on tracking and looks for     *)
(* hits whenever it likes.                                                 *)
EXTENDS HitScoring

VARIABLE wpc          (* worker -> "tracking", or where it is in Flush     *)
waitVars == <<vars, wpc>>

NotifyG4Workers ==
  wpc' = [w \in Workers |-> IF wpc[w] = "waiting" THEN "looking" ELSE wpc[w]]

(* The hit thread notifies when a batch is queued and at the end of every  *)
(* turn of HitProcessingLoop, but never while it waits for room.           *)
NotifiesMutant == hpc = "push" /\ hpc' = "copyOut"
Notifies ==
  \/ hpc = "push" /\ hpc' = "copyOut"
  \/ hpc = "process" /\ hpc' = "waiting"

NotifyingHitThread ==
  HitThread /\ (IF Notifies THEN NotifyG4Workers ELSE UNCHANGED wpc)

(* No hits at the last look, and the event is not flushed yet.             *)
LeaveProcessGPUSteps(w) ==
  /\ wpc[w] = "looking" /\ handle[w].step = "none" /\ fHitQueues[w] = <<>>
  /\ wpc' = [wpc EXCEPT ![w] = "toWait"] /\ UNCHANGED vars

Wait(w) ==
  /\ wpc[w] = "toWait" /\ wpc' = [wpc EXCEPT ![w] = "waiting"] /\ UNCHANGED vars

G4Worker(w) ==
  \/ wpc[w] \in {"tracking", "looking"} /\ Worker(w) /\ UNCHANGED wpc
  \/ LeaveProcessGPUSteps(w) \/ Wait(w)

FlushInit == Init /\ wpc \in [Workers -> {"tracking", "waiting"}]
FlushNext ==
  \/ NotifyingHitThread \/ \E w \in Workers : G4Worker(w)
  \/ /\ UNCHANGED wpc
     /\ \/ \E w \in Workers : RecordHit(w)
        \/ SwapDeviceBuffers \/ PublishSwap \/ WakeUp \/ Callback

(* As in HitScoring; what a swap and the stream do happens a few times for *)
(* every batch, so that one condition is enough.  When its batches are     *)
(* queued the hit thread is woken again by the events that are flushed.    *)
FlushFairness ==
  /\ WF_waitVars(NotifyingHitThread) /\ \A w \in Workers : WF_waitVars(G4Worker(w))
  /\ WF_waitVars((PublishSwap \/ Callback) /\ UNCHANGED wpc)
  /\ WF_waitVars(WakeUp /\ UNCHANGED wpc)

FlushSpec == FlushInit /\ [][FlushNext]_waitVars /\ FlushFairness

-----------------------------------------------------------------------------
(* The hit thread waits for room, and all who could make some wait for it. *)
NoRoom == ~Admits(FreeMemory(fSegments, fWritePtr, Hits(Batch)), Hits(Batch))
AllWait ==
  /\ hpc = "transfer" /\ NeedsTransfer /\ NoRoom
  /\ \A w \in Workers : fHitQueues[w] # <<>> => wpc[w] = "waiting"

(* Hits that were swapped out of the active device buffer get to their     *)
(* worker, even if the host buffer is full at times and the worker is in   *)
(* Flush and misses notifications, several in a row.  What a worker in     *)
(* Flush cannot do without is one that comes before the host buffer is too *)
(* full for the next batch: then everybody waits for ever.                 *)
NotArrived == \E w \in Workers : Underway(w)
SwappedHitsArrive == NotArrived ~> (~NotArrived \/ AllWait \/ hasty)
=============================================================================
