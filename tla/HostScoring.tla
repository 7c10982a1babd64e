----------------------------- MODULE HostScoring -----------------------------
(* core/HostScoring*.cuh: the hits of the synchronous transport, in a ring *)
(* on the device that is copied as a whole.  The indices of the ring grow  *)
(* and are taken modulo its capacity.  Operators on one record for the     *)
(* device's members, the host's copies of its statistics (fStats) and of   *)
(* the ring (host).                                                        *)
EXTENDS Integers, Sequences

CONSTANTS
  fBufferCapacity,
  FlushTenths         (* fFlushLimit (0.8) in tenths                       *)

(* InitializeOnGPU allocates the two counters and stores nothing there.     *)
NoHits == [i \in 0 .. fBufferCapacity - 1 |-> 0]
NewScoring(fNextFreeHit, fUsedSlots) ==
  [fBufferStart |-> 0, fNextFreeHit |-> fNextFreeHit, fUsedSlots |-> fUsedSlots,
   ring |-> NoHits, host |-> NoHits, fStats |-> [fBufferStart |-> 0, fNextFreeHit |-> 0, fUsedSlots |-> 0]]

NoSlotForHit(h) == h.fNextFreeHit - h.fBufferStart >= fBufferCapacity

RecordHit(h, hit) ==
  [h EXCEPT !.fNextFreeHit = @ + 1, !.fUsedSlots = @ + 1,
            !.ring[h.fNextFreeHit % fBufferCapacity] = hit]

(* refresh_stats, and the copy of its result to the host.                  *)
refresh_hit_stats(h) ==
  [h EXCEPT !.fStats = [fBufferStart |-> h.fBufferStart, fNextFreeHit |-> h.fNextFreeHit,
                        fUsedSlots |-> h.fUsedSlots]]

(* UpdateBufferStartGPU, the copy, UpdateBufferUsageGPU.                   *)
CopyHitsToHostMutant(h) ==
  [h EXCEPT !.fBufferStart = h.fStats.fNextFreeHit, !.host = h.ring]
CopyHitsToHost(h) ==
  [h EXCEPT !.fBufferStart = h.fStats.fNextFreeHit, !.host = h.ring,
            !.fUsedSlots = @ - h.fStats.fUsedSlots]

NeedsFlush(h) == 10 * h.fStats.fUsedSlots > FlushTenths * fBufferCapacity

(* The iterator over the host's copy.                                      *)
HitsOnHost(h) ==
  [i \in 1 .. h.fStats.fUsedSlots |-> h.host[(h.fStats.fBufferStart + i - 1) % fBufferCapacity]]

(* What the buffers held is not read again.                                *)
ResetBufferStats(h) ==
  [h EXCEPT !.fBufferStart = 0, !.fNextFreeHit = 0, !.fUsedSlots = 0,
            !.ring = NoHits, !.host = NoHits]
=============================================================================
