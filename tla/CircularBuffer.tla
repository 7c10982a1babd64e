---------------------------- MODULE CircularBuffer ----------------------------
(***************************************************************************)
(* CircularBufferManager (include/AdePT/core/PerEventScoringImpl.cuh): the *)
(* memory of the pinned host buffer into which batches of hits are copied. *)
(* The hit processing thread asks for room for a batch, has it copied to   *)
(* where fWritePtr points, and registers the parts of it, one per worker,  *)
(* as segments; the workers and the copy-out remove segments in any order. *)
(* Every operation holds bufferManagerMutex and is one step.  Addresses    *)
(* are offsets from fBufferStart; a segment is <<begin, end>>.             *)
(***************************************************************************)
EXTENDS Integers

CONSTANTS
  Capacity,   (* of the buffer, in hits                                    *)
  Word        (* size_t arithmetic is modulo this                          *)

ASSUME CapacityAssumption ==
  /\ Capacity \in Nat \ {0}
  /\ Word \in Nat /\ Word > 2 * Capacity

VARIABLES
  fSegments,              (* the segments in use                           *)
  fWritePtr,
  fFreeContiguousSpace,   (* what getFillFraction is computed from         *)
  reserved                (* the part of the granted room that is not yet  *)
                          (* registered; empty if both ends are the same   *)
bufferVars == <<fSegments, fWritePtr, fFreeContiguousSpace, reserved>>

-----------------------------------------------------------------------------
First(segs) == CHOOSE s \in segs : \A t \in segs : s[1] <= t[1]
Last(segs)  == CHOOSE s \in segs : \A t \in segs : t[1] <= s[1]

After(segs, p)  == {s \in segs : s[1] >= p}
Before(segs, p) == {s \in segs : s[1] < p}

(* Behind segments that were removed, the write pointer goes back to the   *)
(* end of the previous one that still exists.                              *)
AdjustedPtr(segs, p) ==
  IF Before(segs, p) = {} THEN p ELSE Last(Before(segs, p))[2]

ForwardSpaceMutant(segs, p) == Capacity - AdjustedPtr(segs, p)

ForwardSpace(segs, p) ==
  (IF After(segs, p) = {} THEN Capacity ELSE First(After(segs, p))[1])
    - AdjustedPtr(segs, p)

WrapAroundSpaceMutant(segs) == First(segs)[2]

WrapAroundSpace(segs) == First(segs)[1]

(* What getFreeContiguousMemory returns, and where it leaves fWritePtr.    *)
FreeMemory(segs, p, size) ==
  CASE segs = {} -> Capacity
    [] segs # {} /\ ForwardSpace(segs, p) >= size -> ForwardSpace(segs, p)
    [] segs # {} /\ ForwardSpace(segs, p) < size
         /\ WrapAroundSpace(segs) >= size -> WrapAroundSpace(segs)
    [] OTHER -> 0

WritePtrAfter(segs, p, size) ==
  IF segs = {} \/ (ForwardSpace(segs, p) < size /\ WrapAroundSpace(segs) >= size)
  THEN 0 ELSE AdjustedPtr(segs, p)

(* fFreeContiguousSpace is left alone when the buffer is empty.            *)
FreeSpaceAfter(segs, p, size, old) ==
  IF segs = {} THEN old
  ELSE (ForwardSpace(segs, p) + WrapAroundSpace(segs) - size) % Word

-----------------------------------------------------------------------------
BufferInit ==
  /\ fSegments = {}
  /\ fWritePtr = 0
  /\ fFreeContiguousSpace = Capacity
  /\ reserved = <<0, 0>>

AdmitsMutant(room, size) == TRUE

Admits(room, size) == room > size

(* TransferHitsToHost asks for room: it goes on if there is more than it   *)
(* needs, and tries again otherwise.                                       *)
getFreeContiguousMemory(size) ==
  /\ reserved[1] = reserved[2]
  /\ fWritePtr' = WritePtrAfter(fSegments, fWritePtr, size)
  /\ fFreeContiguousSpace' =
       FreeSpaceAfter(fSegments, fWritePtr, size, fFreeContiguousSpace)
  /\ reserved' = IF Admits(FreeMemory(fSegments, fWritePtr, size), size)
                 THEN <<fWritePtr', fWritePtr' + size>> ELSE reserved
  /\ UNCHANGED fSegments

(* The next part of the batch, up to end, becomes a segment.               *)
addSegment(end) ==
  /\ reserved[1] < end /\ end <= reserved[2]
  /\ fSegments' = fSegments \cup {<<reserved[1], end>>}
  /\ fWritePtr' = end
  /\ reserved' = <<end, reserved[2]>>
  /\ UNCHANGED fFreeContiguousSpace

removeSegmentMutant(s) ==
  /\ s \in fSegments
  /\ fSegments' = fSegments \ {s}
  /\ fWritePtr' = s[1]
  /\ UNCHANGED <<fFreeContiguousSpace, reserved>>

removeSegment(s) ==
  /\ s \in fSegments
  /\ fSegments' = fSegments \ {s}
  /\ UNCHANGED <<fWritePtr, fFreeContiguousSpace, reserved>>

BufferNext ==
  \/ \E size \in Nat : getFreeContiguousMemory(size)
  \/ \E end \in 0 .. Capacity : addSegment(end)
  \/ \E s \in fSegments : removeSegment(s)

BufferSpec == BufferInit /\ [][BufferNext]_bufferVars

-----------------------------------------------------------------------------
BufferTypeOK ==
  /\ fSegments \subseteq (0 .. Capacity) \X (0 .. Capacity)
  /\ fWritePtr \in 0 .. Capacity
  /\ fFreeContiguousSpace \in 0 .. Word - 1
  /\ reserved \in (0 .. Capacity) \X (0 .. Capacity)

Apart(s, t) == s[2] <= t[1] \/ t[2] <= s[1]

(* checkForOverlaps: segments are never empty and never overlap.           *)
SegmentsAreDisjoint ==
  /\ \A s \in fSegments : s[1] < s[2]
  /\ \A s, t \in fSegments : s # t => Apart(s, t)

(* The room granted to a batch lies within the buffer, and no hits that a  *)
(* worker may still read are in it, whatever was removed meanwhile.        *)
ReservedIsFree ==
  /\ reserved[1] <= reserved[2]
  /\ reserved[1] < reserved[2] => \A s \in fSegments : Apart(s, reserved)

(* The check of addSegment: a segment begins where fWritePtr points.       *)
SegmentsBeginAtWritePtr == reserved[1] < reserved[2] => fWritePtr = reserved[1]
=============================================================================
