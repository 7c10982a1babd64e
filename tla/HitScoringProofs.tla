--------------------------- MODULE HitScoringProofs ---------------------------
(* For every number of workers and every buffer size.  First the host      *)
(* buffer's manager by itself, and that a swap always finds its next       *)
(* buffer free (IInv).  Then, up to the first hasty transfer: where the    *)
(* batches are and how the states of the buffers go together (AInv), that  *)
(* segments and queue items are the same, so that the manager is used as   *)
(* it may be, and what each worker has been given (DInv), so that          *)
(* HitDelivery is implemented.                                             *)
EXTENDS HitScoring, Counting, SequenceTheorems

-----------------------------------------------------------------------------
(* The host buffer's manager, for every sequence of batch sizes: the       *)
(* inductive invariant is the conjunction of the four invariants that TLC  *)
(* checks.                                                                 *)
Addresses == 0 .. Capacity

BufferInv == BufferTypeOK /\ SegmentsAreDisjoint /\ ReservedIsFree /\ SegmentsBeginAtWritePtr

(* The CHOOSE of First picks a segment with the least begin.               *)
LEMMA FirstIsLeast ==
  ASSUME NEW S \in SUBSET (Addresses \X Addresses), S # {}
  PROVE  First(S) \in S /\ \A t \in S : First(S)[1] <= t[1]
<1> USE CapacityAssumption
<1> DEFINE begins == {s[1] : s \in S}
<1>1. begins \in SUBSET Nat /\ begins # {}
  BY DEF Addresses
<1>2. PICK b \in begins : \A c \in begins : b <= c
  BY <1>1, LeastNatural
<1>3. \E s \in S : \A t \in S : s[1] <= t[1]
  BY <1>2
<1> QED BY <1>3 DEF First

(* The CHOOSE of Last picks one with the greatest: the least distance from *)
(* the end of the buffer.                                                  *)
LEMMA LastIsGreatest ==
  ASSUME NEW S \in SUBSET (Addresses \X Addresses), S # {}
  PROVE  Last(S) \in S /\ \A t \in S : t[1] <= Last(S)[1]
<1> USE CapacityAssumption
<1> DEFINE distances == {Capacity - s[1] : s \in S}
<1>1. distances \in SUBSET Nat /\ distances # {}
  BY DEF Addresses
<1>2. PICK b \in distances : \A c \in distances : b <= c
  BY <1>1, LeastNatural
<1>3. PICK s \in S : b = Capacity - s[1]
  OBVIOUS
<1>4. \A t \in S : Capacity - s[1] <= Capacity - t[1]
  BY <1>2, <1>3
<1>5. \A t \in S : s[1] \in Int /\ t[1] \in Int
  BY DEF Addresses
<1>6. \E u \in S : \A t \in S : t[1] <= u[1]
  BY <1>4, <1>5
<1> QED BY <1>6 DEF Last

WellPlaced(segs) ==
  /\ segs \in SUBSET (Addresses \X Addresses)
  /\ \A s \in segs : s[1] < s[2]
  /\ \A s, t \in segs : s # t => Apart(s, t)

(* The adjusted write pointer is behind every segment that begins before   *)
(* the old one, and not behind any that begins later.                      *)
LEMMA AdjustedPtrFits ==
  ASSUME NEW segs, WellPlaced(segs), NEW p \in Addresses
  PROVE  /\ AdjustedPtr(segs, p) \in Addresses
         /\ \A s \in Before(segs, p) : s[2] <= AdjustedPtr(segs, p)
         /\ \A s \in After(segs, p) : AdjustedPtr(segs, p) <= s[1]
<1> USE CapacityAssumption DEF Addresses
<1>0. \A s \in segs : s[1] \in Addresses /\ s[2] \in Addresses
  BY DEF WellPlaced
<1>1. CASE Before(segs, p) = {}
  BY <1>0, <1>1 DEF AdjustedPtr, After
<1>2. CASE Before(segs, p) # {}
  <2> DEFINE l == Last(Before(segs, p))
  <2>1. Before(segs, p) \in SUBSET (Addresses \X Addresses)
    BY DEF Before, WellPlaced
  <2>2. l \in Before(segs, p) /\ \A t \in Before(segs, p) : t[1] <= l[1]
    BY <1>2, <2>1, LastIsGreatest
  <2>3. AdjustedPtr(segs, p) = l[2]
    BY <1>2 DEF AdjustedPtr
  <2>4. l \in segs /\ l[1] < p /\ l[1] < l[2]
    BY <2>2 DEF Before, WellPlaced
  <2> HIDE DEF l
  <2>5. ASSUME NEW s \in Before(segs, p) PROVE s[2] <= l[2]
    <3>1. s \in segs /\ s[1] <= l[1] /\ s[1] < s[2]
      BY <2>2, <2>5 DEF Before, WellPlaced
    <3>2. CASE s = l
      BY <1>0, <2>4, <3>2
    <3>3. CASE s # l
      <4>1. Apart(s, l)
        BY <2>4, <3>1, <3>3 DEF WellPlaced
      <4> QED BY <1>0, <2>4, <3>1, <4>1 DEF Apart
    <3> QED BY <3>2, <3>3
  <2>6. ASSUME NEW s \in After(segs, p) PROVE l[2] <= s[1]
    <3>1. s \in segs /\ p <= s[1] /\ s[1] < s[2]
      BY <2>6 DEF After, WellPlaced
    <3>2. s # l
      BY <1>0, <2>4, <3>1
    <3>3. Apart(s, l)
      BY <2>4, <3>1, <3>2 DEF WellPlaced
    <3> QED BY <1>0, <2>4, <3>1, <3>3 DEF Apart
  <2> QED BY <1>0, <2>3, <2>4, <2>5, <2>6
<1> QED BY <1>1, <1>2

(* Where the room begins that getFreeContiguousMemory finds.  If it is more *)
(* than size, it ends inside the buffer and no segment reaches into it.     *)
LEMMA WritePtrStaysInside ==
  ASSUME NEW segs, WellPlaced(segs), NEW p \in Addresses, NEW size \in Nat
  PROVE  WritePtrAfter(segs, p, size) \in Addresses
<1>1. 0 \in Addresses
  BY CapacityAssumption DEF Addresses
<1>2. AdjustedPtr(segs, p) \in Addresses
  BY AdjustedPtrFits
<1> QED BY <1>1, <1>2 DEF WritePtrAfter

LEMMA SpacesAreIntegers ==
  ASSUME NEW segs, WellPlaced(segs), segs # {}, NEW p \in Addresses
  PROVE  ForwardSpace(segs, p) \in Int /\ WrapAroundSpace(segs) \in Int
<1>1. AdjustedPtr(segs, p) \in Int
  BY AdjustedPtrFits, CapacityAssumption DEF Addresses
<1>2. /\ segs \in SUBSET (Addresses \X Addresses)
      /\ After(segs, p) \in SUBSET (Addresses \X Addresses)
  BY DEF WellPlaced, After
<1>3. First(segs) \in Addresses \X Addresses
  BY <1>2, FirstIsLeast
<1>4. After(segs, p) # {} => First(After(segs, p)) \in Addresses \X Addresses
  BY <1>2, FirstIsLeast
<1> QED BY <1>1, <1>3, <1>4, CapacityAssumption
       DEF ForwardSpace, WrapAroundSpace, Addresses

LEMMA RoomIsFree ==
  ASSUME NEW segs, WellPlaced(segs), NEW p \in Addresses, NEW size \in Nat,
         FreeMemory(segs, p, size) > size
  PROVE  LET w == WritePtrAfter(segs, p, size)
         IN  w + size <= Capacity /\ \A s \in segs : Apart(s, <<w, w + size>>)
<1> DEFINE w == WritePtrAfter(segs, p, size)
<1> DEFINE a == AdjustedPtr(segs, p)
<1>0. \A s \in segs : s[1] \in Addresses /\ s[2] \in Addresses
  BY DEF WellPlaced
<1>a. a \in Int /\ a >= 0 /\ a <= Capacity
  BY AdjustedPtrFits, CapacityAssumption DEF Addresses
<1>b. /\ segs \in SUBSET (Addresses \X Addresses)
      /\ After(segs, p) \in SUBSET (Addresses \X Addresses)
  BY DEF WellPlaced, After
<1>1. CASE segs = {}
  BY <1>1, CapacityAssumption DEF FreeMemory, WritePtrAfter
<1>2. CASE segs # {} /\ ForwardSpace(segs, p) >= size
  <2>1. w = a
    BY <1>2, SpacesAreIntegers DEF WritePtrAfter
  <2>2. ASSUME NEW s \in Before(segs, p) PROVE Apart(s, <<a, a + size>>)
    BY AdjustedPtrFits DEF Apart
  <2>3. ASSUME NEW s \in After(segs, p) PROVE a + size <= s[1] /\ s[1] <= Capacity
    <3>1. /\ First(After(segs, p)) \in After(segs, p)
          /\ First(After(segs, p))[1] <= s[1]
      BY <1>b, FirstIsLeast
    <3>2. First(After(segs, p))[1] - a >= size
      BY <1>2 DEF ForwardSpace
    <3>3. First(After(segs, p))[1] \in Int /\ s[1] \in Int /\ s[1] <= Capacity
      BY <1>b, <3>1, CapacityAssumption DEF Addresses
    <3> QED BY <1>a, <3>1, <3>2, <3>3
  <2>4. a + size <= Capacity
    <3>1. CASE After(segs, p) = {}
      BY <1>2, <1>a, <3>1, CapacityAssumption DEF ForwardSpace
    <3>2. CASE After(segs, p) # {}
      <4>1. PICK s \in After(segs, p) : TRUE
        BY <3>2
      <4>2. s[1] \in Int
        BY <1>b, CapacityAssumption DEF Addresses
      <4> QED BY <1>a, <2>3, <4>1, <4>2, CapacityAssumption
    <3> QED BY <3>1, <3>2
  <2>5. ASSUME NEW s \in segs PROVE s \in Before(segs, p) \/ s \in After(segs, p)
    BY <1>0, CapacityAssumption DEF Before, After, Addresses
  <2>6. \A s \in segs : Apart(s, <<a, a + size>>)
    BY <2>2, <2>3, <2>5 DEF Apart
  <2> QED BY <2>1, <2>4, <2>6
<1>3. CASE segs # {} /\ ForwardSpace(segs, p) < size /\ WrapAroundSpace(segs) >= size
  <2>1. w = 0
    BY <1>3 DEF WritePtrAfter
  <2>2. /\ First(segs) \in segs
        /\ \A s \in segs : First(segs)[1] <= s[1]
    BY <1>b, <1>3, FirstIsLeast
  <2>3. size <= First(segs)[1]
    BY <1>3, <2>2, <1>0, CapacityAssumption DEF WrapAroundSpace, Addresses
  <2>4. size <= Capacity
    BY <1>0, <2>2, <2>3, CapacityAssumption DEF Addresses
  <2>5. ASSUME NEW s \in segs PROVE size <= s[1]
    BY <1>0, <2>2, <2>3, CapacityAssumption DEF Addresses
  <2> QED BY <2>1, <2>4, <2>5 DEF Apart
<1>4. CASE segs # {} /\ ForwardSpace(segs, p) < size /\ WrapAroundSpace(segs) < size
  <2>1. FreeMemory(segs, p, size) = 0
    BY <1>4, SpacesAreIntegers DEF FreeMemory
  <2> QED BY <2>1
<1> QED BY <1>1, <1>2, <1>3, <1>4, SpacesAreIntegers

-----------------------------------------------------------------------------
LEMMA InvariantPlaces ==
  ASSUME BufferInv
  PROVE  /\ WellPlaced(fSegments) /\ fWritePtr \in Addresses
         /\ reserved[1] \in Addresses /\ reserved[2] \in Addresses
         /\ reserved = <<reserved[1], reserved[2]>>
BY DEF BufferInv, BufferTypeOK, SegmentsAreDisjoint, WellPlaced, Addresses

LEMMA GrantPreserves ==
  ASSUME BufferInv, NEW size \in Nat, getFreeContiguousMemory(size)
  PROVE  BufferInv'
<1> DEFINE w == WritePtrAfter(fSegments, fWritePtr, size)
<1>1. /\ WellPlaced(fSegments) /\ fWritePtr \in Addresses
      /\ reserved[1] = reserved[2]
  BY InvariantPlaces DEF getFreeContiguousMemory
<1>2. fSegments' = fSegments /\ fWritePtr' = w
  BY DEF getFreeContiguousMemory
<1>3. w \in Addresses
  BY <1>1, WritePtrStaysInside
<1>4. fFreeContiguousSpace' \in 0 .. Word - 1
  <2>1. CASE fSegments = {}
    BY <2>1 DEF getFreeContiguousMemory, FreeSpaceAfter, BufferInv, BufferTypeOK
  <2>2. CASE fSegments # {}
    <3> DEFINE n == ForwardSpace(fSegments, fWritePtr) + WrapAroundSpace(fSegments) - size
    <3>1. n \in Int
      BY <1>1, <2>2, SpacesAreIntegers
    <3>2. fFreeContiguousSpace' = n % Word
      BY <2>2 DEF getFreeContiguousMemory, FreeSpaceAfter
    <3> HIDE DEF n
    <3>3. Word \in Nat /\ Word > 0
      BY CapacityAssumption
    <3>4. n % Word \in 0 .. Word - 1
      BY <3>1, <3>3
    <3> QED BY <3>2, <3>4
  <2> QED BY <2>1, <2>2
<1>5. CASE FreeMemory(fSegments, fWritePtr, size) > size
  <2>1. reserved' = <<w, w + size>>
    BY <1>2, <1>5 DEF getFreeContiguousMemory, Admits
  <2>2. w + size <= Capacity /\ \A s \in fSegments : Apart(s, <<w, w + size>>)
    BY <1>1, <1>5, RoomIsFree
  <2> HIDE DEF w
  <2>3. w + size \in Addresses /\ w <= w + size
    BY <1>3, <2>2, CapacityAssumption DEF Addresses
  <2>4. BufferTypeOK'
    BY <1>2, <1>3, <1>4, <2>1, <2>3 DEF BufferInv, BufferTypeOK, Addresses
  <2>5. SegmentsAreDisjoint'
    BY <1>2 DEF BufferInv, SegmentsAreDisjoint
  <2>6. ReservedIsFree'
    BY <1>2, <2>1, <2>2, <2>3 DEF ReservedIsFree
  <2>7. SegmentsBeginAtWritePtr'
    BY <1>2, <2>1 DEF SegmentsBeginAtWritePtr
  <2> QED BY <2>4, <2>5, <2>6, <2>7 DEF BufferInv
<1>6. CASE ~ FreeMemory(fSegments, fWritePtr, size) > size
  <2>1. reserved' = reserved
    BY <1>6 DEF getFreeContiguousMemory, Admits
  <2> HIDE DEF w
  <2>2. BufferTypeOK'
    BY <1>2, <1>3, <1>4, <2>1 DEF BufferInv, BufferTypeOK, Addresses
  <2>3. SegmentsAreDisjoint'
    BY <1>2 DEF BufferInv, SegmentsAreDisjoint
  <2>4. ReservedIsFree'
    BY <1>2, <2>1 DEF BufferInv, ReservedIsFree
  <2>5. ~ reserved[1] < reserved[2]
    BY <1>1, InvariantPlaces, CapacityAssumption DEF Addresses
  <2>6. SegmentsBeginAtWritePtr'
    BY <2>1, <2>5 DEF SegmentsBeginAtWritePtr
  <2> QED BY <2>2, <2>3, <2>4, <2>6 DEF BufferInv
<1> QED BY <1>5, <1>6

LEMMA AddPreserves ==
  ASSUME BufferInv, NEW end \in 0 .. Capacity, addSegment(end)
  PROVE  BufferInv'
<1> DEFINE new == <<reserved[1], end>>
<1>1. /\ reserved[1] < end /\ end <= reserved[2]
      /\ fSegments' = fSegments \cup {new} /\ fWritePtr' = end
      /\ reserved' = <<end, reserved[2]>>
      /\ fFreeContiguousSpace' = fFreeContiguousSpace
  BY DEF addSegment
<1>2. /\ reserved[1] \in Int /\ reserved[2] \in Int /\ end \in Int
      /\ reserved[1] \in 0 .. Capacity /\ reserved[2] \in 0 .. Capacity
  BY InvariantPlaces, CapacityAssumption DEF Addresses
<1>3. \A s \in fSegments : Apart(s, reserved)
  BY <1>1, <1>2 DEF BufferInv, ReservedIsFree
<1>4. \A s \in fSegments : s[1] \in Int /\ s[2] \in Int
  BY InvariantPlaces, CapacityAssumption DEF WellPlaced, Addresses
<1>5. \A s \in fSegments : Apart(s, new) /\ Apart(new, s)
  BY <1>1, <1>2, <1>3, <1>4 DEF Apart
<1>6. BufferTypeOK'
  <2>1. new \in (0 .. Capacity) \X (0 .. Capacity)
    BY <1>2
  <2> HIDE DEF new
  <2> QED BY <1>1, <1>2, <2>1 DEF BufferInv, BufferTypeOK
<1>7. SegmentsAreDisjoint'
  <2>1. new[1] < new[2]
    BY <1>1
  <2> HIDE DEF new
  <2> QED BY <1>1, <1>5, <2>1 DEF BufferInv, SegmentsAreDisjoint
<1>8. ReservedIsFree'
  <2>1. ASSUME NEW s \in fSegments PROVE Apart(s, <<end, reserved[2]>>)
    BY <1>1, <1>2, <1>3, <1>4 DEF Apart
  <2>2. Apart(new, <<end, reserved[2]>>)
    BY <1>2 DEF Apart
  <2> HIDE DEF new
  <2> QED BY <1>1, <2>1, <2>2 DEF ReservedIsFree
<1>9. SegmentsBeginAtWritePtr'
  BY <1>1 DEF SegmentsBeginAtWritePtr
<1> QED BY <1>6, <1>7, <1>8, <1>9 DEF BufferInv

LEMMA RemovePreserves ==
  ASSUME BufferInv, NEW s \in fSegments, removeSegment(s)
  PROVE  BufferInv'
<1>1. /\ fSegments' = fSegments \ {s} /\ fWritePtr' = fWritePtr
      /\ reserved' = reserved /\ fFreeContiguousSpace' = fFreeContiguousSpace
  BY DEF removeSegment
<1> QED BY <1>1 DEF BufferInv, BufferTypeOK, SegmentsAreDisjoint, ReservedIsFree,
                    SegmentsBeginAtWritePtr

LEMMA BufferInitially == BufferInit => BufferInv
BY CapacityAssumption DEF BufferInit, BufferInv, BufferTypeOK, SegmentsAreDisjoint, ReservedIsFree,
                          SegmentsBeginAtWritePtr

(* The four invariants together are inductive: the room that is found is   *)
(* free because the segments are disjoint, and the segments made of it are *)
(* disjoint because it was free and nothing else is added meanwhile.       *)
THEOREM Invariance == BufferSpec => []BufferInv
<1>1. BufferInv /\ [BufferNext]_bufferVars => BufferInv'
  <2> SUFFICES ASSUME BufferInv, [BufferNext]_bufferVars PROVE BufferInv'
    OBVIOUS
  <2>1. CASE \E size \in Nat : getFreeContiguousMemory(size)
    BY <2>1, GrantPreserves
  <2>2. CASE \E end \in 0 .. Capacity : addSegment(end)
    BY <2>2, AddPreserves
  <2>3. CASE \E s \in fSegments : removeSegment(s)
    BY <2>3, RemovePreserves
  <2>4. CASE UNCHANGED bufferVars
    BY <2>4 DEF bufferVars, BufferInv, BufferTypeOK, SegmentsAreDisjoint, ReservedIsFree,
                SegmentsBeginAtWritePtr
  <2> QED BY <2>1, <2>2, <2>3, <2>4 DEF BufferNext
<1> QED BY <1>1, BufferInitially, PTL DEF BufferSpec

(* The pointers stay inside the buffer and every variable has its type.    *)
THEOREM TypeCorrectness == BufferSpec => []BufferTypeOK
<1>1. BufferInv => BufferTypeOK
  BY DEF BufferInv
<1> QED BY <1>1, Invariance, PTL

(* Segments of two batches or two workers never overlap: the assertion of  *)
(* checkForOverlaps holds.                                                 *)
THEOREM SegmentsNeverOverlap == BufferSpec => []SegmentsAreDisjoint
<1>1. BufferInv => SegmentsAreDisjoint
  BY DEF BufferInv
<1> QED BY <1>1, Invariance, PTL

(* A batch is never copied over hits a worker may still read.              *)
THEOREM GrantedRoomIsFree == BufferSpec => []ReservedIsFree
<1>1. BufferInv => ReservedIsFree
  BY DEF BufferInv
<1> QED BY <1>1, Invariance, PTL

(* addSegment's check of its begin against fWritePtr never fails, whatever *)
(* is removed between the parts of a batch.                                *)
THEOREM SegmentsStartAtWritePtr == BufferSpec => []SegmentsBeginAtWritePtr
<1>1. BufferInv => SegmentsBeginAtWritePtr
  BY DEF BufferInv
<1> QED BY <1>1, Invariance, PTL

-----------------------------------------------------------------------------
(* A batch is in the previous device buffer from the swap on; what the     *)
(* stream does tells how far it has come.                                  *)
BatchStates ==
  \/ fDeviceState[previous] = "NeedTransferToHost" /\ stream = "idle"
  \/ fDeviceState[previous] = "TransferToHost" /\ stream \in {"copy", "free"}
  \/ fDeviceState[previous] = "Free" /\ stream \in {"finish", "idle"}

IInv ==
  /\ fActiveBuffer \in {0, 1}
  /\ fDeviceState \in [{0, 1} -> {"Free", "Filling", "NeedTransferToHost", "TransferToHost"}]
  /\ fDeviceState[fActiveBuffer] = "Filling"
  /\ tpc \in {"transport", "flipped", "published", "synchronizing"}
  /\ tpc = "flipped" => /\ fDeviceState[previous] = "Filling" /\ stream = "idle"
                        /\ hostState = "ReadyToBeFilled"
  /\ tpc # "flipped" => BatchStates
  /\ hpc = "push" => /\ fDeviceState[previous] = "Free" /\ stream = "idle"
                     /\ hostState \in {"TransferFromDeviceFinished", "AwaitingDeviceTransfer"}
  /\ hostState = "ReadyToBeFilled" /\ tpc \in {"transport", "synchronizing"} =>
       fDeviceState[previous] = "Free" /\ stream = "idle"
  /\ hostState = "TransferFromDeviceFinished" => fDeviceState[previous] = "Free" /\ stream = "idle"

(* Both buffers are free and the stream is idle at the start.              *)
LEMMA InitInvariant == Init => IInv
BY DEF Init, IInv, BatchStates, previous

(* Whatever the two threads, the stream and the workers do, in any order.  *)
LEMMA StepInvariant == IInv /\ [Next]_vars => IInv'
<1> SUFFICES ASSUME IInv, [Next]_vars PROVE IInv'
  OBVIOUS
<1> USE DEF IInv, BatchStates, previous, historyVars, deviceVars, swapVars, stateVars, batchVars,
        hostVars, threadVars, bufferVars
<1>1. ASSUME NEW w \in Workers, RecordHit(w) PROVE IInv'
  BY <1>1 DEF RecordHit
<1>2. CASE SwapDeviceBuffers
  BY <1>2 DEF SwapDeviceBuffers, ReadyToSwapBuffers
<1>3. CASE PublishSwap
  BY <1>3 DEF PublishSwap
<1>4. CASE WakeUp
  BY <1>4 DEF WakeUp
<1>5. CASE TransferHitsToHost
  BY <1>5 DEF TransferHitsToHost, NeedsTransfer
<1>6. CASE ProcessHits
  BY <1>6 DEF ProcessHits
<1>7. CASE PushHits
  BY <1>7 DEF PushHits
<1>8. CASE ReleaseHostBuffer
  BY <1>8 DEF ReleaseHostBuffer
<1>9. CASE CopyOut
  BY <1>9 DEF CopyOut
<1>10. CASE EndProcessBuffer
  BY <1>10 DEF EndProcessBuffer
<1>11. CASE CopyCounts
  BY <1>11 DEF CopyCounts
<1>12. CASE CopyHits
  BY <1>12 DEF CopyHits
<1>13. CASE FreeDeviceBuffer
  BY <1>13 DEF FreeDeviceBuffer
<1>14. CASE FinishTransfer
  BY <1>14 DEF FinishTransfer
<1>15. ASSUME NEW w \in Workers, Worker(w) PROVE IInv'
  BY <1>15 DEF Worker, GetNextHitsHandle, ProcessGPUSteps, CloseHitsHandle
<1>16. CASE UNCHANGED vars
  BY <1>16 DEF vars
<1> QED BY <1>1, <1>2, <1>3, <1>4, <1>5, <1>6, <1>7, <1>8, <1>9, <1>10, <1>11, <1>12, <1>13, <1>14,
           <1>15, <1>16 DEF Next, HitThread, Callback

(* The states of the buffers go together as IInv says, always.             *)
THEOREM InvariantHolds == Safety => []IInv
BY InitInvariant, StepInvariant, PTL DEF Safety

(* SwapDeviceBuffers never finds the next device buffer in use, even if    *)
(* the hit thread looks for a batch in the middle of a swap.               *)
THEOREM SwapNeverThrowsHolds == Safety => []SwapNeverThrows
<1>1. IInv => SwapNeverThrows
  BY DEF IInv, SwapNeverThrows
<1> QED BY InvariantHolds, <1>1, PTL
-----------------------------------------------------------------------------
(* Where the hits of a batch are: sums of its counters.                    *)
Counters == [Workers -> 0 .. NSlot]
Part(counts, i) == Count(counts, 1 .. i)

LEMMA WorkersFinite ==
  /\ NWorkers \in Nat /\ NSlot \in Nat
  /\ \A i \in 0 .. NWorkers : 1 .. i \in SUBSET Workers
  /\ \A S \in SUBSET Workers : IsFiniteSet(S)
  /\ IsFiniteSet(Workers) /\ Cardinality(Workers) = NWorkers
<1>1. NWorkers \in Nat /\ NSlot \in Nat /\ NWorkers # 0 /\ 1 \in Int /\ NWorkers \in Int
  BY HitScoringAssumption
<1>2. /\ IsFiniteSet(Workers)
      /\ Cardinality(Workers) = IF 1 > NWorkers THEN 0 ELSE NWorkers - 1 + 1
  BY <1>1, FS_Interval DEF Workers
<1>3. \A S \in SUBSET Workers : IsFiniteSet(S)
  BY <1>2, FS_Subset
<1>4. \A i \in 0 .. NWorkers : 1 .. i \in SUBSET Workers
  BY <1>1 DEF Workers
<1>5. (IF 1 > NWorkers THEN 0 ELSE NWorkers - 1 + 1) = NWorkers
  BY <1>1
<1> QED BY <1>1, <1>2, <1>3, <1>4, <1>5

(* The parts grow worker by worker, up to the size of the device buffer.   *)
LEMMA Parts ==
  ASSUME NEW counts \in Counters
  PROVE  /\ Part(counts, 0) = 0
         /\ \A i \in 0 .. NWorkers : Part(counts, i) \in Nat
         /\ \A i \in Workers : /\ Part(counts, i) = Part(counts, i - 1) + counts[i]
                               /\ counts[i] \in Nat
<1> USE WorkersFinite
<1>1. \A w \in Workers : counts[w] \in Nat
  BY DEF Counters
<1>2. 1 .. 0 = {}
  OBVIOUS
<1>3. Part(counts, 0) = 0
  BY <1>2, CountOfNone DEF Part
<1>4. ASSUME NEW i \in 0 .. NWorkers
      PROVE  Part(counts, i) \in Nat
  <2>1. IsFiniteSet(1 .. i) /\ \A x \in 1 .. i : counts[x] \in Nat
    BY <1>1
  <2> QED BY <2>1, CountIsNat DEF Part
<1>5. ASSUME NEW i \in Workers
      PROVE  Part(counts, i) = Part(counts, i - 1) + counts[i]
  <2>1. i \in 1 .. i /\ 1 .. i \in SUBSET Workers /\ (1 .. i) \ {i} = 1 .. (i - 1)
        /\ i \in 0 .. NWorkers /\ i - 1 \in 0 .. NWorkers
    BY DEF Workers
  <2>2. Count(counts, 1 .. i) = counts[i] + Count(counts, (1 .. i) \ {i})
    <3> DEFINE T == 1 .. i
    <3>1. IsFiniteSet(Workers) /\ T \in SUBSET Workers /\ i \in T
      BY <2>1
    <3> HIDE DEF T
    <3>2. Count(counts, T) = counts[i] + Count(counts, T \ {i})
      BY <1>1, <3>1, CountWithout
    <3> QED BY <3>2 DEF T
  <2>3. Count(counts, 1 .. i) = counts[i] + Count(counts, 1 .. (i - 1))
    BY <2>1, <2>2
  <2>4. Part(counts, i) = counts[i] + Part(counts, i - 1)
    BY <2>3 DEF Part
  <2>5. Part(counts, i - 1) \in Nat /\ counts[i] \in Nat
    BY <1>1, <1>4, <2>1
  <2> QED BY <2>4, <2>5
<1> QED BY <1>1, <1>3, <1>4, <1>5

LEMMA PartsGrow ==
  ASSUME NEW counts \in Counters, NEW i \in 0 .. NWorkers, NEW j \in 0 .. NWorkers, i <= j
  PROVE  Part(counts, i) <= Part(counts, j)
<1> USE WorkersFinite
<1>1. /\ 1 .. j = (1 .. i) \cup ((i + 1) .. j) /\ (1 .. i) \cap ((i + 1) .. j) = {}
      /\ 1 .. i \in SUBSET Workers /\ (i + 1) .. j \in SUBSET Workers
  BY DEF Workers
<1> DEFINE S == 1 .. i
           T == (i + 1) .. j
<1>2. /\ IsFiniteSet(S) /\ \A x \in S : counts[x] \in Nat
      /\ IsFiniteSet(T) /\ \A x \in T : counts[x] \in Nat
  BY <1>1 DEF Counters
<1>3. S \cap T = {} /\ 1 .. j = S \cup T
  BY <1>1
<1> HIDE DEF S, T
<1>4. IsFiniteSet(Quanta(counts, S)) /\ IsFiniteSet(Quanta(counts, T))
  BY <1>2, CountIsNat
<1>5. /\ Count(counts, S \cup T) = Count(counts, S) + Count(counts, T)
      /\ Count(counts, S) \in Nat /\ Count(counts, T) \in Nat
  BY <1>3, <1>4, CountOfTwo
<1>6. Part(counts, j) = Count(counts, S \cup T)
  BY <1>3 DEF Part
<1>7. Part(counts, i) = Count(counts, S)
  BY DEF Part, S
<1> QED BY <1>5, <1>6, <1>7

LEMMA BatchFits ==
  ASSUME NEW counts \in Counters
  PROVE  Part(counts, NWorkers) \in 0 .. HitCapacity /\ HitCapacity \in Nat
<1> USE WorkersFinite
<1> DEFINE I == 0 .. NSlot - 1
<1>1. IsFiniteSet(I) /\ Cardinality(I) = NSlot
  <2>1. 0 \in Int /\ NSlot - 1 \in Int
    OBVIOUS
  <2>2. IsFiniteSet(I) /\ Cardinality(I) = IF 0 > NSlot - 1 THEN 0 ELSE NSlot - 1 - 0 + 1
    BY <2>1, FS_Interval
  <2>3. (IF 0 > NSlot - 1 THEN 0 ELSE NSlot - 1 - 0 + 1) = NSlot
    OBVIOUS
  <2> QED BY <2>2, <2>3
<1>2. /\ IsFiniteSet(Workers \X I)
      /\ Cardinality(Workers \X I) = Cardinality(Workers) * Cardinality(I)
  BY <1>1, FS_Product
<1>3. Quanta(counts, Workers) \in SUBSET (Workers \X I)
  BY DEF Quanta, Counters
<1>4. Cardinality(Quanta(counts, Workers)) <= Cardinality(Workers \X I)
  BY <1>2, <1>3, FS_Subset
<1> HIDE DEF I
<1>5. Cardinality(Workers \X I) = NWorkers * NSlot
  BY <1>1, <1>2
<1>6. Part(counts, NWorkers) = Cardinality(Quanta(counts, Workers))
  BY DEF Part, Count, Workers
<1>7. Part(counts, NWorkers) \in Nat /\ HitCapacity \in Nat
  BY Parts DEF HitCapacity
<1> QED BY <1>4, <1>5, <1>6, <1>7 DEF HitCapacity

(* The sums of the code are these parts, before and after a step.          *)
LEMMA HitsAreParts ==
  ASSUME hostBufferCount \in Counters, offsetAtCopy \in Nat
  PROVE  /\ Hits(Batch) = Part(hostBufferCount, NWorkers)
         /\ \A i \in Workers : /\ Begin(i) = offsetAtCopy + Part(hostBufferCount, i - 1)
                               /\ End(i) = offsetAtCopy + Part(hostBufferCount, i)
<1> USE WorkersFinite
<1>1. ASSUME NEW i \in 0 .. NWorkers
      PROVE  Hits(1 .. i) = Part(hostBufferCount, i)
  <2>1. IsFiniteSet(1 .. i) /\ \A x \in 1 .. i : hostBufferCount[x] \in Nat
    BY DEF Counters
  <2> QED BY <2>1, SumIsCount DEF Hits, Part
<1>2. Hits(Batch) = Part(hostBufferCount, NWorkers)
  BY <1>1 DEF Batch
<1>3. ASSUME NEW i \in Workers
      PROVE  /\ Begin(i) = offsetAtCopy + Part(hostBufferCount, i - 1)
             /\ End(i) = offsetAtCopy + Part(hostBufferCount, i)
  <2>1. i - 1 \in 0 .. NWorkers /\ i \in 0 .. NWorkers
    BY DEF Workers
  <2>2. Begin(i) = offsetAtCopy + Part(hostBufferCount, i - 1)
    BY <1>1, <2>1 DEF Begin
  <2>3. /\ Part(hostBufferCount, i) = Part(hostBufferCount, i - 1) + hostBufferCount[i]
        /\ Part(hostBufferCount, i - 1) \in Nat /\ hostBufferCount[i] \in Nat
    BY <2>1, Parts
  <2> QED BY <2>2, <2>3 DEF End
<1> QED BY <1>2, <1>3
-----------------------------------------------------------------------------
(* The phases of a batch: what the states and the two threads say of each  *)
(* other until a transfer is hasty.                                        *)
Pushed == IF hpc = "push" THEN index - 1 ELSE 0
Transferring == hostState \in {"TransferFromDevice", "TransferFromDeviceFinished"}

Phases ==
  /\ hpc = "push" => hostState = "TransferFromDeviceFinished"
  /\ Transferring => /\ tpc \in {"transport", "synchronizing"} /\ countsCopied
                     /\ hpc \in {"transfer", "process", "push"}
  /\ stream # "idle" <=> hostState = "TransferFromDevice"
  /\ hostState = "AwaitingDeviceTransfer" => fDeviceState[previous] = "NeedTransferToHost"
  /\ tpc = "transport" => countsCopied
  /\ tpc = "published" => fDeviceState[previous] = "NeedTransferToHost"
  /\ tpc = "synchronizing" =>
       countsCopied \/ fDeviceState[previous] = "NeedTransferToHost"
  /\ fDeviceState[previous] = "NeedTransferToHost" =>
       IF tpc = "published" THEN hostState = "ReadyToBeFilled"
       ELSE hostState = "AwaitingDeviceTransfer"

(* The copies enqueued are those of the batch.                             *)
Sizes == stream = "copy" => copySizes = hostBufferCount

(* The room granted is for the part of the batch that is not queued yet.   *)
Granted ==
  IF Transferring
  THEN reserved = <<offsetAtCopy + Part(hostBufferCount, Pushed),
                    offsetAtCopy + Part(hostBufferCount, NWorkers)>>
  ELSE reserved[1] = reserved[2]

(* Items with their hits in the host buffer, and the segments in use: each *)
(* is for exactly one other.                                               *)
Places(w) == {k \in DOMAIN fHitQueues[w] : fHitQueues[w][k].IsDataOnHostBuffer}
SegmentOf(w, k) == <<fHitQueues[w][k].begin, fHitQueues[w][k].end>>

SegmentsHaveItems ==
  \A s \in fSegments : \E w \in Workers : \E k \in Places(w) : s = SegmentOf(w, k)
ItemsHaveSegments == \A w \in Workers : \A k \in Places(w) : SegmentOf(w, k) \in fSegments
ItemsAreApart ==
  \A v, w \in Workers : \A j \in Places(v) : \A k \in Places(w) :
    fHitQueues[v][j].begin = fHitQueues[w][k].begin => v = w /\ j = k

(* Nobody has moved the hits of an item on which no one has started, and   *)
(* an item that a worker holds is the first of its queue, and started on.  *)
Unstarted == \A w \in Workers : \A k \in DOMAIN fHitQueues[w] :
               ~fHitQueues[w][k].ScoringStarted => k \in Places(w)
Held == \A w \in Workers : handle[w].step # "none" =>
          /\ fHitQueues[w] # <<>> /\ fHitQueues[w][1].ScoringStarted
          /\ handle[w].item.begin = fHitQueues[w][1].begin
          /\ handle[w].item.end = fHitQueues[w][1].end
          /\ handle[w].item.IsDataOnHostBuffer = fHitQueues[w][1].IsDataOnHostBuffer
          /\ handle[w].item.holdoutBuffer = fHitQueues[w][1].holdoutBuffer

QueueInv == /\ SegmentsHaveItems /\ ItemsHaveSegments /\ ItemsAreApart
            /\ Unstarted /\ Held

AInv == TypeOK /\ IInv /\ BufferInv /\ Phases /\ Sizes /\ Granted /\ QueueInv

(* What the steps need of the types.                                       *)
LEMMA BatchTypes ==
  ASSUME AInv
  PROVE  /\ hostBufferCount \in Counters /\ offsetAtCopy \in Nat
         /\ index \in 1 .. NWorkers + 1 /\ Capacity \in Nat /\ NWorkers \in Nat
         /\ \A w \in Workers : /\ fHitQueues[w] \in Seq(Items)
                               /\ handle[w].item \in Items
BY HitScoringAssumption, CapacityAssumption DEF AInv, TypeOK, Counters

(* Removing what begins where an item's hits do removes its segment only.  *)
LEMMA RemovesOne ==
  ASSUME AInv, NEW w \in Workers, NEW k \in Places(w)
  PROVE  /\ SegmentOf(w, k) \in fSegments
         /\ {t \in fSegments : t[1] # fHitQueues[w][k].begin} = fSegments \ {SegmentOf(w, k)}
<1>1. SegmentOf(w, k) \in fSegments
  BY DEF AInv, QueueInv, ItemsHaveSegments
<1>2. ASSUME NEW t \in fSegments
      PROVE  t[1] = fHitQueues[w][k].begin <=> t = SegmentOf(w, k)
  <2>1. PICK v \in Workers : \E j \in Places(v) : t = SegmentOf(v, j)
    BY DEF AInv, QueueInv, SegmentsHaveItems
  <2>2. PICK j \in Places(v) : t = SegmentOf(v, j)
    BY <2>1
  <2>3. t[1] = fHitQueues[v][j].begin
    BY <2>2 DEF SegmentOf
  <2>4. t[1] = fHitQueues[w][k].begin => v = w /\ j = k
    <3>1. ItemsAreApart
      BY DEF AInv, QueueInv
    <3>2. fHitQueues[v][j].begin = fHitQueues[w][k].begin => v = w /\ j = k
      BY <3>1 DEF ItemsAreApart
    <3> QED BY <2>3, <3>2
  <2>5. SegmentOf(w, k)[1] = fHitQueues[w][k].begin
    BY DEF SegmentOf
  <2> QED BY <2>2, <2>4, <2>5
<1> QED BY <1>1, <1>2

(* The next part of a batch that is to be queued lies at the begin of the  *)
(* granted room.                                                           *)
LEMMA PartOfBatch ==
  ASSUME AInv, hpc = "push", index \in Workers
  PROVE  /\ Begin(index) = reserved[1] /\ End(index) <= reserved[2]
         /\ Begin(index) \in Nat /\ End(index) \in 0 .. Capacity
         /\ End(index) = offsetAtCopy + Part(hostBufferCount, index)
         /\ reserved[2] = offsetAtCopy + Part(hostBufferCount, NWorkers)
         /\ hostBufferCount[index] \in Nat
         /\ End(index) = Begin(index) + hostBufferCount[index]
<1> DEFINE c == hostBufferCount
<1>1. c \in Counters /\ offsetAtCopy \in Nat
  BY BatchTypes
<1>2. /\ Begin(index) = offsetAtCopy + Part(c, index - 1)
      /\ End(index) = offsetAtCopy + Part(c, index)
  BY <1>1, HitsAreParts
<1>3. Transferring /\ Pushed = index - 1
  BY DEF AInv, Phases, Transferring, Pushed
<1>4. reserved = <<offsetAtCopy + Part(c, index - 1), offsetAtCopy + Part(c, NWorkers)>>
  BY <1>3 DEF AInv, Granted
<1>5. /\ index \in 0 .. NWorkers /\ index - 1 \in 0 .. NWorkers /\ NWorkers \in 0 .. NWorkers
      /\ index <= NWorkers
  BY WorkersFinite DEF Workers
<1> HIDE DEF c
<1>6. /\ Part(c, index - 1) \in Nat /\ Part(c, index) \in Nat /\ Part(c, NWorkers) \in Nat
      /\ Part(c, index) <= Part(c, NWorkers)
      /\ Part(c, index) = Part(c, index - 1) + c[index] /\ c[index] \in Nat
  BY <1>1, <1>5, Parts, PartsGrow
<1>7. reserved[1] \in 0 .. Capacity /\ reserved[2] \in 0 .. Capacity /\ Capacity \in Nat
  BY CapacityAssumption DEF AInv, TypeOK, BufferTypeOK
<1>8. reserved[1] = offsetAtCopy + Part(c, index - 1) /\ reserved[2] = offsetAtCopy + Part(c, NWorkers)
  BY <1>4
<1> QED BY <1>1, <1>2, <1>6, <1>7, <1>8 DEF c
(* What each step does to the manager of the host buffer is one of its     *)
(* operations, or nothing.                                                 *)
LEMMA TransferUse ==
  ASSUME AInv, TransferHitsToHost
  PROVE  [BufferUse]_bufferVars
<1>1. CASE ~NeedsTransfer
  BY <1>1 DEF TransferHitsToHost
<1>2. CASE NeedsTransfer
  <2>1. getFreeContiguousMemory(Hits(Batch))
    BY <1>2 DEF TransferHitsToHost
  <2>2. Hits(Batch) \in 0 .. HitCapacity /\ HitCapacity \in Nat /\ Capacity \in Nat
    BY BatchTypes, HitsAreParts, BatchFits
  <2>3. Hits(Batch) \in 0 .. Capacity
    BY <2>2, HitScoringAssumption
  <2> QED BY <2>1, <2>3 DEF BufferUse
<1> QED BY <1>1, <1>2

LEMMA PushUse ==
  ASSUME AInv, PushHits
  PROVE  [BufferUse]_bufferVars
<1>1. hpc = "push" /\ index \in Workers
  BY BatchTypes DEF PushHits, Workers
<1>2. /\ Begin(index) = reserved[1] /\ End(index) <= reserved[2]
      /\ Begin(index) \in Nat /\ End(index) \in 0 .. Capacity
      /\ hostBufferCount[index] \in Nat
      /\ End(index) = Begin(index) + hostBufferCount[index]
  BY <1>1, PartOfBatch
<1>3. CASE HasHits(index)
  <2>1. reserved[1] < End(index)
    BY <1>2, <1>3 DEF HasHits
  <2>2. /\ fSegments' = fSegments \cup {<<Begin(index), End(index)>>}
        /\ fWritePtr' = End(index) /\ reserved' = <<End(index), reserved[2]>>
        /\ UNCHANGED fFreeContiguousSpace
    BY <1>3 DEF PushHits
  <2>3. addSegment(End(index))
    BY <1>2, <2>1, <2>2, Zenon DEF addSegment
  <2> QED BY <1>2, <2>3 DEF BufferUse
<1>4. CASE ~HasHits(index)
  BY <1>4 DEF PushHits, bufferVars
<1> QED BY <1>3, <1>4

(* The item that is copied out is the last of its queue.                   *)
CopiesOut ==
  /\ fHitQueues[index] # <<>> /\ ~fHitQueues[index][Len(fHitQueues[index])].ScoringStarted
  /\ TooFull

LEMMA CopyOutStep ==
  ASSUME AInv, CopyOut
  PROVE  /\ index \in Workers /\ index' = index + 1
         /\ CopiesOut => LET n == Len(fHitQueues[index])
                             last == fHitQueues[index][n]
                         IN  /\ n \in Places(index)
                             /\ fSegments' = fSegments \ {SegmentOf(index, n)}
                             /\ SegmentOf(index, n) \in fSegments
                             /\ hostBuffer' = Clear(last.begin)
                             /\ fHitQueues' = [fHitQueues EXCEPT ![index][n] =
                                  [NoItem EXCEPT !.ScoringStarted = TRUE,
                                                 !.holdoutBuffer = Contents(last)]]
         /\ ~CopiesOut => UNCHANGED <<fSegments, hostBuffer, fHitQueues>>
         /\ UNCHANGED <<fWritePtr, fFreeContiguousSpace, reserved>>
         /\ UNCHANGED <<historyVars, deviceVars, swapVars, stateVars, batchVars, hpc, handle>>
<1>1. index \in Workers /\ index' = index + 1
  BY BatchTypes DEF CopyOut, Workers
<1>2. fHitQueues[index] \in Seq(Items)
  BY <1>1, BatchTypes
<1> DEFINE n == Len(fHitQueues[index])
           last == fHitQueues[index][n]
<1>3. ASSUME CopiesOut
      PROVE  /\ n \in Places(index)
             /\ fSegments' = fSegments \ {SegmentOf(index, n)}
             /\ SegmentOf(index, n) \in fSegments
             /\ hostBuffer' = Clear(last.begin)
             /\ fHitQueues' = [fHitQueues EXCEPT ![index][n] =
                  [NoItem EXCEPT !.ScoringStarted = TRUE, !.holdoutBuffer = Contents(last)]]
  <2>1. n \in DOMAIN fHitQueues[index] /\ ~last.ScoringStarted
    BY <1>2, <1>3 DEF CopiesOut
  <2>2. n \in Places(index)
    <3>1. Unstarted
      BY DEF AInv, QueueInv
    <3> QED BY <1>1, <2>1, <3>1 DEF Unstarted
  <2>3. /\ fSegments' = {s \in fSegments : s[1] # last.begin}
        /\ hostBuffer' = Clear(last.begin)
        /\ fHitQueues' = [fHitQueues EXCEPT ![index][n] =
                  [NoItem EXCEPT !.ScoringStarted = TRUE, !.holdoutBuffer = Contents(last)]]
    BY <1>3, Zenon DEF CopyOut, CopiesOut
  <2>4. /\ SegmentOf(index, n) \in fSegments
        /\ {t \in fSegments : t[1] # last.begin} = fSegments \ {SegmentOf(index, n)}
    BY <1>1, <2>2, RemovesOne
  <2> QED BY <2>2, <2>3, <2>4
<1>4. ASSUME ~CopiesOut
      PROVE  UNCHANGED <<fSegments, hostBuffer, fHitQueues>>
  BY <1>4, Zenon DEF CopyOut, CopiesOut
<1>5. /\ UNCHANGED <<fWritePtr, fFreeContiguousSpace, reserved>>
      /\ UNCHANGED <<historyVars, deviceVars, swapVars, stateVars, batchVars, hpc, handle>>
  BY DEF CopyOut
<1> QED BY <1>1, <1>3, <1>4, <1>5

LEMMA CloseStep ==
  ASSUME AInv, NEW w \in Workers, CloseHitsHandle(w)
  PROVE  /\ fHitQueues[w] # <<>> /\ fHitQueues[w] \in Seq(Items)
         /\ 1 \in Places(w) =>
              /\ fSegments' = fSegments \ {SegmentOf(w, 1)}
              /\ SegmentOf(w, 1) \in fSegments
              /\ hostBuffer' = Clear(fHitQueues[w][1].begin)
         /\ 1 \notin Places(w) => UNCHANGED <<fSegments, hostBuffer>>
<1>1. fHitQueues[w] \in Seq(Items)
  BY BatchTypes
<1>2. handle[w].step # "none"
  BY DEF CloseHitsHandle
<1>3. /\ fHitQueues[w] # <<>>
      /\ handle[w].item.begin = fHitQueues[w][1].begin
      /\ handle[w].item.IsDataOnHostBuffer = fHitQueues[w][1].IsDataOnHostBuffer
  <2>1. Held
    BY DEF AInv, QueueInv
  <2> QED BY <1>2, <2>1 DEF Held
<1>4. 1 \in DOMAIN fHitQueues[w]
  BY <1>1, <1>3
<1>5. 1 \in Places(w) <=> handle[w].item.IsDataOnHostBuffer
  BY <1>3, <1>4 DEF Places
<1>6. ASSUME 1 \in Places(w)
      PROVE  /\ fSegments' = fSegments \ {SegmentOf(w, 1)}
             /\ SegmentOf(w, 1) \in fSegments
             /\ hostBuffer' = Clear(fHitQueues[w][1].begin)
  <2>1. /\ fSegments' = {s \in fSegments : s[1] # handle[w].item.begin}
        /\ hostBuffer' = Clear(handle[w].item.begin)
    BY <1>5, <1>6, Zenon DEF CloseHitsHandle
  <2>2. /\ SegmentOf(w, 1) \in fSegments
        /\ {t \in fSegments : t[1] # fHitQueues[w][1].begin} = fSegments \ {SegmentOf(w, 1)}
    BY <1>6, RemovesOne
  <2> QED BY <1>3, <2>1, <2>2
<1>7. ASSUME 1 \notin Places(w)
      PROVE  UNCHANGED <<fSegments, hostBuffer>>
  BY <1>5, <1>7, Zenon DEF CloseHitsHandle
<1> QED BY <1>1, <1>3, <1>6, <1>7

LEMMA UseStep == AInv /\ [Next]_vars => [BufferUse]_bufferVars
<1> SUFFICES ASSUME AInv, [Next]_vars PROVE [BufferUse]_bufferVars
  OBVIOUS
<1>1. CASE UNCHANGED bufferVars
  BY <1>1
<1>2. CASE TransferHitsToHost
  BY <1>2, TransferUse
<1>3. CASE PushHits
  BY <1>3, PushUse
<1>4. CASE CopyOut
  <2>1. CASE CopiesOut
    <3>1. /\ fSegments' = fSegments \ {SegmentOf(index, Len(fHitQueues[index]))}
          /\ SegmentOf(index, Len(fHitQueues[index])) \in fSegments
          /\ UNCHANGED <<fWritePtr, fFreeContiguousSpace, reserved>>
      BY <1>4, <2>1, CopyOutStep
    <3> QED BY <3>1 DEF BufferUse, removeSegment
  <2>2. CASE ~CopiesOut
    BY <1>4, <2>2, CopyOutStep DEF bufferVars
  <2> QED BY <2>1, <2>2
<1>5. ASSUME NEW w \in Workers, CloseHitsHandle(w)
      PROVE  [BufferUse]_bufferVars
  <2>0. UNCHANGED <<fWritePtr, fFreeContiguousSpace, reserved>>
    BY <1>5 DEF CloseHitsHandle
  <2>1. CASE 1 \in Places(w)
    <3>1. /\ fSegments' = fSegments \ {SegmentOf(w, 1)} /\ SegmentOf(w, 1) \in fSegments
      BY <1>5, <2>1, CloseStep
    <3> QED BY <2>0, <3>1 DEF BufferUse, removeSegment
  <2>2. CASE 1 \notin Places(w)
    BY <1>5, <2>0, <2>2, CloseStep DEF bufferVars
  <2> QED BY <2>1, <2>2
<1>6. ASSUME \/ \E w \in Workers : RecordHit(w)
             \/ SwapDeviceBuffers \/ PublishSwap \/ WakeUp \/ ProcessHits \/ ReleaseHostBuffer
             \/ EndProcessBuffer \/ Callback
             \/ \E w \in Workers : GetNextHitsHandle(w) \/ ProcessGPUSteps(w)
             \/ UNCHANGED vars
      PROVE  UNCHANGED bufferVars
  BY <1>6 DEF RecordHit, SwapDeviceBuffers, PublishSwap, WakeUp, ProcessHits, ReleaseHostBuffer,
     EndProcessBuffer, Callback, CopyCounts, CopyHits, FreeDeviceBuffer, FinishTransfer,
     GetNextHitsHandle, ProcessGPUSteps, vars
<1> QED BY <1>1, <1>2, <1>3, <1>4, <1>5, <1>6 DEF Next, HitThread, Worker
(* So its invariant holds here too.                                        *)
LEMMA BufferStep == AInv /\ [Next]_vars => BufferInv'
<1> SUFFICES ASSUME AInv, [Next]_vars PROVE BufferInv'
  OBVIOUS
<1>1. [BufferUse]_bufferVars /\ BufferInv
  BY UseStep DEF AInv
<1>2. ASSUME NEW size \in 0 .. Capacity, getFreeContiguousMemory(size)
      PROVE  BufferInv'
  BY <1>1, <1>2, CapacityAssumption, GrantPreserves
<1>3. ASSUME NEW end \in 0 .. Capacity, addSegment(end)
      PROVE  BufferInv'
  BY <1>1, <1>3, AddPreserves
<1>4. ASSUME NEW s \in fSegments, removeSegment(s)
      PROVE  BufferInv'
  BY <1>1, <1>4, RemovePreserves
<1>5. CASE UNCHANGED bufferVars
  BY <1>1, <1>5 DEF bufferVars, BufferInv, BufferTypeOK, SegmentsAreDisjoint, ReservedIsFree,
     SegmentsBeginAtWritePtr
<1> QED BY <1>1, <1>2, <1>3, <1>4, <1>5 DEF BufferUse

-----------------------------------------------------------------------------
(* The types.                                                              *)
DeviceTypes ==
  /\ recorded \in [Workers -> 0 .. MaxHits]
  /\ delivered \in [Workers -> Seq(0 .. MaxHits)]
  /\ deviceHits \in [{0, 1} -> [Workers -> [1 .. NSlot -> 0 .. MaxHits]]]
  /\ fSlotCounter \in [{0, 1} -> [Workers -> 0 .. NSlot]]
  /\ fActiveBuffer \in {0, 1} /\ countsCopied \in BOOLEAN
BatchTypeOK ==
  /\ hostBufferCount \in [Workers -> 0 .. NSlot] /\ offsetAtCopy \in 0 .. Capacity
  /\ copySizes \in [Workers -> 0 .. NSlot] /\ hasty \in BOOLEAN
  /\ stream \in {"idle", "copy", "free", "finish"}
  /\ hpc \in {"waiting", "transfer", "process", "push", "copyOut"}
  /\ index \in 1 .. NWorkers + 1
  /\ hostState \in {"ReadyToBeFilled", "AwaitingDeviceTransfer",
                    "TransferFromDevice", "TransferFromDeviceFinished"}
HostTypes ==
  /\ hostBuffer \in [0 .. Capacity - 1 -> 0 .. MaxHits]
  /\ fHitQueues \in [Workers -> Seq(Items)]
  /\ handle \in [Workers -> [item : Items, step : {"none", "taken", "processed"}]]

LEMMA TypesAre == TypeOK <=>
  /\ DeviceTypes /\ BatchTypeOK /\ HostTypes /\ BufferTypeOK
  /\ fDeviceState \in [{0, 1} -> {"Free", "Filling", "NeedTransferToHost", "TransferToHost"}]
  /\ tpc \in {"transport", "flipped", "published", "synchronizing", "thrown"}
BY DEF TypeOK, DeviceTypes, BatchTypeOK, HostTypes

LEMMA DeviceBuffers == DeviceTypes => deviceBuffer \in {0, 1} /\ previous \in {0, 1}
<1> SUFFICES ASSUME DeviceTypes PROVE deviceBuffer \in {0, 1} /\ previous \in {0, 1}
  OBVIOUS
<1>1. fActiveBuffer \in {0, 1} /\ previous \in {0, 1}
  BY DEF DeviceTypes, previous
<1> QED BY <1>1 DEF deviceBuffer

(* What an item says its hits are, they are hits.                          *)
LEMMA ContentsType ==
  ASSUME HostTypes, NEW item \in Items
  PROVE  Contents(item) \in Seq(0 .. MaxHits)
<1>1. Capacity \in Nat /\ item.begin \in 0 .. Capacity /\ item.end \in 0 .. Capacity
      /\ item.holdoutBuffer \in Seq(0 .. MaxHits)
  BY CapacityAssumption DEF Items
<1>2. CASE item.IsDataOnHostBuffer
  <2> DEFINE n == IF item.begin <= item.end THEN item.end - item.begin ELSE 0
             c == [k \in 1 .. item.end - item.begin |-> hostBuffer[item.begin + k - 1]]
  <2>1. n \in Nat /\ 1 .. item.end - item.begin = 1 .. n
    BY <1>1
  <2>2. \A k \in 1 .. n : hostBuffer[item.begin + k - 1] \in 0 .. MaxHits
    <3> SUFFICES ASSUME NEW k \in 1 .. n PROVE hostBuffer[item.begin + k - 1] \in 0 .. MaxHits
      OBVIOUS
    <3>1. item.begin + k - 1 \in 0 .. Capacity - 1
      BY <1>1
    <3> QED BY <3>1 DEF HostTypes
  <2>3. c \in [1 .. n -> 0 .. MaxHits]
    BY <2>1, <2>2
  <2> HIDE DEF n, c
  <2>4. c \in Seq(0 .. MaxHits)
    <3>1. \A m \in Nat : \A S : \A d \in [1 .. m -> S] : d \in Seq(S)
      OBVIOUS
    <3> QED BY <2>1, <2>3, <3>1
  <2> QED BY <1>2, <2>4 DEF Contents, c
<1> QED BY <1>1, <1>2 DEF Contents

(* Recording, copying counters and processing.                             *)
LEMMA DeviceTypesStep == AInv /\ [Next]_vars => DeviceTypes'
<1> SUFFICES ASSUME AInv, [Next]_vars PROVE DeviceTypes'
  OBVIOUS
<1> USE HitScoringAssumption DEF DeviceTypes, previous
<1>0. DeviceTypes /\ HostTypes
  BY TypesAre DEF AInv
<1>1. ASSUME NEW w \in Workers, RecordHit(w) PROVE DeviceTypes'
  <2> DEFINE b == deviceBuffer
             n == fSlotCounter[b][w]
  <2>1. n \in 0 .. NSlot - 1 /\ recorded[w] \in 0 .. MaxHits - 1
    <3>1. n < NSlot /\ recorded[w] < MaxHits
      BY <1>1 DEF RecordHit
    <3>2. b \in {0, 1}
      BY <1>0, DeviceBuffers
    <3>3. n \in 0 .. NSlot /\ recorded[w] \in 0 .. MaxHits
      BY <1>0, <3>2
    <3> HIDE DEF n, DeviceTypes
    <3> QED BY <3>1, <3>3
  <2>2. /\ recorded' = [recorded EXCEPT ![w] = recorded[w] + 1]
        /\ fSlotCounter' = [fSlotCounter EXCEPT ![b][w] = n + 1]
        /\ UNCHANGED <<delivered, fActiveBuffer, countsCopied>>
    BY <1>1 DEF RecordHit, swapVars
  <2>3. deviceHits' = [deviceHits EXCEPT ![b][w][n + 1] = recorded[w] + 1]
    BY <1>0, <1>1 DEF RecordHit
  <2>0. /\ b \in {0, 1} /\ fSlotCounter \in [{0, 1} -> [Workers -> 0 .. NSlot]]
        /\ recorded \in [Workers -> 0 .. MaxHits]
        /\ deviceHits \in [{0, 1} -> [Workers -> [1 .. NSlot -> 0 .. MaxHits]]]
    BY <1>0, DeviceBuffers
  <2>8. /\ fActiveBuffer' \in {0, 1} /\ countsCopied' \in BOOLEAN
        /\ delivered' \in [Workers -> Seq(0 .. MaxHits)]
    BY <1>0, <2>2
  <2>7. n + 1 \in 0 .. NSlot /\ recorded[w] + 1 \in 0 .. MaxHits
    BY <2>1
  <2> HIDE DEF n, b, DeviceTypes
  <2>4. recorded' \in [Workers -> 0 .. MaxHits]
    BY <2>0, <2>2, <2>7
  <2>5. fSlotCounter' \in [{0, 1} -> [Workers -> 0 .. NSlot]]
    BY <2>0, <2>2, <2>7
  <2>6. deviceHits' \in [{0, 1} -> [Workers -> [1 .. NSlot -> 0 .. MaxHits]]]
    BY <2>0, <2>3, <2>7
  <2> QED BY <2>4, <2>5, <2>6, <2>8 DEF DeviceTypes
<1>2. CASE SwapDeviceBuffers
  <2>0. fActiveBuffer' = 1 - fActiveBuffer /\ fActiveBuffer \in {0, 1}
    BY <1>0, <1>2 DEF SwapDeviceBuffers
  <2>1. /\ fActiveBuffer' \in {0, 1} /\ countsCopied' \in BOOLEAN
        /\ UNCHANGED <<historyVars, deviceVars>>
    <3>1. fActiveBuffer' \in {0, 1}
      BY <2>0
    <3>2. countsCopied' = FALSE /\ UNCHANGED <<historyVars, deviceVars>>
      BY <1>2, Zenon DEF SwapDeviceBuffers
    <3> QED BY <3>1, <3>2
  <2> QED BY <1>0, <2>1 DEF historyVars, deviceVars
<1>3. CASE PublishSwap
  BY <1>0, <1>3 DEF PublishSwap, historyVars, deviceVars
<1>4. CASE CopyCounts
  <2>1. fSlotCounter' \in [{0, 1} -> [Workers -> 0 .. NSlot]]
    BY <1>0, <1>4 DEF CopyCounts
  <2> QED BY <1>0, <1>4, <2>1 DEF CopyCounts, historyVars
<1>5. CASE FreeDeviceBuffer
  <2>1. deviceHits' \in [{0, 1} -> [Workers -> [1 .. NSlot -> 0 .. MaxHits]]]
    BY <1>0, <1>5 DEF FreeDeviceBuffer
  <2> QED BY <1>0, <1>5, <2>1 DEF FreeDeviceBuffer, historyVars, swapVars
<1>6. ASSUME NEW w \in Workers, ProcessGPUSteps(w) PROVE DeviceTypes'
  <2>1. Contents(handle[w].item) \in Seq(0 .. MaxHits)
    BY <1>0, BatchTypes, ContentsType
  <2>2. delivered' \in [Workers -> Seq(0 .. MaxHits)]
    BY <1>0, <1>6, <2>1 DEF ProcessGPUSteps
  <2> QED BY <1>0, <1>6, <2>2 DEF ProcessGPUSteps, deviceVars, swapVars
<1>7. ASSUME \/ WakeUp \/ HitThread \/ CopyHits \/ FinishTransfer
             \/ \E w \in Workers : GetNextHitsHandle(w) \/ CloseHitsHandle(w)
             \/ UNCHANGED vars
      PROVE  UNCHANGED <<historyVars, deviceVars, fActiveBuffer, countsCopied>>
  BY <1>7 DEF WakeUp, HitThread, TransferHitsToHost, ProcessHits, PushHits, ReleaseHostBuffer,
     CopyOut, EndProcessBuffer, CopyHits, FinishTransfer, GetNextHitsHandle, CloseHitsHandle,
     vars, swapVars
<1>8. UNCHANGED <<historyVars, deviceVars, fActiveBuffer, countsCopied>> => DeviceTypes'
  BY <1>0 DEF historyVars, deviceVars
<1> QED BY <1>1, <1>2, <1>3, <1>4, <1>5, <1>6, <1>7, <1>8 DEF Next, Callback, Worker
LEMMA BatchTypesStep == AInv /\ [Next]_vars => BatchTypeOK'
<1> SUFFICES ASSUME AInv, [Next]_vars PROVE BatchTypeOK'
  OBVIOUS
<1> USE DEF BatchTypeOK
<1>0. /\ DeviceTypes /\ BatchTypeOK /\ BufferTypeOK' /\ NWorkers \in Nat
      /\ Capacity \in Nat
  BY TypesAre, BufferStep, WorkersFinite, CapacityAssumption DEF AInv, BufferInv
<1>1. ASSUME NEW w \in Workers, RecordHit(w) \/ Worker(w) PROVE BatchTypeOK'
  BY <1>0, <1>1 DEF RecordHit, Worker, GetNextHitsHandle, ProcessGPUSteps, CloseHitsHandle,
     stateVars, batchVars, threadVars
<1>2. CASE SwapDeviceBuffers
  BY <1>0, <1>2 DEF SwapDeviceBuffers, batchVars, threadVars
<1>3. CASE PublishSwap
  BY <1>0, <1>3 DEF PublishSwap, batchVars, threadVars
<1>4. CASE WakeUp
  BY <1>0, <1>4 DEF WakeUp, stateVars, batchVars
<1>5. CASE TransferHitsToHost
  <2>1. fWritePtr' \in 0 .. Capacity
    BY <1>0 DEF BufferTypeOK
  <2>2. /\ offsetAtCopy' = fWritePtr' \/ offsetAtCopy' = offsetAtCopy
        /\ stream' = "copy" \/ stream' = stream
        /\ hostState' = "TransferFromDevice" \/ hostState' = hostState
        /\ hpc' = "process" \/ hpc' = hpc
        /\ copySizes' = hostBufferCount \/ copySizes' = copySizes
        /\ hasty' \in BOOLEAN
        /\ UNCHANGED <<hostBufferCount, index>>
    BY <1>0, <1>5 DEF TransferHitsToHost
  <2> QED BY <1>0, <2>1, <2>2
<1>6. CASE ProcessHits
  BY <1>0, <1>6 DEF ProcessHits, stateVars, batchVars
<1>7. CASE PushHits
  BY <1>0, <1>7 DEF PushHits, stateVars, batchVars
<1>8. CASE ReleaseHostBuffer
  BY <1>0, <1>8 DEF ReleaseHostBuffer, batchVars
<1>9. CASE CopyOut
  BY <1>0, <1>9 DEF CopyOut, stateVars, batchVars
<1>10. CASE EndProcessBuffer
  BY <1>0, <1>10 DEF EndProcessBuffer, stateVars, batchVars
<1>11. CASE CopyCounts
  <2>1. previous \in {0, 1}
    BY <1>0 DEF DeviceTypes, previous
  <2>2. hostBufferCount' \in [Workers -> 0 .. NSlot]
    BY <1>0, <1>11, <2>1 DEF CopyCounts, DeviceTypes
  <2>3. UNCHANGED <<offsetAtCopy, copySizes, stream, hasty, hostState, hpc, index>>
    BY <1>11 DEF CopyCounts, stateVars, threadVars
  <2> QED BY <1>0, <2>2, <2>3
<1>12. CASE CopyHits
  <2>1. copySizes' \in [Workers -> 0 .. NSlot]
    BY <1>12, WorkersFinite DEF CopyHits
  <2>2. /\ UNCHANGED <<hostBufferCount, offsetAtCopy, hasty, hostState, hpc, index>>
        /\ stream' = "free"
    BY <1>12 DEF CopyHits, stateVars, threadVars
  <2> QED BY <1>0, <2>1, <2>2
<1>13. CASE FreeDeviceBuffer
  BY <1>0, <1>13 DEF FreeDeviceBuffer, threadVars
<1>14. CASE FinishTransfer
  BY <1>0, <1>14 DEF FinishTransfer, threadVars
<1>15. CASE UNCHANGED vars
  BY <1>0, <1>15 DEF vars, stateVars, batchVars, threadVars
<1> QED BY <1>1, <1>2, <1>3, <1>4, <1>5, <1>6, <1>7, <1>8, <1>9, <1>10, <1>11, <1>12, <1>13,
           <1>14, <1>15 DEF Next, HitThread, Callback

(* The copy puts the hits of every worker of the batch where they belong,  *)
(* and touches nothing outside the room that was granted.                  *)
LEMMA CopyHitsStep ==
  ASSUME AInv, CopyHits
  PROVE  /\ hostBuffer' \in [0 .. Capacity - 1 -> 0 .. MaxHits]
         /\ \A i \in Workers : \A n \in 1 .. hostBufferCount[i] :
              hostBuffer'[Begin(i) + n - 1] = deviceHits[previous][i][n]
         /\ \A a \in 0 .. Capacity - 1 :
              a < reserved[1] \/ reserved[2] <= a => hostBuffer'[a] = hostBuffer[a]
<1> DEFINE c == hostBufferCount
           o == offsetAtCopy
           IsIn(a, i) == Begin(i) <= a /\ a < End(i)
<1>1. c \in Counters /\ o \in Nat /\ Capacity \in Nat /\ NWorkers \in Nat
  BY BatchTypes
<1>2. /\ DeviceTypes /\ HostTypes /\ previous \in {0, 1}
  BY TypesAre DEF AInv, DeviceTypes, previous
<1>0. copySizes = hostBufferCount
  BY DEF AInv, Sizes, CopyHits
<1>a. \A i : CopyBegin(i) = Begin(i) /\ CopyEnd(i) = End(i)
  BY <1>0 DEF CopyBegin, CopyEnd, Begin, End, Hits
<1>3. hostBuffer' = [a \in 0 .. Capacity - 1 |->
        IF \E i \in Workers : IsIn(a, i)
        THEN LET i == CHOOSE i \in Workers : IsIn(a, i)
             IN  deviceHits[previous][i][a - Begin(i) + 1]
        ELSE hostBuffer[a]]
  BY <1>2, <1>a DEF CopyHits, HostTypes
<1>4. ASSUME NEW i \in Workers
      PROVE  /\ Begin(i) = o + Part(c, i - 1) /\ End(i) = o + Part(c, i)
             /\ Part(c, i - 1) \in Nat /\ Part(c, i) \in Nat
             /\ c[i] \in 0 .. NSlot /\ NSlot \in Nat /\ End(i) = Begin(i) + c[i]
             /\ Part(c, i) <= Part(c, NWorkers) /\ Part(c, NWorkers) \in Nat
  <2>1. /\ i \in 0 .. NWorkers /\ i - 1 \in 0 .. NWorkers /\ NWorkers \in 0 .. NWorkers
        /\ i <= NWorkers
    BY <1>1 DEF Workers
  <2>2. Begin(i) = o + Part(c, i - 1) /\ End(i) = o + Part(c, i)
    BY <1>1, HitsAreParts
  <2>3. /\ Part(c, i - 1) \in Nat /\ Part(c, i) \in Nat /\ c[i] \in 0 .. NSlot
        /\ Part(c, i) = Part(c, i - 1) + c[i] /\ Part(c, i) <= Part(c, NWorkers)
        /\ Part(c, NWorkers) \in Nat
    BY <1>1, <2>1, Parts, PartsGrow DEF Counters
  <2> QED BY <1>1, <2>2, <2>3, WorkersFinite
<1>5. reserved[1] = o /\ reserved[2] = o + Part(c, NWorkers)
  <2>1. Transferring /\ hpc # "push"
    BY DEF AInv, Phases, CopyHits, Transferring
  <2>2. Part(c, 0) = 0
    BY <1>1, Parts
  <2>3. reserved = <<o + Part(c, 0), o + Part(c, NWorkers)>>
    BY <2>1 DEF AInv, Granted, Pushed
  <2> QED BY <1>1, <2>2, <2>3
<1> HIDE DEF c, o
<1>6. ASSUME NEW a \in Int, NEW i \in Workers, NEW j \in Workers, IsIn(a, i), IsIn(a, j)
      PROVE  i = j
  <2>1. ASSUME NEW k \in Workers, NEW l \in Workers, k < l, IsIn(a, k), IsIn(a, l)
        PROVE  FALSE
    <3>1. k \in 0 .. NWorkers /\ l - 1 \in 0 .. NWorkers /\ k <= l - 1
      BY <1>1, <2>1 DEF Workers
    <3>2. Part(c, k) <= Part(c, l - 1)
      BY <1>1, <3>1, PartsGrow
    <3>3. End(k) = o + Part(c, k) /\ Begin(l) = o + Part(c, l - 1)
          /\ Part(c, k) \in Nat /\ Part(c, l - 1) \in Nat
      BY <1>4
    <3> QED BY <1>1, <2>1, <3>2, <3>3
  <2>2. i < j \/ j < i \/ i = j
    BY <1>1 DEF Workers
  <2> QED BY <1>6, <2>1, <2>2
<1>7. ASSUME NEW i \in Workers, NEW n \in 1 .. c[i]
      PROVE  hostBuffer'[Begin(i) + n - 1] = deviceHits[previous][i][n]
  <2> DEFINE a == Begin(i) + n - 1
  <2>1. a \in Int /\ IsIn(a, i) /\ a - Begin(i) + 1 = n /\ n \in Nat /\ 0 <= a
    BY <1>1, <1>4
  <2>2. a \in 0 .. Capacity - 1
    <3>1. reserved[2] \in 0 .. Capacity
      BY DEF AInv, TypeOK, BufferTypeOK
    <3> QED BY <1>1, <1>4, <1>5, <2>1, <3>1
  <2>3. (CHOOSE k \in Workers : IsIn(a, k)) = i
    <3> HIDE DEF a
    <3>1. \A k \in Workers : IsIn(a, k) => k = i
      BY <1>6, <2>1
    <3> HIDE DEF IsIn
    <3> QED BY <2>1, <3>1
  <2>4. \E k \in Workers : IsIn(a, k)
    BY <2>1
  <2> HIDE DEF a, IsIn
  <2>5. hostBuffer'[a] = deviceHits[previous][i][a - Begin(i) + 1]
    BY <1>3, <2>2, <2>3, <2>4
  <2> QED BY <2>1, <2>5 DEF a
<1>8. ASSUME NEW a \in 0 .. Capacity - 1
      PROVE  /\ hostBuffer'[a] \in 0 .. MaxHits
             /\ a < reserved[1] \/ reserved[2] <= a => hostBuffer'[a] = hostBuffer[a]
  <2>1. CASE \E i \in Workers : IsIn(a, i)
    <3>1. PICK i \in Workers : IsIn(a, i)
      BY <2>1
    <3>2. a - Begin(i) + 1 \in 1 .. c[i] /\ Begin(i) + (a - Begin(i) + 1) - 1 = a
          /\ a - Begin(i) + 1 \in 1 .. NSlot
      BY <1>1, <1>4, <3>1
    <3>3. hostBuffer'[a] = deviceHits[previous][i][a - Begin(i) + 1]
      BY <1>7, <3>2
    <3>4. deviceHits[previous][i][a - Begin(i) + 1] \in 0 .. MaxHits
      <4>1. deviceHits[previous][i] \in [1 .. NSlot -> 0 .. MaxHits]
        BY <1>2 DEF DeviceTypes
      <4> QED BY <3>2, <4>1
    <3>5. reserved[1] <= a /\ a < reserved[2]
      BY <1>1, <1>4, <1>5, <3>1, Parts, WorkersFinite
    <3> QED BY <1>1, <1>4, <1>5, <3>3, <3>4, <3>5, Parts
  <2>2. CASE ~\E i \in Workers : IsIn(a, i)
    <3> HIDE DEF IsIn
    <3>1. hostBuffer'[a] = hostBuffer[a]
      BY <1>3, <2>2
    <3> QED BY <1>2, <3>1 DEF HostTypes
  <2> QED BY <2>1, <2>2
<1>9. hostBuffer' \in [0 .. Capacity - 1 -> 0 .. MaxHits]
  <2>1. hostBuffer' = [a \in 0 .. Capacity - 1 |-> hostBuffer'[a]]
    BY <1>3
  <2> QED BY <1>8, <2>1
<1> QED BY <1>7, <1>8, <1>9 DEF c
LEMMA ClearType ==
  ASSUME HostTypes, NEW begin
  PROVE  Clear(begin) \in [0 .. Capacity - 1 -> 0 .. MaxHits]
BY HitScoringAssumption DEF HostTypes, Clear

LEMMA HostTypesStep == AInv /\ [Next]_vars => HostTypes'
<1> SUFFICES ASSUME AInv, [Next]_vars PROVE HostTypes'
  OBVIOUS
<1>0. HostTypes /\ DeviceTypes /\ MaxHits \in Nat
  BY TypesAre, HitScoringAssumption DEF AInv
<1>1. ASSUME NEW w \in Workers, GetNextHitsHandle(w) PROVE HostTypes'
  <2> DEFINE q == fHitQueues[w]
             first == [q[1] EXCEPT !.ScoringStarted = TRUE]
  <2>1. q \in Seq(Items) /\ q # <<>> /\ Head(q) = q[1] /\ q[1] \in Items /\ 1 \in DOMAIN q
    BY <1>0, <1>1 DEF HostTypes, GetNextHitsHandle
  <2>2. /\ fHitQueues' = [fHitQueues EXCEPT ![w] = [q EXCEPT ![1] = first]]
        /\ handle' = [handle EXCEPT ![w] = [item |-> q[1], step |-> "taken"]]
        /\ UNCHANGED hostBuffer
    BY <1>1, <2>1 DEF GetNextHitsHandle
  <2>3. first \in Items
    BY <2>1 DEF Items
  <2> HIDE DEF first
  <2>4. [q EXCEPT ![1] = first] \in Seq(Items)
    BY <2>1, <2>3
  <2> HIDE DEF q
  <2>5. [item |-> q[1], step |-> "taken"] \in [item : Items, step : {"none", "taken", "processed"}]
    BY <2>1
  <2> QED BY <1>0, <2>2, <2>4, <2>5 DEF HostTypes
<1>2. ASSUME NEW w \in Workers, ProcessGPUSteps(w) PROVE HostTypes'
  BY <1>0, <1>2 DEF ProcessGPUSteps, HostTypes, hostVars
<1>3. ASSUME NEW w \in Workers, CloseHitsHandle(w) PROVE HostTypes'
  <2>1. hostBuffer' \in [0 .. Capacity - 1 -> 0 .. MaxHits]
    BY <1>0, <1>3, ClearType DEF CloseHitsHandle, HostTypes
  <2>2. NoItem \in Items
    BY CapacityAssumption DEF NoItem, Items
  <2>3. fHitQueues[w] \in Seq(Items) /\ fHitQueues[w] # <<>>
    BY <1>3, CloseStep
  <2>4. fHitQueues' = [fHitQueues EXCEPT ![w] = Tail(fHitQueues[w])]
        /\ handle' = [handle EXCEPT ![w] = [item |-> NoItem, step |-> "none"]]
    BY <1>3 DEF CloseHitsHandle
  <2>5. Tail(fHitQueues[w]) \in Seq(Items)
    BY <2>3
  <2> QED BY <1>0, <2>1, <2>2, <2>4, <2>5 DEF HostTypes
<1>4. CASE PushHits
  <2>1. hpc = "push" /\ index \in Workers
    BY <1>4, BatchTypes DEF PushHits, Workers
  <2>2. Begin(index) \in 0 .. Capacity /\ End(index) \in 0 .. Capacity
    BY <2>1, PartOfBatch, CapacityAssumption
  <2> DEFINE item == [begin |-> Begin(index), end |-> End(index), ScoringStarted |-> FALSE,
                      IsDataOnHostBuffer |-> TRUE, holdoutBuffer |-> <<>>]
  <2>3. item \in Items
    BY <2>2 DEF Items
  <2>4. /\ fHitQueues' = [fHitQueues EXCEPT ![index] = Append(fHitQueues[index], item)]
              \/ fHitQueues' = fHitQueues
        /\ UNCHANGED <<hostBuffer, handle>>
    BY <1>4 DEF PushHits
  <2> HIDE DEF item
  <2>5. Append(fHitQueues[index], item) \in Seq(Items)
    BY <1>0, <2>1, <2>3 DEF HostTypes
  <2> QED BY <1>0, <2>4, <2>5 DEF HostTypes
<1>5. CASE CopyOut
  <2>1. CASE CopiesOut
    <3> DEFINE n == Len(fHitQueues[index])
               last == fHitQueues[index][n]
               moved == [NoItem EXCEPT !.ScoringStarted = TRUE, !.holdoutBuffer = Contents(last)]
    <3>1. /\ index \in Workers
          /\ hostBuffer' = Clear(last.begin)
          /\ fHitQueues' = [fHitQueues EXCEPT ![index] = [fHitQueues[index] EXCEPT ![n] = moved]]
          /\ UNCHANGED handle /\ n \in Places(index)
      BY <1>5, <2>1, CopyOutStep
    <3>2. fHitQueues[index] \in Seq(Items) /\ n \in DOMAIN fHitQueues[index]
      BY <1>0, <3>1 DEF HostTypes, Places
    <3>3. Contents(last) \in Seq(0 .. MaxHits)
      BY <1>0, <3>2, ContentsType
    <3>4. moved \in Items
      <4>1. 0 \in 0 .. Capacity
        BY CapacityAssumption
      <4> QED BY <3>3, <4>1 DEF Items, NoItem
    <3> HIDE DEF moved
    <3>5. [fHitQueues[index] EXCEPT ![n] = moved] \in Seq(Items)
      BY <3>2, <3>4
    <3>6. hostBuffer' \in [0 .. Capacity - 1 -> 0 .. MaxHits]
      BY <1>0, <3>1, ClearType
    <3> QED BY <1>0, <3>1, <3>5, <3>6 DEF HostTypes
  <2>2. CASE ~CopiesOut
    BY <1>0, <1>5, <2>2, CopyOutStep DEF HostTypes
  <2> QED BY <2>1, <2>2
<1>6. CASE CopyHits
  <2>1. hostBuffer' \in [0 .. Capacity - 1 -> 0 .. MaxHits]
    BY <1>6, CopyHitsStep
  <2> QED BY <1>0, <1>6, <2>1 DEF CopyHits, HostTypes
<1>7. ASSUME \/ \E w \in Workers : RecordHit(w)
             \/ SwapDeviceBuffers \/ PublishSwap \/ WakeUp \/ TransferHitsToHost \/ ProcessHits
             \/ ReleaseHostBuffer \/ EndProcessBuffer
             \/ CopyCounts \/ FreeDeviceBuffer \/ FinishTransfer \/ UNCHANGED vars
      PROVE  UNCHANGED <<hostVars, handle>>
  BY <1>7 DEF RecordHit, SwapDeviceBuffers, PublishSwap, WakeUp, TransferHitsToHost, ProcessHits,
     ReleaseHostBuffer, EndProcessBuffer, CopyCounts, FreeDeviceBuffer, FinishTransfer, vars
<1>8. UNCHANGED <<hostVars, handle>> => HostTypes'
  BY <1>0 DEF HostTypes, hostVars
<1> QED BY <1>1, <1>2, <1>3, <1>4, <1>5, <1>6, <1>7, <1>8 DEF Next, HitThread, Callback, Worker

LEMMA TypesStep == AInv /\ [Next]_vars => TypeOK'
<1> SUFFICES ASSUME AInv, [Next]_vars PROVE TypeOK'
  OBVIOUS
<1>1. BufferInv' /\ IInv'
  BY BufferStep, StepInvariant DEF AInv
<1>2. /\ DeviceTypes' /\ BatchTypeOK' /\ HostTypes' /\ BufferTypeOK'
  BY <1>1, DeviceTypesStep, BatchTypesStep, HostTypesStep DEF BufferInv
<1>3. /\ fDeviceState' \in [{0, 1} -> {"Free", "Filling", "NeedTransferToHost", "TransferToHost"}]
      /\ tpc' \in {"transport", "flipped", "published", "synchronizing", "thrown"}
  BY <1>1 DEF IInv
<1> QED BY <1>2, <1>3 DEF TypeOK, DeviceTypes, BatchTypeOK, HostTypes
-----------------------------------------------------------------------------
(* The phases.                                                             *)
LEMMA PhasesStep == AInv /\ [Next]_vars /\ ~hasty' => Phases'
<1> SUFFICES ASSUME AInv, ~hasty', [Next]_vars PROVE Phases'
  OBVIOUS
<1>0. IInv /\ Phases /\ countsCopied \in BOOLEAN
  BY DEF AInv, TypeOK
<1> USE DEF IInv, Phases, BatchStates, Transferring, previous, historyVars, deviceVars, swapVars,
        stateVars, batchVars, hostVars, threadVars
<1>1. ASSUME NEW w \in Workers, RecordHit(w) \/ Worker(w) PROVE Phases'
  BY <1>0, <1>1 DEF RecordHit, Worker, GetNextHitsHandle, ProcessGPUSteps, CloseHitsHandle
<1>2. CASE SwapDeviceBuffers
  <2>1. /\ fActiveBuffer \in {0, 1} /\ fActiveBuffer' = 1 - fActiveBuffer
        /\ hostState = "ReadyToBeFilled" /\ tpc' \in {"flipped", "thrown"}
        /\ UNCHANGED <<hostState, hpc, stream>>
    BY <1>0, <1>2 DEF SwapDeviceBuffers, ReadyToSwapBuffers
  <2>2. 1 - fActiveBuffer' = fActiveBuffer /\ fActiveBuffer # 1 - fActiveBuffer
    BY <2>1
  <2>3. fDeviceState'[fActiveBuffer] = fDeviceState[fActiveBuffer]
    BY <1>0, <1>2, <2>2 DEF SwapDeviceBuffers
  <2>4. fDeviceState[fActiveBuffer] = "Filling" /\ hpc # "push" /\ stream = "idle"
    BY <1>0, <1>2, <2>1 DEF SwapDeviceBuffers
  <2>5. fDeviceState'[previous'] = "Filling"
    BY <2>1, <2>2, <2>3, <2>4
  <2>6. /\ hostState' = "ReadyToBeFilled" /\ hpc' # "push" /\ stream' = "idle"
        /\ tpc' \notin {"transport", "published", "synchronizing"}
    BY <2>1, <2>4
  <2> QED BY <2>5, <2>6
<1>3. CASE PublishSwap
  <2>0. UNCHANGED <<fActiveBuffer, hpc, stream, countsCopied>>
    BY <1>3 DEF PublishSwap
  <2>1. ASSUME tpc = "flipped" PROVE Phases'
    <3>1. tpc' = "published" /\ UNCHANGED hostState
          /\ hostState = "ReadyToBeFilled" /\ stream = "idle"
          /\ fDeviceState'[1 - fActiveBuffer] = "NeedTransferToHost"
      BY <1>0, <1>3, <2>1 DEF PublishSwap
    <3> QED BY <1>0, <2>0, <3>1
  <2>2. ASSUME tpc = "published" PROVE Phases'
    <3>1. tpc' = "synchronizing" /\ UNCHANGED fDeviceState /\ hostState' = "AwaitingDeviceTransfer"
      BY <1>3, <2>2 DEF PublishSwap
    <3>2. /\ fDeviceState[1 - fActiveBuffer] = "NeedTransferToHost"
          /\ hostState = "ReadyToBeFilled" /\ stream = "idle" /\ hpc # "push"
      BY <1>0, <2>2
    <3> QED BY <2>0, <3>1, <3>2
  <2>3. ASSUME tpc = "synchronizing" PROVE Phases'
    <3>1. tpc' = "transport" /\ UNCHANGED <<fDeviceState, hostState>> /\ countsCopied
      BY <1>3, <2>3 DEF PublishSwap
    <3> QED BY <1>0, <2>0, <2>3, <3>1
  <2> QED BY <1>3, <2>1, <2>2, <2>3 DEF PublishSwap
<1>4. CASE WakeUp
  BY <1>0, <1>4 DEF WakeUp
<1>5. CASE TransferHitsToHost
  <2>0. UNCHANGED <<fActiveBuffer, tpc, countsCopied>> /\ hpc = "transfer"
    BY <1>5 DEF TransferHitsToHost
  <2>1. CASE UNCHANGED <<fDeviceState, hostState, stream>>
    <3>1. hpc' \in {"transfer", "process"}
      BY <1>5 DEF TransferHitsToHost
    <3> QED BY <1>0, <2>0, <2>1, <3>1
  <2>2. CASE ~UNCHANGED <<fDeviceState, hostState, stream>>
    <3>1. /\ fDeviceState' = [fDeviceState EXCEPT ![previous] = "TransferToHost"]
          /\ hostState' = "TransferFromDevice" /\ stream' = "copy"
          /\ countsCopied /\ tpc # "published" /\ hpc' = "transfer" /\ NeedsTransfer
      BY <1>5, <2>2 DEF TransferHitsToHost
    <3>2. tpc \in {"transport", "synchronizing"}
      BY <1>0, <3>1 DEF NeedsTransfer
    <3>3. fDeviceState'[1 - fActiveBuffer] = "TransferToHost"
      BY <1>0, <3>1
    <3> QED BY <2>0, <3>1, <3>2, <3>3
  <2> QED BY <2>1, <2>2
<1>6. CASE ProcessHits
  BY <1>0, <1>6 DEF ProcessHits
<1>7. CASE PushHits
  BY <1>0, <1>7 DEF PushHits
<1>8. CASE ReleaseHostBuffer
  BY <1>0, <1>8 DEF ReleaseHostBuffer
<1>9. CASE CopyOut
  BY <1>0, <1>9 DEF CopyOut
<1>10. CASE EndProcessBuffer
  BY <1>0, <1>10 DEF EndProcessBuffer
<1>11. CASE CopyCounts
  BY <1>0, <1>11 DEF CopyCounts
<1>12. CASE CopyHits
  BY <1>0, <1>12 DEF CopyHits
<1>13. CASE FreeDeviceBuffer
  BY <1>0, <1>13 DEF FreeDeviceBuffer
<1>14. CASE FinishTransfer
  BY <1>0, <1>14 DEF FinishTransfer
<1>15. CASE UNCHANGED vars
  BY <1>0, <1>15 DEF vars
<1> QED BY <1>1, <1>2, <1>3, <1>4, <1>5, <1>6, <1>7, <1>8, <1>9, <1>10, <1>11, <1>12, <1>13,
           <1>14, <1>15 DEF Next, HitThread, Callback

LEMMA SizesStep == AInv /\ [Next]_vars => Sizes'
<1> SUFFICES ASSUME AInv, [Next]_vars PROVE Sizes'
  OBVIOUS
<1>0. Sizes /\ Phases
  BY DEF AInv
<1>1. CASE TransferHitsToHost
  <2>1. UNCHANGED hostBufferCount
    BY <1>1 DEF TransferHitsToHost
  <2>2. copySizes' = hostBufferCount \/ UNCHANGED <<copySizes, stream>>
    BY <1>1 DEF TransferHitsToHost
  <2> QED BY <1>0, <2>1, <2>2 DEF Sizes
<1>2. CASE CopyCounts
  <2>1. stream = "idle" /\ UNCHANGED stream
    BY <1>0, <1>2 DEF CopyCounts, Phases, Transferring
  <2> QED BY <2>1 DEF Sizes
<1>3. CASE CopyHits \/ FreeDeviceBuffer \/ FinishTransfer
  BY <1>3 DEF CopyHits, FreeDeviceBuffer, FinishTransfer, Sizes
<1>4. ASSUME \/ \E w \in Workers : RecordHit(w) \/ Worker(w)
             \/ SwapDeviceBuffers \/ PublishSwap \/ WakeUp \/ ProcessHits \/ PushHits
             \/ ReleaseHostBuffer \/ CopyOut \/ EndProcessBuffer \/ UNCHANGED vars
      PROVE  UNCHANGED <<stream, copySizes, hostBufferCount>>
  BY <1>4 DEF RecordHit, Worker, GetNextHitsHandle, ProcessGPUSteps, CloseHitsHandle,
     SwapDeviceBuffers, PublishSwap, WakeUp, ProcessHits, PushHits, ReleaseHostBuffer, CopyOut,
     EndProcessBuffer, batchVars, vars
<1> QED BY <1>0, <1>1, <1>2, <1>3, <1>4 DEF Sizes, Next, HitThread, Callback

(* The room.                                                               *)
LEMMA GrantedStep == AInv /\ [Next]_vars /\ ~hasty' => Granted'
<1> SUFFICES ASSUME AInv, ~hasty', [Next]_vars PROVE Granted'
  OBVIOUS
<1>0. /\ IInv /\ Phases /\ Granted /\ hostBufferCount \in Counters /\ offsetAtCopy \in Nat
      /\ NWorkers \in Nat /\ Part(hostBufferCount, 0) = 0
  BY BatchTypes, Parts DEF AInv
<1> USE DEF Granted, Pushed, Transferring
<1>1. ASSUME UNCHANGED <<reserved, offsetAtCopy, hostBufferCount, hostState, hpc, index>>
      PROVE  Granted'
  BY <1>0, <1>1
<1>2. ASSUME \/ \E w \in Workers : RecordHit(w) \/ Worker(w)
             \/ SwapDeviceBuffers \/ CopyHits \/ FreeDeviceBuffer \/ UNCHANGED vars
      PROVE  Granted'
  <2>1. UNCHANGED <<reserved, offsetAtCopy, hostBufferCount, hostState, hpc, index>>
    BY <1>2 DEF RecordHit, Worker, GetNextHitsHandle, ProcessGPUSteps, CloseHitsHandle,
       SwapDeviceBuffers, CopyHits, FreeDeviceBuffer, stateVars, batchVars, threadVars,
       bufferVars, vars
  <2> QED BY <1>1, <2>1
<1>3. CASE PublishSwap \/ WakeUp \/ FinishTransfer
  BY <1>0, <1>3 DEF PublishSwap, WakeUp, FinishTransfer, Phases, IInv, stateVars, batchVars,
     threadVars, bufferVars
<1>4. CASE TransferHitsToHost
  <2>1. CASE ~NeedsTransfer
    BY <1>0, <1>4, <2>1 DEF TransferHitsToHost, stateVars, batchVars, bufferVars
  <2>2. CASE NeedsTransfer
    <3>1. /\ hpc = "transfer" /\ UNCHANGED <<hpc, hostBufferCount>>
          /\ getFreeContiguousMemory(Hits(Batch))
      BY <1>4, <2>2 DEF TransferHitsToHost
    <3>2. hostState \in {"ReadyToBeFilled", "AwaitingDeviceTransfer"}
      BY <1>0, <2>2, <3>1 DEF NeedsTransfer, Phases, IInv, previous
    <3>3. Hits(Batch) = Part(hostBufferCount, NWorkers) /\ Part(hostBufferCount, NWorkers) \in Nat
      BY <1>0, HitsAreParts, BatchFits
    <3>4. CASE Admits(FreeMemory(fSegments, fWritePtr, Hits(Batch)), Hits(Batch))
      <4>1. /\ reserved' = <<fWritePtr', fWritePtr' + Hits(Batch)>>
            /\ offsetAtCopy' = fWritePtr' /\ hostState' = "TransferFromDevice"
        BY <1>4, <2>2, <3>1, <3>4 DEF TransferHitsToHost, getFreeContiguousMemory
      <4>2. fWritePtr' \in Nat
        BY BufferStep DEF BufferInv, BufferTypeOK
      <4> QED BY <1>0, <3>1, <3>3, <4>1, <4>2
    <3>5. CASE ~Admits(FreeMemory(fSegments, fWritePtr, Hits(Batch)), Hits(Batch))
      <4>1. UNCHANGED <<reserved, hostState>>
        BY <1>4, <2>2, <3>1, <3>5 DEF TransferHitsToHost, getFreeContiguousMemory
      <4> QED BY <1>0, <3>2, <4>1
    <3> QED BY <3>4, <3>5
  <2> QED BY <2>1, <2>2
<1>5. CASE ProcessHits
  BY <1>0, <1>5 DEF ProcessHits, stateVars, batchVars, bufferVars
<1>6. CASE PushHits
  <2>1. /\ hpc = "push" /\ index \in Workers /\ index' = index + 1 /\ index \in Nat
        /\ UNCHANGED <<hpc, hostState, hostBufferCount, offsetAtCopy>>
    BY <1>6, BatchTypes DEF PushHits, Workers, stateVars, batchVars
  <2>2. /\ Begin(index) = reserved[1] /\ Begin(index) \in Nat
        /\ End(index) = offsetAtCopy + Part(hostBufferCount, index)
        /\ reserved[2] = offsetAtCopy + Part(hostBufferCount, NWorkers)
        /\ End(index) = Begin(index) + hostBufferCount[index]
        /\ hostBufferCount[index] \in Nat
    BY <2>1, PartOfBatch
  <2>3. Transferring
    BY <1>0, <2>1 DEF Phases
  <2>4. reserved' = <<End(index), reserved[2]>>
    <3>1. CASE HasHits(index)
      BY <1>6, <3>1 DEF PushHits
    <3>2. CASE ~HasHits(index)
      <4>1. reserved' = reserved /\ reserved[1] = End(index)
        BY <1>6, <2>2, <3>2 DEF PushHits, HasHits
      <4>2. reserved = <<reserved[1], reserved[2]>>
        BY DEF AInv, TypeOK, BufferTypeOK
      <4> QED BY <4>1, <4>2
    <3> QED BY <3>1, <3>2
  <2> QED BY <2>1, <2>2, <2>3, <2>4
<1>7. CASE ReleaseHostBuffer
  <2>1. hpc = "push" /\ index - 1 = NWorkers /\ hostState' = "ReadyToBeFilled" /\ reserved' = reserved
    BY <1>7, BatchTypes DEF ReleaseHostBuffer, bufferVars
  <2>2. reserved[1] = reserved[2]
    BY <1>0, <2>1 DEF Phases
  <2> QED BY <2>1, <2>2
<1>8. CASE CopyOut \/ EndProcessBuffer
  <2>1. ~Transferring /\ UNCHANGED <<reserved, hostState>>
    BY <1>0, <1>8 DEF CopyOut, EndProcessBuffer, Phases, stateVars, bufferVars
  <2> QED BY <1>0, <2>1
<1>9. CASE CopyCounts
  <2>1. ~Transferring /\ UNCHANGED <<reserved, hostState>>
    BY <1>0, <1>9 DEF CopyCounts, Phases, stateVars, bufferVars
  <2> QED BY <1>0, <2>1
<1> QED BY <1>2, <1>3, <1>4, <1>5, <1>6, <1>7, <1>8, <1>9 DEF Next, HitThread, Callback
-----------------------------------------------------------------------------
(* The items and their segments.                                           *)

(* Where the hits of the items are after the next batch part is queued.    *)
LEMMA PushPlaces ==
  ASSUME AInv, PushHits, HasHits(index)
  PROVE  LET n == Len(fHitQueues[index]) + 1
         IN  /\ index \in Workers /\ n \in Nat \ {0} /\ n \notin DOMAIN fHitQueues[index]
             /\ \A w \in Workers : DOMAIN fHitQueues'[w] =
                  IF w = index THEN DOMAIN fHitQueues[w] \cup {n} ELSE DOMAIN fHitQueues[w]
             /\ \A w \in Workers : Places(w)' =
                  IF w = index THEN Places(w) \cup {n} ELSE Places(w)
             /\ \A w \in Workers : \A k \in DOMAIN fHitQueues[w] :
                  fHitQueues'[w][k] = fHitQueues[w][k]
             /\ fHitQueues'[index][n].begin = Begin(index)
             /\ fHitQueues'[index][n].end = End(index)
             /\ fHitQueues'[index][n].IsDataOnHostBuffer = TRUE
<1> DEFINE q == fHitQueues[index]
           n == Len(q) + 1
           item == [begin |-> Begin(index), end |-> End(index), ScoringStarted |-> FALSE,
                    IsDataOnHostBuffer |-> TRUE, holdoutBuffer |-> <<>>]
<1>1. index \in Workers
  BY BatchTypes DEF PushHits, Workers
<1>2. q \in Seq(Items)
  BY <1>1, BatchTypes
<1>3. fHitQueues' = [fHitQueues EXCEPT ![index] = Append(q, item)]
  BY DEF PushHits
<1>4. fHitQueues \in [Workers -> Seq(Items)]
  BY DEF AInv, TypeOK
<1>5. item.begin = Begin(index) /\ item.end = End(index) /\ item.IsDataOnHostBuffer = TRUE
  OBVIOUS
<1>6. item \in Items
  <2>1. hpc = "push"
    BY DEF PushHits
  <2>2. Begin(index) \in 0 .. Capacity /\ End(index) \in 0 .. Capacity
    BY <1>1, <2>1, PartOfBatch, CapacityAssumption
  <2> QED BY <2>2 DEF Items
<1> HIDE DEF item
<1>7. /\ n \in Nat \ {0} /\ n \notin DOMAIN q /\ DOMAIN Append(q, item) = DOMAIN q \cup {n}
      /\ \A k \in DOMAIN q : Append(q, item)[k] = q[k]
      /\ Append(q, item)[n] = item
  BY <1>2, <1>6
<1> DEFINE q1 == Append(q, item)
<1> HIDE DEF q, n, q1
<1>8. /\ \A w \in Workers : fHitQueues'[w] = IF w = index THEN q1 ELSE fHitQueues[w]
      /\ q = fHitQueues[index]
  BY <1>1, <1>3, <1>4 DEF q1, q
<1>9. /\ DOMAIN q1 = DOMAIN q \cup {n} /\ n \notin DOMAIN q /\ n \in Nat \ {0}
      /\ \A k \in DOMAIN q : q1[k] = q[k]
      /\ q1[n] = item
  BY <1>7 DEF q1
<1>10. /\ \A w \in Workers : DOMAIN fHitQueues'[w] =
            IF w = index THEN DOMAIN fHitQueues[w] \cup {n} ELSE DOMAIN fHitQueues[w]
       /\ \A w \in Workers : \A k \in DOMAIN fHitQueues[w] : fHitQueues'[w][k] = fHitQueues[w][k]
       /\ fHitQueues'[index][n] = item
  BY <1>1, <1>8, <1>9
<1>11. \A w \in Workers : Places(w)' = IF w = index THEN Places(w) \cup {n} ELSE Places(w)
  <2> SUFFICES ASSUME NEW w \in Workers
               PROVE  Places(w)' = IF w = index THEN Places(w) \cup {n} ELSE Places(w)
    OBVIOUS
  <2> QED BY <1>5, <1>10 DEF Places
<1> QED BY <1>1, <1>5, <1>8, <1>9, <1>10, <1>11 DEF n, q

LEMMA PushQueue ==
  ASSUME AInv, PushHits
  PROVE  QueueInv'
<1>0. UNCHANGED handle
  BY DEF PushHits
<1>1. CASE ~HasHits(index)
  <2>1. UNCHANGED <<fHitQueues, fSegments, handle>>
    BY <1>1 DEF PushHits
  <2> QED BY <2>1 DEF AInv, QueueInv, SegmentsHaveItems, ItemsHaveSegments, ItemsAreApart, Unstarted,
             Held, Places, SegmentOf
<1>2. CASE HasHits(index)
  <2> DEFINE s == <<Begin(index), End(index)>>
  <2>a. index \in Workers /\ Len(fHitQueues[index]) + 1 \in Nat
    BY <1>2, PushPlaces
  <2>b. PICK i \in Workers : i = index
    BY <2>a
  <2>c. PICK n \in Nat : n = Len(fHitQueues[index]) + 1
    BY <2>a
  <2>1. /\ index \in Workers /\ n \in Nat \ {0} /\ n \notin DOMAIN fHitQueues[i]
        /\ \A w \in Workers : DOMAIN fHitQueues'[w] =
             IF w = i THEN DOMAIN fHitQueues[w] \cup {n} ELSE DOMAIN fHitQueues[w]
        /\ \A w \in Workers : Places(w)' = IF w = i THEN Places(w) \cup {n} ELSE Places(w)
        /\ \A w \in Workers : \A k \in DOMAIN fHitQueues[w] : fHitQueues'[w][k] = fHitQueues[w][k]
        /\ fHitQueues'[i][n].begin = Begin(index)
        /\ fHitQueues'[i][n].end = End(index)
        /\ fHitQueues'[i][n].IsDataOnHostBuffer = TRUE
    BY <1>2, <2>b, <2>c, PushPlaces
  <2>2. fSegments' = fSegments \cup {s}
    BY <1>2 DEF PushHits
  <2>3. \A t \in fSegments : t[1] # Begin(index)
    <3>0. hpc = "push"
      BY DEF PushHits
    <3>1. /\ Begin(index) = reserved[1] /\ End(index) <= reserved[2]
          /\ Begin(index) \in Nat /\ End(index) \in Nat /\ Begin(index) # End(index)
          /\ hostBufferCount[index] \in Nat /\ End(index) = Begin(index) + hostBufferCount[index]
      BY <1>2, <2>1, <3>0, PartOfBatch DEF HasHits
    <3>2. /\ BufferTypeOK /\ SegmentsAreDisjoint /\ ReservedIsFree
      BY DEF AInv, BufferInv
    <3>3. reserved[1] < reserved[2]
      BY <3>1, <3>2, CapacityAssumption DEF BufferTypeOK
    <3>4. ASSUME NEW t \in fSegments PROVE t[1] # reserved[1]
      <4>1. Apart(t, reserved) /\ t[1] < t[2] /\ t[1] \in Int /\ t[2] \in Int
        BY <3>2, <3>3, CapacityAssumption DEF ReservedIsFree, SegmentsAreDisjoint, BufferTypeOK
      <4>2. reserved[1] \in Int /\ reserved[2] \in Int
        BY <3>2, CapacityAssumption DEF BufferTypeOK
      <4> QED BY <3>3, <4>1, <4>2 DEF Apart
    <3> QED BY <3>1, <3>4
  <2>4. \A w \in Workers : \A k \in Places(w) :
          /\ k \in DOMAIN fHitQueues[w] /\ k \in Places(w)' /\ SegmentOf(w, k)' = SegmentOf(w, k)
          /\ fHitQueues'[w][k].begin = fHitQueues[w][k].begin
    BY <2>1 DEF Places, SegmentOf
  <2>5. /\ n \in Places(i)' /\ SegmentOf(i, n)' = s
    BY <2>1, <2>b DEF SegmentOf
  <2>6. \A w \in Workers : \A k \in Places(w)' : k \in Places(w) \/ (w = i /\ k = n)
    BY <2>1
  <2>7. SegmentsHaveItems /\ ItemsHaveSegments /\ ItemsAreApart /\ Unstarted /\ Held
    BY DEF AInv, QueueInv
  <2> HIDE DEF s
  <2>8. SegmentsHaveItems'
    <3> SUFFICES ASSUME NEW t \in fSegments'
                 PROVE  \E w \in Workers : \E k \in Places(w)' : t = SegmentOf(w, k)'
      BY DEF SegmentsHaveItems
    <3>1. CASE t \in fSegments
      <4>1. PICK w \in Workers : \E k \in Places(w) : t = SegmentOf(w, k)
        BY <2>7, <3>1 DEF SegmentsHaveItems
      <4> QED BY <2>4, <4>1
    <3>2. CASE t = s
      BY <2>1, <2>5, <3>2
    <3> QED BY <2>2, <3>1, <3>2
  <2>9. ItemsHaveSegments'
    <3> SUFFICES ASSUME NEW w \in Workers, NEW k \in Places(w)'
                 PROVE  SegmentOf(w, k)' \in fSegments'
      BY DEF ItemsHaveSegments
    <3>1. CASE k \in Places(w)
      BY <2>2, <2>4, <2>7, <3>1 DEF ItemsHaveSegments
    <3>2. CASE w = i /\ k = n
      BY <2>2, <2>5, <3>2
    <3> QED BY <2>6, <3>1, <3>2
  <2>10. ItemsAreApart'
    <3>1. \A w \in Workers : \A k \in Places(w) : fHitQueues'[w][k].begin # Begin(index)
      <4> SUFFICES ASSUME NEW w \in Workers, NEW k \in Places(w)
                   PROVE  fHitQueues'[w][k].begin # Begin(index)
        OBVIOUS
      <4>1. SegmentOf(w, k) \in fSegments
        BY <2>7 DEF ItemsHaveSegments
      <4>2. SegmentOf(w, k)[1] = fHitQueues[w][k].begin
        BY DEF SegmentOf
      <4> QED BY <2>3, <2>4, <4>1, <4>2
    <3> SUFFICES ASSUME NEW v \in Workers, NEW w \in Workers, NEW j \in Places(v)',
                        NEW k \in Places(w)', fHitQueues'[v][j].begin = fHitQueues'[w][k].begin
                 PROVE  v = w /\ j = k
      BY DEF ItemsAreApart
    <3>2. CASE j \in Places(v) /\ k \in Places(w)
      <4>1. fHitQueues[v][j].begin = fHitQueues[w][k].begin
        BY <2>4, <3>2
      <4> QED BY <2>7, <3>2, <4>1 DEF ItemsAreApart
    <3> QED BY <2>1, <2>6, <3>1, <3>2
  <2>11. Unstarted'
    <3> SUFFICES ASSUME NEW w \in Workers, NEW k \in DOMAIN fHitQueues'[w],
                        ~fHitQueues'[w][k].ScoringStarted
                 PROVE  k \in Places(w)'
      BY DEF Unstarted
    <3>1. CASE k \in DOMAIN fHitQueues[w]
      <4>1. ~fHitQueues[w][k].ScoringStarted
        BY <2>1, <3>1
      <4>2. k \in Places(w)
        BY <2>7, <3>1, <4>1 DEF Unstarted
      <4> QED BY <2>4, <4>2
    <3>2. CASE w = i /\ k = n
      BY <2>5, <3>2
    <3> QED BY <2>1, <3>1, <3>2
  <2>12. Held'
    <3> SUFFICES ASSUME NEW w \in Workers, handle'[w].step # "none"
                 PROVE  /\ fHitQueues'[w] # <<>> /\ fHitQueues'[w][1] = fHitQueues[w][1]
                        /\ handle'[w] = handle[w]
      BY <1>0, <2>7 DEF Held
    <3>1. handle'[w] = handle[w] /\ handle[w].step # "none"
      BY <1>0
    <3>2. fHitQueues[w] # <<>> /\ fHitQueues[w] \in Seq(Items)
      BY <2>7, <3>1, BatchTypes DEF Held
    <3>3. 1 \in DOMAIN fHitQueues[w]
      BY <3>2
    <3>4. 1 \in DOMAIN fHitQueues'[w]
      BY <2>1, <3>3
    <3> QED BY <2>1, <3>1, <3>3, <3>4
  <2> QED BY <2>8, <2>9, <2>10, <2>11, <2>12 DEF QueueInv
<1> QED BY <1>1, <1>2
(* Copying out takes the hits of the last item of a queue away.            *)
LEMMA CopyOutQueue ==
  ASSUME AInv, CopyOut
  PROVE  QueueInv'
<1>0. UNCHANGED handle /\ index \in Workers
  BY CopyOutStep
<1>1. CASE ~CopiesOut
  <2>1. UNCHANGED <<fHitQueues, fSegments, handle>>
    BY <1>1, CopyOutStep
  <2> QED BY <2>1 DEF AInv, QueueInv, SegmentsHaveItems, ItemsHaveSegments, ItemsAreApart, Unstarted,
             Held, Places, SegmentOf
<1>2. CASE CopiesOut
  <2>a. PICK i \in Workers : i = index
    BY <1>0
  <2>b. fHitQueues[i] \in Seq(Items) /\ fHitQueues[i] # <<>>
    BY <1>2, <2>a, BatchTypes DEF CopiesOut
  <2>c. PICK n \in DOMAIN fHitQueues[i] : n = Len(fHitQueues[i])
    BY <2>b
  <2>d. PICK moved : moved = [NoItem EXCEPT !.ScoringStarted = TRUE,
                               !.holdoutBuffer = Contents(fHitQueues[i][n])]
    OBVIOUS
  <2>1. /\ n \in Places(i) /\ fSegments' = fSegments \ {SegmentOf(i, n)}
        /\ fHitQueues' = [fHitQueues EXCEPT ![i][n] = moved]
    BY <1>2, <2>a, <2>c, <2>d, CopyOutStep
  <2>2. moved.ScoringStarted = TRUE /\ moved.IsDataOnHostBuffer = FALSE
    BY <2>d DEF NoItem
  <2>3. fHitQueues \in [Workers -> Seq(Items)]
    BY DEF AInv, TypeOK
  <2>4. /\ \A w \in Workers : DOMAIN fHitQueues'[w] = DOMAIN fHitQueues[w]
        /\ \A w \in Workers : \A k \in DOMAIN fHitQueues[w] :
             fHitQueues'[w][k] = IF w = i /\ k = n THEN moved ELSE fHitQueues[w][k]
    BY <2>1, <2>3
  <2>5. \A w \in Workers : Places(w)' = IF w = i THEN Places(w) \ {n} ELSE Places(w)
    <3> SUFFICES ASSUME NEW w \in Workers
                 PROVE  Places(w)' = IF w = i THEN Places(w) \ {n} ELSE Places(w)
      OBVIOUS
    <3> QED BY <2>2, <2>4 DEF Places
  <2>6. \A w \in Workers : \A k \in Places(w)' :
          /\ k \in Places(w) /\ SegmentOf(w, k)' = SegmentOf(w, k) /\ ~(w = i /\ k = n)
          /\ fHitQueues'[w][k].begin = fHitQueues[w][k].begin
    <3> SUFFICES ASSUME NEW w \in Workers, NEW k \in Places(w)'
                 PROVE  /\ k \in Places(w) /\ ~(w = i /\ k = n)
                        /\ fHitQueues'[w][k] = fHitQueues[w][k]
      BY DEF SegmentOf
    <3>1. k \in Places(w) /\ ~(w = i /\ k = n)
      BY <2>5
    <3>2. k \in DOMAIN fHitQueues[w]
      BY <3>1 DEF Places
    <3> QED BY <2>4, <3>1, <3>2
  <2>7. SegmentsHaveItems /\ ItemsHaveSegments /\ ItemsAreApart /\ Unstarted /\ Held
    BY DEF AInv, QueueInv
  <2>8. SegmentsHaveItems'
    <3> SUFFICES ASSUME NEW t \in fSegments'
                 PROVE  \E w \in Workers : \E k \in Places(w)' : t = SegmentOf(w, k)'
      BY DEF SegmentsHaveItems
    <3>1. t \in fSegments /\ t # SegmentOf(i, n)
      BY <2>1
    <3>2. PICK w \in Workers : \E k \in Places(w) : t = SegmentOf(w, k)
      BY <2>7, <3>1 DEF SegmentsHaveItems
    <3>3. PICK k \in Places(w) : t = SegmentOf(w, k)
      BY <3>2
    <3>4. k \in Places(w)'
      BY <2>5, <3>1, <3>3
    <3> QED BY <2>6, <3>3, <3>4
  <2>9. ItemsHaveSegments'
    <3> SUFFICES ASSUME NEW w \in Workers, NEW k \in Places(w)'
                 PROVE  SegmentOf(w, k)' \in fSegments'
      BY DEF ItemsHaveSegments
    <3>1. /\ k \in Places(w) /\ SegmentOf(w, k)' = SegmentOf(w, k) /\ ~(w = i /\ k = n)
      BY <2>6
    <3>2. SegmentOf(w, k) \in fSegments
      BY <2>7, <3>1 DEF ItemsHaveSegments
    <3>3. SegmentOf(w, k) # SegmentOf(i, n)
      <4>1. fHitQueues[w][k].begin # fHitQueues[i][n].begin
        BY <2>1, <2>7, <3>1 DEF ItemsAreApart
      <4> QED BY <4>1 DEF SegmentOf
    <3> QED BY <2>1, <3>1, <3>2, <3>3
  <2>10. ItemsAreApart'
    BY <2>6, <2>7 DEF ItemsAreApart
  <2>11. Unstarted'
    <3> SUFFICES ASSUME NEW w \in Workers, NEW k \in DOMAIN fHitQueues'[w],
                        ~fHitQueues'[w][k].ScoringStarted
                 PROVE  k \in Places(w)'
      BY DEF Unstarted
    <3>1. ~(w = i /\ k = n) /\ k \in DOMAIN fHitQueues[w] /\ ~fHitQueues[w][k].ScoringStarted
      BY <2>2, <2>4
    <3>2. k \in Places(w)
      BY <2>7, <3>1 DEF Unstarted
    <3> QED BY <2>5, <3>1, <3>2
  <2>12. Held'
    <3> SUFFICES ASSUME NEW w \in Workers, handle'[w].step # "none"
                 PROVE  /\ fHitQueues'[w] # <<>> /\ fHitQueues'[w][1] = fHitQueues[w][1]
                        /\ handle'[w] = handle[w]
      BY <1>0, <2>7 DEF Held
    <3>1. handle'[w] = handle[w] /\ handle[w].step # "none"
      BY <1>0
    <3>2. fHitQueues[w] # <<>> /\ fHitQueues[w] \in Seq(Items) /\ fHitQueues[w][1].ScoringStarted
      BY <2>7, <3>1, BatchTypes DEF Held
    <3>3. 1 \in DOMAIN fHitQueues[w]
      BY <3>2
    <3>4. 1 \in DOMAIN fHitQueues'[w]
      BY <2>4, <3>3
    <3>5. ~(w = i /\ 1 = n)
      BY <1>2, <2>a, <2>c, <3>2 DEF CopiesOut
    <3> QED BY <2>4, <3>1, <3>3, <3>4, <3>5
  <2> QED BY <2>8, <2>9, <2>10, <2>11, <2>12 DEF QueueInv
<1> QED BY <1>1, <1>2

(* Taking an item marks it.                                                *)
LEMMA TakeQueue ==
  ASSUME AInv, NEW w \in Workers, GetNextHitsHandle(w)
  PROVE  QueueInv'
<1>1. UNCHANGED fSegments /\ fHitQueues[w] # <<>> /\ fHitQueues[w] \in Seq(Items)
  BY BatchTypes DEF GetNextHitsHandle, bufferVars
<1>2. /\ fHitQueues \in [Workers -> Seq(Items)]
      /\ handle \in [Workers -> [item : Items, step : {"none", "taken", "processed"}]]
  BY DEF AInv, TypeOK
<1>3. 1 \in DOMAIN fHitQueues[w] /\ Head(fHitQueues[w]) = fHitQueues[w][1]
  BY <1>1
<1> DEFINE first == [fHitQueues[w][1] EXCEPT !.ScoringStarted = TRUE]
           held  == [item |-> fHitQueues[w][1], step |-> "taken"]
<1>4. /\ fHitQueues' = [fHitQueues EXCEPT ![w] = [fHitQueues[w] EXCEPT ![1] = first]]
      /\ handle' = [handle EXCEPT ![w] = held]
  BY <1>2, <1>3 DEF GetNextHitsHandle
<1>5. /\ first.begin = fHitQueues[w][1].begin /\ first.end = fHitQueues[w][1].end
      /\ first.IsDataOnHostBuffer = fHitQueues[w][1].IsDataOnHostBuffer
      /\ first.holdoutBuffer = fHitQueues[w][1].holdoutBuffer
      /\ first.ScoringStarted = TRUE
  <2>1. fHitQueues[w][1] \in Items
    BY <1>1, <1>3
  <2> QED BY <2>1 DEF Items
<1>6. held.item = fHitQueues[w][1]
  OBVIOUS
<1> HIDE DEF first, held
<1>7. /\ \A v \in Workers : DOMAIN fHitQueues'[v] = DOMAIN fHitQueues[v]
      /\ \A v \in Workers : \A k \in DOMAIN fHitQueues[v] :
           fHitQueues'[v][k] = IF v = w /\ k = 1 THEN first ELSE fHitQueues[v][k]
      /\ \A v \in Workers : handle'[v] = IF v = w THEN held ELSE handle[v]
  BY <1>2, <1>4
<1>8. \A v \in Workers : \A k \in DOMAIN fHitQueues[v] :
        /\ fHitQueues'[v][k].begin = fHitQueues[v][k].begin
        /\ fHitQueues'[v][k].end = fHitQueues[v][k].end
        /\ fHitQueues'[v][k].IsDataOnHostBuffer = fHitQueues[v][k].IsDataOnHostBuffer
        /\ fHitQueues'[v][k].holdoutBuffer = fHitQueues[v][k].holdoutBuffer
        /\ ~fHitQueues'[v][k].ScoringStarted => ~fHitQueues[v][k].ScoringStarted
  BY <1>5, <1>7
<1>9. \A v \in Workers : Places(v)' = Places(v)
  <2> SUFFICES ASSUME NEW v \in Workers PROVE Places(v)' = Places(v)
    OBVIOUS
  <2> QED BY <1>7, <1>8 DEF Places
<1>10. \A v \in Workers : \A k \in Places(v) :
         SegmentOf(v, k)' = SegmentOf(v, k) /\ fHitQueues'[v][k].begin = fHitQueues[v][k].begin
  BY <1>8 DEF Places, SegmentOf
<1>11. SegmentsHaveItems /\ ItemsHaveSegments /\ ItemsAreApart /\ Unstarted /\ Held
  BY DEF AInv, QueueInv
<1>12. SegmentsHaveItems' /\ ItemsHaveSegments' /\ ItemsAreApart'
  BY <1>1, <1>9, <1>10, <1>11 DEF SegmentsHaveItems, ItemsHaveSegments, ItemsAreApart
<1>13. Unstarted'
  BY <1>7, <1>8, <1>9, <1>11 DEF Unstarted
<1>14. Held'
  <2> SUFFICES ASSUME NEW v \in Workers, handle'[v].step # "none"
               PROVE  /\ fHitQueues'[v] # <<>> /\ fHitQueues'[v][1].ScoringStarted
                      /\ handle'[v].item.begin = fHitQueues'[v][1].begin
                      /\ handle'[v].item.end = fHitQueues'[v][1].end
                      /\ handle'[v].item.IsDataOnHostBuffer = fHitQueues'[v][1].IsDataOnHostBuffer
                      /\ handle'[v].item.holdoutBuffer = fHitQueues'[v][1].holdoutBuffer
    BY DEF Held
  <2>1. CASE v = w
    <3>1. handle'[v].item = fHitQueues[w][1] /\ fHitQueues'[v][1] = first /\ 1 \in DOMAIN fHitQueues'[v]
      BY <1>3, <1>6, <1>7, <2>1
    <3> QED BY <1>5, <2>1, <3>1
  <2>2. CASE v # w
    <3>1. handle'[v] = handle[v] /\ fHitQueues'[v] = fHitQueues[v]
      BY <1>2, <1>4, <2>2
    <3> QED BY <1>11, <3>1 DEF Held
  <2> QED BY <2>1, <2>2
<1> QED BY <1>12, <1>13, <1>14 DEF QueueInv

(* Processing leaves what is held.                                         *)
LEMMA ProcessQueue ==
  ASSUME AInv, NEW w \in Workers, ProcessGPUSteps(w)
  PROVE  QueueInv'
<1>1. UNCHANGED <<fSegments, fHitQueues>>
  BY DEF ProcessGPUSteps, bufferVars, hostVars
<1>2. handle' = [handle EXCEPT ![w].step = "processed"] /\ handle[w].step = "taken"
  BY DEF ProcessGPUSteps
<1>3. handle \in [Workers -> [item : Items, step : {"none", "taken", "processed"}]]
  BY DEF AInv, TypeOK
<1>4. \A v \in Workers : handle'[v].item = handle[v].item
                         /\ (handle'[v].step # "none" => handle[v].step # "none")
  BY <1>2, <1>3
<1> QED BY <1>1, <1>4 DEF AInv, QueueInv, SegmentsHaveItems, ItemsHaveSegments, ItemsAreApart,
           Unstarted, Held, Places, SegmentOf
(* The first item of a queue goes, and its segment with it.                *)
LEMMA CloseQueue ==
  ASSUME AInv, NEW w \in Workers, CloseHitsHandle(w)
  PROVE  QueueInv'
<1>1. /\ fHitQueues' = [fHitQueues EXCEPT ![w] = Tail(fHitQueues[w])]
      /\ handle' = [handle EXCEPT ![w] = [item |-> NoItem, step |-> "none"]]
  BY DEF CloseHitsHandle
<1>2. /\ fHitQueues \in [Workers -> Seq(Items)]
      /\ handle \in [Workers -> [item : Items, step : {"none", "taken", "processed"}]]
  BY DEF AInv, TypeOK
<1>3. fHitQueues[w] # <<>> /\ fHitQueues[w] \in Seq(Items)
  BY CloseStep
<1> DEFINE q == fHitQueues[w]
           rest == Tail(q)
           none == [item |-> NoItem, step |-> "none"]
<1>4. /\ 1 \in DOMAIN q /\ \A k \in DOMAIN rest : k + 1 \in DOMAIN q /\ rest[k] = q[k + 1]
      /\ \A k \in DOMAIN q : k # 1 => k - 1 \in DOMAIN rest /\ k = (k - 1) + 1
      /\ DOMAIN rest \subseteq Nat \ {0}
  BY <1>3
<1>5. none.step = "none"
  OBVIOUS
<1> HIDE DEF rest, none
<1>6. /\ \A v \in Workers : v # w => fHitQueues'[v] = fHitQueues[v] /\ handle'[v] = handle[v]
      /\ fHitQueues'[w] = rest /\ handle'[w] = none
  BY <1>1, <1>2 DEF rest, none
<1>7. \A v \in Workers : v # w => Places(v)' = Places(v)
  BY <1>6 DEF Places
<1>8. \A k \in Places(w)' : /\ k + 1 \in Places(w) /\ fHitQueues'[w][k] = q[k + 1] /\ k \in Nat \ {0}
                            /\ SegmentOf(w, k)' = SegmentOf(w, k + 1)
  <2> SUFFICES ASSUME NEW k \in Places(w)'
               PROVE  /\ k + 1 \in Places(w) /\ fHitQueues'[w][k] = q[k + 1] /\ k \in Nat \ {0}
                      /\ SegmentOf(w, k)' = SegmentOf(w, k + 1)
    OBVIOUS
  <2>1. k \in DOMAIN rest /\ rest[k].IsDataOnHostBuffer
    BY <1>6 DEF Places
  <2>2. k + 1 \in DOMAIN q /\ rest[k] = q[k + 1] /\ k \in Nat \ {0}
    BY <1>4, <2>1
  <2>3. k + 1 \in Places(w)
    BY <2>1, <2>2 DEF Places
  <2> QED BY <1>6, <2>2, <2>3 DEF SegmentOf
<1>9. \A k \in Places(w) : k # 1 => /\ k - 1 \in Places(w)' /\ SegmentOf(w, k - 1)' = SegmentOf(w, k)
  <2> SUFFICES ASSUME NEW k \in Places(w), k # 1
               PROVE  /\ k - 1 \in Places(w)' /\ SegmentOf(w, k - 1)' = SegmentOf(w, k)
    OBVIOUS
  <2>1. k \in DOMAIN q /\ q[k].IsDataOnHostBuffer
    BY DEF Places
  <2>2. k - 1 \in DOMAIN rest /\ rest[k - 1] = q[k]
    BY <1>4, <2>1
  <2>3. k - 1 \in Places(w)'
    BY <1>6, <2>1, <2>2 DEF Places
  <2> QED BY <1>6, <2>2, <2>3 DEF SegmentOf
<1>10. SegmentsHaveItems /\ ItemsHaveSegments /\ ItemsAreApart /\ Unstarted /\ Held
  BY DEF AInv, QueueInv
<1>11. fSegments' = IF 1 \in Places(w) THEN fSegments \ {SegmentOf(w, 1)} ELSE fSegments
  BY CloseStep
<1> HIDE DEF q
<1>12. SegmentsHaveItems'
  <2> SUFFICES ASSUME NEW t \in fSegments'
               PROVE  \E v \in Workers : \E k \in Places(v)' : t = SegmentOf(v, k)'
    BY DEF SegmentsHaveItems
  <2>1. t \in fSegments /\ (1 \in Places(w) => t # SegmentOf(w, 1))
    BY <1>11
  <2>2. PICK v \in Workers : \E k \in Places(v) : t = SegmentOf(v, k)
    BY <1>10, <2>1 DEF SegmentsHaveItems
  <2>3. PICK k \in Places(v) : t = SegmentOf(v, k)
    BY <2>2
  <2>4. CASE v = w
    <3>1. k # 1
      BY <2>1, <2>3, <2>4
    <3> QED BY <1>9, <2>3, <2>4, <3>1
  <2>5. CASE v # w
    <3>1. k \in Places(v)' /\ SegmentOf(v, k)' = SegmentOf(v, k)
      BY <1>6, <1>7, <2>5 DEF SegmentOf
    <3> QED BY <2>3, <3>1
  <2> QED BY <2>4, <2>5
<1>13. ASSUME NEW v \in Workers, NEW k \in Places(v)'
       PROVE  LET j == IF v = w THEN k + 1 ELSE k
              IN  /\ j \in Places(v) /\ fHitQueues'[v][k] = fHitQueues[v][j]
                  /\ SegmentOf(v, k)' = SegmentOf(v, j)
                  /\ ~(v = w /\ j = 1)
  <2>1. CASE v = w
    BY <1>8, <2>1 DEF q
  <2>2. CASE v # w
    BY <1>6, <1>7, <2>2 DEF SegmentOf
  <2> QED BY <2>1, <2>2
<1>14. ItemsHaveSegments'
  <2> SUFFICES ASSUME NEW v \in Workers, NEW k \in Places(v)'
               PROVE  SegmentOf(v, k)' \in fSegments'
    BY DEF ItemsHaveSegments
  <2>1. PICK j \in Places(v) : SegmentOf(v, k)' = SegmentOf(v, j) /\ ~(v = w /\ j = 1)
    BY <1>13
  <2>2. SegmentOf(v, j) \in fSegments
    BY <1>10 DEF ItemsHaveSegments
  <2>3. 1 \in Places(w) => SegmentOf(v, j) # SegmentOf(w, 1)
    <3> SUFFICES ASSUME 1 \in Places(w) PROVE SegmentOf(v, j) # SegmentOf(w, 1)
      OBVIOUS
    <3>1. fHitQueues[v][j].begin # fHitQueues[w][1].begin
      BY <1>10, <2>1 DEF ItemsAreApart
    <3> QED BY <3>1 DEF SegmentOf
  <2> QED BY <1>11, <2>1, <2>2, <2>3
<1>15. ItemsAreApart'
  <2> SUFFICES ASSUME NEW v \in Workers, NEW u \in Workers, NEW j \in Places(v)', NEW k \in Places(u)',
                      fHitQueues'[v][j].begin = fHitQueues'[u][k].begin
               PROVE  v = u /\ j = k
    BY DEF ItemsAreApart
  <2> DEFINE a == IF v = w THEN j + 1 ELSE j
             b == IF u = w THEN k + 1 ELSE k
  <2>1. /\ a \in Places(v) /\ fHitQueues'[v][j] = fHitQueues[v][a]
        /\ b \in Places(u) /\ fHitQueues'[u][k] = fHitQueues[u][b]
    BY <1>13
  <2>2. v = u /\ a = b
    <3> HIDE DEF a, b
    <3> QED BY <1>10, <2>1 DEF ItemsAreApart
  <2>3. CASE v = w
    BY <1>8, <2>2, <2>3
  <2>4. CASE v # w
    BY <2>2, <2>4
  <2> QED BY <2>3, <2>4
<1>16. Unstarted'
  <2> SUFFICES ASSUME NEW v \in Workers, NEW k \in DOMAIN fHitQueues'[v],
                      ~fHitQueues'[v][k].ScoringStarted
               PROVE  k \in Places(v)'
    BY DEF Unstarted
  <2>1. CASE v = w
    <3>1. k \in DOMAIN rest /\ k + 1 \in DOMAIN q /\ rest[k] = q[k + 1] /\ fHitQueues'[v][k] = q[k + 1]
      BY <1>4, <1>6, <2>1
    <3>2. k + 1 \in Places(w)
      BY <1>10, <3>1 DEF Unstarted, q
    <3>3. q[k + 1].IsDataOnHostBuffer
      BY <3>2 DEF Places, q
    <3> QED BY <2>1, <3>1, <3>3 DEF Places
  <2>2. CASE v # w
    BY <1>6, <1>10, <2>2 DEF Unstarted, Places
  <2> QED BY <2>1, <2>2
<1>17. Held'
  <2> SUFFICES ASSUME NEW v \in Workers, handle'[v].step # "none"
               PROVE  v # w
    BY <1>6, <1>10 DEF Held
  <2> QED BY <1>5, <1>6
<1> QED BY <1>12, <1>14, <1>15, <1>16, <1>17 DEF QueueInv

LEMMA QueueStep == AInv /\ [Next]_vars => QueueInv'
<1> SUFFICES ASSUME AInv, [Next]_vars PROVE QueueInv'
  OBVIOUS
<1>1. ASSUME \/ \E w \in Workers : RecordHit(w)
             \/ SwapDeviceBuffers \/ PublishSwap \/ WakeUp \/ TransferHitsToHost \/ ProcessHits
             \/ ReleaseHostBuffer \/ EndProcessBuffer \/ Callback \/ UNCHANGED vars
      PROVE  QueueInv'
  <2>1. UNCHANGED <<fSegments, fHitQueues, handle>>
    BY <1>1 DEF RecordHit, SwapDeviceBuffers, PublishSwap, WakeUp, TransferHitsToHost, ProcessHits,
       ReleaseHostBuffer, EndProcessBuffer, Callback, CopyCounts, CopyHits, FreeDeviceBuffer,
       FinishTransfer, getFreeContiguousMemory, hostVars, bufferVars, vars
  <2> QED BY <2>1 DEF AInv, QueueInv, SegmentsHaveItems, ItemsHaveSegments, ItemsAreApart, Unstarted,
             Held, Places, SegmentOf
<1>2. ASSUME NEW w \in Workers, Worker(w) PROVE QueueInv'
  BY <1>2, TakeQueue, ProcessQueue, CloseQueue DEF Worker
<1> QED BY <1>1, <1>2, PushQueue, CopyOutQueue DEF Next, HitThread
-----------------------------------------------------------------------------
LEMMA InitAInv == Init => AInv
<1> SUFFICES ASSUME Init PROVE AInv
  OBVIOUS
<1> USE HitScoringAssumption, CapacityAssumption
<1>1. IInv
  BY InitInvariant
<1>2. BufferInv
  BY BufferInitially DEF Init
<1>3. /\ hpc = "waiting" /\ hostState = "ReadyToBeFilled" /\ tpc = "transport" /\ stream = "idle"
      /\ countsCopied = TRUE /\ fActiveBuffer = 0
      /\ fDeviceState = [b \in {0, 1} |-> IF b = 0 THEN "Filling" ELSE "Free"]
      /\ reserved = <<0, 0>> /\ fSegments = {} /\ index = 1 /\ offsetAtCopy = 0
      /\ fHitQueues = [w \in Workers |-> <<>>]
      /\ handle = [w \in Workers |-> [item |-> NoItem, step |-> "none"]]
  BY DEF Init, BufferInit
<1>4. Phases
  BY <1>3 DEF Phases, previous, Transferring
<1>5. Granted /\ Sizes
  BY <1>3 DEF Granted, Sizes, Transferring
<1>6. QueueInv
  BY <1>3 DEF QueueInv, SegmentsHaveItems, ItemsHaveSegments, ItemsAreApart, Unstarted, Held, Places
<1>7. DeviceTypes
  BY DEF Init, DeviceTypes
<1>8. BatchTypeOK
  <2>1. /\ hostBufferCount \in [Workers -> 0 .. NSlot] /\ hasty = FALSE
        /\ copySizes \in [Workers -> 0 .. NSlot]
    BY DEF Init
  <2>2. 1 \in 1 .. NWorkers + 1 /\ 0 \in 0 .. Capacity
    OBVIOUS
  <2> QED BY <1>3, <2>1, <2>2 DEF BatchTypeOK
<1>9. HostTypes
  <2>1. hostBuffer \in [0 .. Capacity - 1 -> 0 .. MaxHits]
    BY DEF Init
  <2>2. NoItem \in Items
    BY DEF NoItem, Items
  <2> QED BY <1>3, <2>1, <2>2 DEF HostTypes
<1> QED BY <1>1, <1>2, <1>3, <1>4, <1>5, <1>6, <1>7, <1>8, <1>9, TypesAre DEF AInv, BufferInv, IInv

LEMMA StepAInv == AInv /\ [Next]_vars /\ ~hasty' => AInv'
<1> SUFFICES ASSUME AInv, [Next]_vars, ~hasty' PROVE AInv'
  OBVIOUS
<1>1. TypeOK' /\ BufferInv' /\ Phases' /\ Sizes' /\ Granted' /\ QueueInv'
  BY TypesStep, BufferStep, PhasesStep, SizesStep, GrantedStep, QueueStep
<1>2. IInv'
  BY StepInvariant DEF AInv
<1> QED BY <1>1, <1>2 DEF AInv

LEMMA HastyStays == hasty /\ [Next]_vars => hasty'
BY DEF Next, HitThread, Callback, Worker, RecordHit, SwapDeviceBuffers, PublishSwap, WakeUp,
   TransferHitsToHost, ProcessHits, PushHits, ReleaseHostBuffer, CopyOut, EndProcessBuffer,
   CopyCounts, CopyHits, FreeDeviceBuffer, FinishTransfer, GetNextHitsHandle, ProcessGPUSteps,
   CloseHitsHandle, batchVars, vars

(* Until a transfer is hasty, the batches are as AInv says.                *)
LEMMA AInvHolds == Safety => [](hasty \/ AInv)
<1>1. (hasty \/ AInv) /\ [Next]_vars => (hasty \/ AInv)'
  BY HastyStays, StepAInv
<1> QED BY <1>1, InitAInv, PTL DEF Safety

LEMMA QueueAgrees == AInv => fSegments = QueuedSegments
<1> SUFFICES ASSUME AInv PROVE fSegments = QueuedSegments
  OBVIOUS
<1>1. SegmentsHaveItems /\ ItemsHaveSegments
  BY DEF AInv, QueueInv
<1> DEFINE items == UNION {{fHitQueues[w][k] : k \in {k \in DOMAIN fHitQueues[w] :
                                fHitQueues[w][k].IsDataOnHostBuffer}} : w \in Workers}
<1>2. \A w \in Workers : \A k \in Places(w) : fHitQueues[w][k] \in items
  BY DEF Places
<1>3. \A item \in items : \E w \in Workers : \E k \in Places(w) : item = fHitQueues[w][k]
  BY DEF Places
<1> HIDE DEF items
<1>4. \A s \in fSegments : \E item \in items : s = <<item.begin, item.end>>
  BY <1>1, <1>2 DEF SegmentsHaveItems, SegmentOf
<1>5. \A item \in items : <<item.begin, item.end>> \in fSegments
  BY <1>1, <1>3 DEF ItemsHaveSegments, SegmentOf
<1>6. fSegments = {<<item.begin, item.end>> : item \in items}
  BY <1>4, <1>5
<1> QED BY <1>6 DEF QueuedSegments, items

(* Who is done with an item removes its segment: the worker that closes it *)
(* and the hit thread that has copied it out.                              *)
LEMMA ClosingRemoves ==
  ASSUME AInv, [Next]_vars, NEW w \in Workers, handle[w].step # "none",
         handle[w].item.IsDataOnHostBuffer, handle'[w].step = "none"
  PROVE  Removes(handle[w].item)
<1>1. handle \in [Workers -> [item : Items, step : {"none", "taken", "processed"}]]
  BY DEF AInv, TypeOK
<1>2. ASSUME NEW v \in Workers, GetNextHitsHandle(v) \/ ProcessGPUSteps(v) PROVE FALSE
  <2>1. \/ handle' = [handle EXCEPT ![v] = [item |-> Head(fHitQueues[v]), step |-> "taken"]]
        \/ handle' = [handle EXCEPT ![v].step = "processed"]
    BY <1>2 DEF GetNextHitsHandle, ProcessGPUSteps
  <2> QED BY <1>1, <2>1
<1>3. ASSUME NEW v \in Workers, CloseHitsHandle(v), v # w PROVE FALSE
  <2>1. handle' = [handle EXCEPT ![v] = [item |-> NoItem, step |-> "none"]]
    BY <1>3 DEF CloseHitsHandle
  <2> QED BY <1>1, <1>3, <2>1
<1>4. CloseHitsHandle(w)
  <2>1. ~UNCHANGED handle
    OBVIOUS
  <2> QED BY <1>2, <1>3, <2>1 DEF Next, HitThread, Callback, Worker, RecordHit, SwapDeviceBuffers,
     PublishSwap, WakeUp, TransferHitsToHost, ProcessHits, PushHits, ReleaseHostBuffer, CopyOut,
     EndProcessBuffer, CopyCounts, CopyHits, FreeDeviceBuffer, FinishTransfer, vars
<1>5. /\ fHitQueues[w] # <<>> /\ fHitQueues[w] \in Seq(Items)
      /\ 1 \in Places(w) => /\ fSegments' = fSegments \ {SegmentOf(w, 1)}
                            /\ SegmentOf(w, 1) \in fSegments
  BY <1>4, CloseStep
<1>6. /\ handle[w].item.begin = fHitQueues[w][1].begin
      /\ handle[w].item.end = fHitQueues[w][1].end
      /\ handle[w].item.IsDataOnHostBuffer = fHitQueues[w][1].IsDataOnHostBuffer
  BY DEF AInv, QueueInv, Held
<1>7. 1 \in Places(w)
  BY <1>5, <1>6 DEF Places
<1>8. UNCHANGED <<fWritePtr, fFreeContiguousSpace, reserved>>
  BY <1>4 DEF CloseHitsHandle
<1>9. SegmentOf(w, 1) = <<handle[w].item.begin, handle[w].item.end>>
  BY <1>6 DEF SegmentOf
<1> QED BY <1>5, <1>7, <1>8, <1>9 DEF Removes, removeSegment

LEMMA CopyingOutRemoves ==
  ASSUME AInv, [Next]_vars, hpc = "copyOut", fHitQueues' # fHitQueues, UNCHANGED handle
  PROVE  Removes(fHitQueues[index][Len(fHitQueues[index])])
<1>1. handle \in [Workers -> [item : Items, step : {"none", "taken", "processed"}]]
  BY DEF AInv, TypeOK
<1>2. ASSUME NEW v \in Workers, GetNextHitsHandle(v) PROVE FALSE
  <2>1. /\ handle[v].step = "none"
        /\ handle' = [handle EXCEPT ![v] = [item |-> Head(fHitQueues[v]), step |-> "taken"]]
    BY <1>2 DEF GetNextHitsHandle
  <2> QED BY <1>1, <2>1
<1>3. ASSUME NEW v \in Workers, CloseHitsHandle(v) PROVE FALSE
  <2>1. /\ handle[v].step = "processed"
        /\ handle' = [handle EXCEPT ![v] = [item |-> NoItem, step |-> "none"]]
    BY <1>3 DEF CloseHitsHandle
  <2> QED BY <1>1, <2>1
<1>4. CopyOut
  BY <1>2, <1>3 DEF Next, HitThread, Callback, Worker, RecordHit, SwapDeviceBuffers, PublishSwap,
     WakeUp, TransferHitsToHost, ProcessHits, PushHits, ReleaseHostBuffer, EndProcessBuffer,
     CopyCounts, CopyHits, FreeDeviceBuffer, FinishTransfer, ProcessGPUSteps, hostVars, vars
<1>5. CopiesOut
  BY <1>4, CopyOutStep
<1> DEFINE n == Len(fHitQueues[index])
<1>6. /\ fSegments' = fSegments \ {SegmentOf(index, n)} /\ SegmentOf(index, n) \in fSegments
      /\ UNCHANGED <<fWritePtr, fFreeContiguousSpace, reserved>>
  BY <1>4, <1>5, CopyOutStep
<1> QED BY <1>6 DEF Removes, removeSegment, SegmentOf

(* Until a transfer is hasty, the segments in use are exactly those to     *)
(* which an item of a queue points.                                        *)
THEOREM SegmentsAreQueuedHolds == Safety => []SegmentsAreQueued
<1>1. hasty \/ AInv => SegmentsAreQueued
  BY QueueAgrees DEF SegmentsAreQueued
<1> QED BY <1>1, AInvHolds, PTL

(* Until then the three threads together call the manager of the host      *)
(* buffer as its own specification has it: they add what was granted, part *)
(* by part, and remove the segments of the items they have done with.      *)
THEOREM BufferIsUsedCorrectly == Safety => UsesBufferCorrectly
<1>1. Init => BufferInit
  BY DEF Init
<1>2. (hasty \/ AInv) /\ [Next]_vars => [hasty \/ BufferUse]_bufferVars
  BY UseStep
<1>3. (hasty \/ AInv) /\ [Next]_vars => [hasty \/ Removals]_<<handle, fHitQueues>>
  BY ClosingRemoves, CopyingOutRemoves DEF Removals
<1> QED BY <1>1, <1>2, <1>3, AInvHolds, PTL DEF Safety, UsesBufferCorrectly

(* Every variable keeps its type, until a transfer is hasty.               *)
THEOREM TypesHold == Safety => [](hasty \/ TypeOK)
<1>1. AInv => TypeOK
  BY DEF AInv
<1> QED BY <1>1, AInvHolds, PTL
-----------------------------------------------------------------------------
(* The order of the hits.  A run is a sequence of consecutive hits; those  *)
(* of the items in a queue follow upon each other.  d is the number of     *)
(* hits that the worker has processed, p whether the first run is among    *)
(* them.                                                                   *)
Runs == Seq(0 .. MaxHits)
LastOf(r) == r[1] + Len(r) - 1
IsRun(r) == r # <<>> /\ \A j \in 1 .. Len(r) : r[j] = r[1] + j - 1

EndOf(c, d) == IF c = <<>> THEN d ELSE LastOf(c[Len(c)])

Ordered(c, d, p) ==
  /\ \A k \in 1 .. Len(c) : IsRun(c[k]) /\ LastOf(c[k]) <= EndOf(c, d)
  /\ \A k \in 1 .. Len(c) - 1 : c[k + 1][1] = LastOf(c[k]) + 1
  /\ c # <<>> => d = IF p THEN LastOf(c[1]) ELSE c[1][1] - 1

LEMMA RunTypes ==
  ASSUME NEW r \in Runs, IsRun(r)
  PROVE  r[1] \in Nat /\ Len(r) \in Nat \ {0} /\ LastOf(r) \in Nat /\ r[1] <= LastOf(r)
<1>1. MaxHits \in Nat
  BY HitScoringAssumption
<1>2. Len(r) \in Nat \ {0} /\ r[1] \in 0 .. MaxHits
  <2>1. r # <<>> /\ r \in Seq(0 .. MaxHits)
    BY DEF Runs, IsRun
  <2>2. Len(r) \in Nat \ {0}
    <3>1. \A S : \A s \in Seq(S) : s # <<>> => Len(s) \in Nat \ {0}
      OBVIOUS
    <3> QED BY <2>1, <3>1
  <2>3. 1 \in 1 .. Len(r)
    BY <2>2
  <2>4. r[1] \in 0 .. MaxHits
    <3>1. \A S : \A s \in Seq(S) : \A k \in 1 .. Len(s) : s[k] \in S
      OBVIOUS
    <3> QED BY <2>1, <2>3, <3>1
  <2> QED BY <2>2, <2>4
<1> QED BY <1>1, <1>2 DEF LastOf

LEMMA OrderedTypes ==
  ASSUME NEW c \in Seq(Runs), NEW d \in Nat, NEW p \in BOOLEAN, Ordered(c, d, p)
  PROVE  /\ EndOf(c, d) \in Nat /\ d <= EndOf(c, d)
         /\ \A k \in 1 .. Len(c) : c[k] \in Runs /\ c[k][1] \in Nat /\ LastOf(c[k]) \in Nat
<1>1. \A k \in 1 .. Len(c) : c[k] \in Runs /\ IsRun(c[k]) /\ LastOf(c[k]) <= EndOf(c, d)
  BY DEF Ordered
<1>2. \A k \in 1 .. Len(c) : c[k][1] \in Nat /\ LastOf(c[k]) \in Nat /\ c[k][1] <= LastOf(c[k])
  BY <1>1, RunTypes
<1>3. CASE c = <<>>
  BY <1>1, <1>2, <1>3 DEF EndOf
<1>4. CASE c # <<>>
  <2>1. 1 \in 1 .. Len(c) /\ Len(c) \in 1 .. Len(c)
    BY <1>4
  <2>2. EndOf(c, d) = LastOf(c[Len(c)])
    BY <1>4 DEF EndOf
  <2>3. d = IF p THEN LastOf(c[1]) ELSE c[1][1] - 1
    BY <1>4 DEF Ordered
  <2>4. /\ LastOf(c[1]) <= EndOf(c, d) /\ LastOf(c[1]) \in Nat /\ c[1][1] \in Nat
        /\ c[1][1] <= LastOf(c[1]) /\ EndOf(c, d) \in Nat
    BY <1>1, <1>2, <2>1, <2>2
  <2>5. d <= EndOf(c, d)
    BY <2>3, <2>4
  <2> QED BY <1>1, <1>2, <2>4, <2>5
<1> QED BY <1>3, <1>4

LEMMA OrderedAppend ==
  ASSUME NEW c \in Seq(Runs), NEW d \in Nat, NEW p \in BOOLEAN, Ordered(c, d, p),
         c = <<>> => ~p,
         NEW r \in Runs, IsRun(r), r[1] = EndOf(c, d) + 1
  PROVE  /\ Ordered(Append(c, r), d, p) /\ EndOf(Append(c, r), d) = EndOf(c, d) + Len(r)
<1> DEFINE a == Append(c, r)
           n == Len(c)
<1>1. /\ n \in Nat /\ a \in Seq(Runs) /\ Len(a) = n + 1 /\ a[n + 1] = r /\ a # <<>>
      /\ \A k \in 1 .. n : a[k] = c[k]
  OBVIOUS
<1>2. EndOf(c, d) \in Nat /\ \A k \in 1 .. n : LastOf(c[k]) \in Nat
  BY OrderedTypes
<1>3. r[1] \in Nat /\ Len(r) \in Nat \ {0} /\ LastOf(r) \in Nat /\ LastOf(r) = r[1] + Len(r) - 1
  BY RunTypes DEF LastOf
<1>4. /\ \A k \in 1 .. n : IsRun(c[k]) /\ LastOf(c[k]) <= EndOf(c, d)
      /\ \A k \in 1 .. n - 1 : c[k + 1][1] = LastOf(c[k]) + 1
      /\ c # <<>> => d = IF p THEN LastOf(c[1]) ELSE c[1][1] - 1
  BY DEF Ordered
<1>0. c = <<>> <=> n = 0
  OBVIOUS
<1>5. EndOf(c, d) = IF n = 0 THEN d ELSE LastOf(c[n])
  BY <1>0 DEF EndOf
<1> HIDE DEF a, n
<1>6. EndOf(a, d) = LastOf(r) /\ LastOf(r) = EndOf(c, d) + Len(r)
  BY <1>1, <1>2, <1>3 DEF EndOf
<1>7. \A k \in 1 .. n + 1 : IsRun(a[k]) /\ LastOf(a[k]) <= EndOf(a, d)
  <2> SUFFICES ASSUME NEW k \in 1 .. n + 1 PROVE IsRun(a[k]) /\ LastOf(a[k]) <= EndOf(a, d)
    OBVIOUS
  <2>1. CASE k = n + 1
    BY <1>1, <1>3, <1>6, <2>1
  <2>2. CASE k # n + 1
    <3>1. k \in 1 .. n
      BY <1>1, <2>2
    <3>2. IsRun(c[k]) /\ LastOf(c[k]) <= EndOf(c, d) /\ a[k] = c[k] /\ LastOf(c[k]) \in Nat
      BY <1>1, <1>2, <1>4, <3>1
    <3> QED BY <1>2, <1>3, <1>6, <3>2
  <2> QED BY <2>1, <2>2
<1>8. \A k \in 1 .. (n + 1) - 1 : a[k + 1][1] = LastOf(a[k]) + 1
  <2> SUFFICES ASSUME NEW k \in 1 .. n PROVE a[k + 1][1] = LastOf(a[k]) + 1
    BY <1>1
  <2>1. CASE k = n
    BY <1>1, <1>5, <2>1
  <2>2. CASE k # n
    <3>1. k \in 1 .. n - 1 /\ k + 1 \in 1 .. n
      BY <1>1, <2>2
    <3> QED BY <1>1, <1>4, <3>1
  <2> QED BY <2>1, <2>2
<1>9. d = IF p THEN LastOf(a[1]) ELSE a[1][1] - 1
  <2>1. CASE n = 0
    <3>1. ~p /\ a[1] = r /\ r[1] = d + 1
      BY <1>0, <1>1, <1>5, <2>1
    <3> QED BY <3>1
  <2>2. CASE n # 0
    <3>1. a[1] = c[1]
      BY <1>1, <2>2
    <3> QED BY <1>0, <1>4, <2>2, <3>1
  <2> QED BY <2>1, <2>2
<1>10. Ordered(a, d, p)
  BY <1>1, <1>7, <1>8, <1>9 DEF Ordered
<1> QED BY <1>6, <1>10 DEF a

LEMMA OrderedTail ==
  ASSUME NEW c \in Seq(Runs), NEW d \in Nat, Ordered(c, d, TRUE), c # <<>>
  PROVE  Ordered(Tail(c), d, FALSE) /\ EndOf(Tail(c), d) = EndOf(c, d)
<1> DEFINE t == Tail(c)
           n == Len(c)
<1>1. /\ n \in Nat \ {0} /\ t \in Seq(Runs) /\ Len(t) = n - 1
      /\ \A k \in 1 .. n - 1 : t[k] = c[k + 1]
  OBVIOUS
<1>2. t = <<>> <=> n = 1
  BY <1>1
<1>3. \A k \in 1 .. n : LastOf(c[k]) \in Nat /\ c[k][1] \in Nat
  BY OrderedTypes
<1>4. /\ \A k \in 1 .. n : IsRun(c[k]) /\ LastOf(c[k]) <= EndOf(c, d)
      /\ \A k \in 1 .. n - 1 : c[k + 1][1] = LastOf(c[k]) + 1
      /\ d = LastOf(c[1]) /\ EndOf(c, d) = LastOf(c[n])
  BY DEF Ordered, EndOf
<1> HIDE DEF t, n
<1>5. EndOf(t, d) = EndOf(c, d)
  <2>1. CASE n = 1
    BY <1>2, <1>4, <2>1 DEF EndOf
  <2>2. CASE n # 1
    <3>1. t # <<>> /\ t[n - 1] = c[n]
      BY <1>1, <1>2, <2>2
    <3> QED BY <1>1, <1>4, <3>1 DEF EndOf
  <2> QED BY <2>1, <2>2
<1>6. \A k \in 1 .. Len(t) : IsRun(t[k]) /\ LastOf(t[k]) <= EndOf(t, d)
  <2> SUFFICES ASSUME NEW k \in 1 .. n - 1 PROVE IsRun(t[k]) /\ LastOf(t[k]) <= EndOf(t, d)
    BY <1>1
  <2>1. k + 1 \in 1 .. n /\ t[k] = c[k + 1]
    BY <1>1
  <2> QED BY <1>4, <1>5, <2>1
<1>7. \A k \in 1 .. Len(t) - 1 : t[k + 1][1] = LastOf(t[k]) + 1
  <2> SUFFICES ASSUME NEW k \in 1 .. (n - 1) - 1 PROVE t[k + 1][1] = LastOf(t[k]) + 1
    BY <1>1
  <2>1. k + 1 \in 1 .. n - 1 /\ k \in 1 .. n - 1 /\ t[k] = c[k + 1] /\ t[k + 1] = c[(k + 1) + 1]
    BY <1>1
  <2> QED BY <1>4, <2>1
<1>8. t # <<>> => d = t[1][1] - 1
  <2> SUFFICES ASSUME t # <<>> PROVE d = t[1][1] - 1
    OBVIOUS
  <2>1. 1 \in 1 .. n - 1 /\ t[1] = c[2] /\ 1 \in 1 .. n
    BY <1>1, <1>2
  <2>2. c[1 + 1][1] = LastOf(c[1]) + 1
    BY <1>4, <2>1
  <2> QED BY <1>3, <1>4, <2>1, <2>2
<1> QED BY <1>5, <1>6, <1>7, <1>8 DEF Ordered, t

LEMMA OrderedDeliver ==
  ASSUME NEW c \in Seq(Runs), NEW d \in Nat, Ordered(c, d, FALSE), c # <<>>
  PROVE  /\ Ordered(c, d + Len(c[1]), TRUE) /\ EndOf(c, d + Len(c[1])) = EndOf(c, d)
         /\ d + Len(c[1]) <= EndOf(c, d) /\ Len(c[1]) \in Nat \ {0} /\ c[1] \in Runs
         /\ \A j \in 1 .. Len(c[1]) : c[1][j] = d + j
<1>1. 1 \in 1 .. Len(c)
  OBVIOUS
<1>2. IsRun(c[1]) /\ LastOf(c[1]) <= EndOf(c, d) /\ c[1] \in Runs /\ d = c[1][1] - 1
  BY <1>1 DEF Ordered
<1>3. c[1][1] \in Nat /\ Len(c[1]) \in Nat \ {0} /\ LastOf(c[1]) = c[1][1] + Len(c[1]) - 1
  BY <1>2, RunTypes DEF LastOf
<1>4. d + Len(c[1]) = LastOf(c[1])
  BY <1>2, <1>3
<1>5. \A j \in 1 .. Len(c[1]) : c[1][j] = d + j
  BY <1>2, <1>3 DEF IsRun
<1>6. EndOf(c, d + Len(c[1])) = EndOf(c, d)
  BY DEF EndOf
<1>7. Ordered(c, d + Len(c[1]), TRUE)
  BY <1>4, <1>6 DEF Ordered
<1> QED BY <1>2, <1>3, <1>4, <1>5, <1>6, <1>7
-----------------------------------------------------------------------------
(* The hits of an item, in whatever buffer, and those of a queue.          *)
ContentsOf(buffer, item) ==
  IF item.IsDataOnHostBuffer
  THEN [k \in 1 .. item.end - item.begin |-> buffer[item.begin + k - 1]]
  ELSE item.holdoutBuffer

HitsOf(buffer, queue) == [k \in DOMAIN queue |-> ContentsOf(buffer, queue[k])]
QueuedHits(w) == HitsOf(hostBuffer, fHitQueues[w])

LEMMA SameContents ==
  ASSUME NEW b, NEW c, NEW i \in Items, NEW j, i.begin = j.begin, i.end = j.end,
         i.IsDataOnHostBuffer = j.IsDataOnHostBuffer, i.holdoutBuffer = j.holdoutBuffer,
         i.IsDataOnHostBuffer => \A a \in i.begin .. i.end - 1 : b[a] = c[a]
  PROVE  ContentsOf(c, j) = ContentsOf(b, i)
<1>1. i.begin \in Int /\ i.end \in Int
  BY CapacityAssumption DEF Items
<1>2. CASE i.IsDataOnHostBuffer
  <2>1. \A k \in 1 .. i.end - i.begin : b[i.begin + k - 1] = c[j.begin + k - 1]
    <3> SUFFICES ASSUME NEW k \in 1 .. i.end - i.begin PROVE b[i.begin + k - 1] = c[i.begin + k - 1]
      OBVIOUS
    <3>1. i.begin + k - 1 \in i.begin .. i.end - 1
      BY <1>1
    <3> QED BY <1>2, <3>1
  <2> QED BY <1>2, <2>1 DEF ContentsOf
<1> QED BY <1>2 DEF ContentsOf

LEMMA HitsTypes ==
  ASSUME AInv, NEW w \in Workers
  PROVE  /\ QueuedHits(w) \in Seq(Runs) /\ Len(QueuedHits(w)) = Len(fHitQueues[w])
         /\ DOMAIN QueuedHits(w) = DOMAIN fHitQueues[w]
         /\ \A k \in DOMAIN fHitQueues[w] :
              /\ QueuedHits(w)[k] = ContentsOf(hostBuffer, fHitQueues[w][k])
              /\ fHitQueues[w][k] \in Items
<1> DEFINE q == fHitQueues[w]
           n == Len(q)
<1>1. q \in Seq(Items) /\ HostTypes
  BY BatchTypes, TypesAre DEF AInv
<1>2. DOMAIN q = 1 .. n /\ n \in Nat /\ \A k \in 1 .. n : q[k] \in Items
  BY <1>1
<1>3. \A i \in Items : ContentsOf(hostBuffer, i) \in Runs
  BY <1>1, ContentsType DEF Contents, ContentsOf, Runs
<1>4. QueuedHits(w) = [k \in 1 .. n |-> ContentsOf(hostBuffer, q[k])]
  BY <1>2 DEF QueuedHits, HitsOf
<1> HIDE DEF q, n
<1>5. QueuedHits(w) \in [1 .. n -> Runs]
  BY <1>2, <1>3, <1>4
<1>6. QueuedHits(w) \in Seq(Runs) /\ Len(QueuedHits(w)) = n
  <2>1. \A m \in Nat : \A S : \A d \in [1 .. m -> S] : d \in Seq(S) /\ Len(d) = m
    OBVIOUS
  <2> QED BY <1>2, <1>5, <2>1
<1> QED BY <1>2, <1>4, <1>6 DEF q, n

(* Where an item's hits are, in the host buffer.                           *)
LEMMA PlaceTypes ==
  ASSUME AInv, NEW w \in Workers, NEW k \in Places(w)
  PROVE  /\ SegmentOf(w, k) \in fSegments /\ k \in DOMAIN fHitQueues[w]
         /\ SegmentOf(w, k)[1] = fHitQueues[w][k].begin /\ SegmentOf(w, k)[2] = fHitQueues[w][k].end
<1>1. ItemsHaveSegments
  BY DEF AInv, QueueInv
<1> QED BY <1>1 DEF ItemsHaveSegments, SegmentOf, Places

(* Clearing a segment leaves the others, and the room that is granted.     *)
LEMMA ClearKeeps ==
  ASSUME AInv, NEW begin
  PROVE  /\ \A s \in fSegments : s[1] # begin =>
              \A a \in s[1] .. s[2] - 1 : Clear(begin)[a] = hostBuffer[a]
         /\ reserved[1] < reserved[2] =>
              \A a \in reserved[1] .. reserved[2] - 1 : Clear(begin)[a] = hostBuffer[a]
<1>1. HostTypes /\ BufferTypeOK /\ SegmentsAreDisjoint /\ ReservedIsFree /\ Capacity \in Nat
  BY TypesAre, CapacityAssumption DEF AInv, BufferInv
<1>2. ASSUME NEW s \in Addresses \X Addresses, NEW a \in s[1] .. s[2] - 1,
             \A t \in fSegments : t[1] = begin => Apart(s, t)
      PROVE  Clear(begin)[a] = hostBuffer[a]
  <2>1. s[1] \in Int /\ s[2] \in Int /\ a \in 0 .. Capacity - 1
    BY <1>1 DEF Addresses
  <2>2. ~ \E t \in fSegments : t[1] = begin /\ t[1] <= a /\ a < t[2]
    <3> SUFFICES ASSUME NEW t \in fSegments, t[1] = begin, t[1] <= a, a < t[2] PROVE FALSE
      OBVIOUS
    <3>1. t[1] \in Int /\ t[2] \in Int
      BY <1>1 DEF BufferTypeOK
    <3>2. t[2] <= s[1] \/ s[2] <= t[1]
      BY <1>2 DEF Apart
    <3> QED BY <2>1, <3>1, <3>2
  <2>3. DOMAIN hostBuffer = 0 .. Capacity - 1
    BY <1>1 DEF HostTypes
  <2> QED BY <2>1, <2>2, <2>3 DEF Clear
<1>3. \A s \in fSegments : s \in Addresses \X Addresses
  BY <1>1 DEF BufferTypeOK, Addresses
<1>4. reserved \in Addresses \X Addresses
  BY <1>1 DEF BufferTypeOK, Addresses
<1>5. ASSUME NEW s \in fSegments, s[1] # begin, NEW t \in fSegments, t[1] = begin PROVE Apart(s, t)
  BY <1>1, <1>5 DEF SegmentsAreDisjoint
<1>6. ASSUME reserved[1] < reserved[2], NEW t \in fSegments PROVE Apart(reserved, t)
  BY <1>1, <1>6 DEF ReservedIsFree, Apart
<1>7. ASSUME NEW s \in fSegments, s[1] # begin
      PROVE  \A a \in s[1] .. s[2] - 1 : Clear(begin)[a] = hostBuffer[a]
  BY <1>2, <1>3, <1>5, <1>7
<1>8. ASSUME reserved[1] < reserved[2]
      PROVE  \A a \in reserved[1] .. reserved[2] - 1 : Clear(begin)[a] = hostBuffer[a]
  BY <1>2, <1>4, <1>6, <1>8
<1> QED BY <1>7, <1>8

(* The hits that are queued stay the same when nothing is pushed or popped.*)
LEMMA KeepsHits ==
  ASSUME AInv, NEW w \in Workers, DOMAIN fHitQueues'[w] = DOMAIN fHitQueues[w],
         \A k \in DOMAIN fHitQueues[w] :
           ContentsOf(hostBuffer', fHitQueues'[w][k]) = ContentsOf(hostBuffer, fHitQueues[w][k])
  PROVE  QueuedHits(w)' = QueuedHits(w)
BY DEF QueuedHits, HitsOf

LEMMA CopyHitsKeeps ==
  ASSUME AInv, CopyHits, NEW w \in Workers
  PROVE  QueuedHits(w)' = QueuedHits(w)
<1>1. UNCHANGED fHitQueues
  BY DEF CopyHits
<1>2. \A a \in 0 .. Capacity - 1 :
        a < reserved[1] \/ reserved[2] <= a => hostBuffer'[a] = hostBuffer[a]
  BY CopyHitsStep
<1>3. BufferTypeOK /\ ReservedIsFree /\ Capacity \in Nat
  BY CapacityAssumption DEF AInv, BufferInv
<1>4. ASSUME NEW k \in DOMAIN fHitQueues[w]
      PROVE  ContentsOf(hostBuffer', fHitQueues[w][k]) = ContentsOf(hostBuffer, fHitQueues[w][k])
  <2> DEFINE i == fHitQueues[w][k]
  <2>1. ASSUME i.IsDataOnHostBuffer, NEW a \in i.begin .. i.end - 1
        PROVE  hostBuffer'[a] = hostBuffer[a]
    <3>1. k \in Places(w)
      BY <2>1 DEF Places
    <3> DEFINE s == SegmentOf(w, k)
    <3>2. s \in fSegments /\ s[1] = i.begin /\ s[2] = i.end
      BY <3>1, PlaceTypes
    <3> HIDE DEF s
    <3>3. s[1] \in 0 .. Capacity /\ s[2] \in 0 .. Capacity
          /\ reserved[1] \in 0 .. Capacity /\ reserved[2] \in 0 .. Capacity
      BY <1>3, <3>2 DEF BufferTypeOK
    <3>4. a \in 0 .. Capacity - 1 /\ s[1] <= a /\ a < s[2]
      BY <1>3, <2>1, <3>2, <3>3
    <3>5. reserved[1] < reserved[2] => s[2] <= reserved[1] \/ reserved[2] <= s[1]
      BY <1>3, <3>2 DEF ReservedIsFree, Apart
    <3>6. a < reserved[1] \/ reserved[2] <= a
      BY <3>3, <3>4, <3>5
    <3> QED BY <1>2, <3>4, <3>6
  <2>2. i \in Items
    BY HitsTypes
  <2> HIDE DEF i
  <2>3. ContentsOf(hostBuffer', i) = ContentsOf(hostBuffer, i)
    BY <2>1, <2>2, SameContents
  <2> QED BY <2>3 DEF i
<1> QED BY <1>1, <1>4, KeepsHits
LEMMA CopyOutKeeps ==
  ASSUME AInv, CopyOut, NEW w \in Workers
  PROVE  QueuedHits(w)' = QueuedHits(w)
<1>1. CASE ~CopiesOut
  <2>1. UNCHANGED <<hostBuffer, fHitQueues>>
    BY <1>1, CopyOutStep
  <2> QED BY <2>1, KeepsHits
<1>2. CASE CopiesOut
  <2>a. PICK i \in Workers : i = index
    BY CopyOutStep
  <2>b. fHitQueues[i] \in Seq(Items) /\ fHitQueues[i] # <<>>
    BY <1>2, <2>a, BatchTypes DEF CopiesOut
  <2>c. PICK n \in DOMAIN fHitQueues[i] : n = Len(fHitQueues[i])
    BY <2>b
  <2>d. PICK moved : moved = [NoItem EXCEPT !.ScoringStarted = TRUE,
                               !.holdoutBuffer = Contents(fHitQueues[i][n])]
    OBVIOUS
  <2>1. /\ n \in Places(i) /\ hostBuffer' = Clear(fHitQueues[i][n].begin)
        /\ fHitQueues' = [fHitQueues EXCEPT ![i][n] = moved]
    BY <1>2, <2>a, <2>c, <2>d, CopyOutStep
  <2>2. fHitQueues \in [Workers -> Seq(Items)]
    BY DEF AInv, TypeOK
  <2>3. /\ DOMAIN fHitQueues'[w] = DOMAIN fHitQueues[w]
        /\ \A k \in DOMAIN fHitQueues[w] :
             fHitQueues'[w][k] = IF w = i /\ k = n THEN moved ELSE fHitQueues[w][k]
    BY <2>1, <2>2
  <2>4. ContentsOf(hostBuffer', moved) = ContentsOf(hostBuffer, fHitQueues[i][n])
    BY <2>d DEF NoItem, ContentsOf, Contents
  <2>5. ASSUME NEW k \in DOMAIN fHitQueues[w], ~(w = i /\ k = n)
        PROVE  ContentsOf(hostBuffer', fHitQueues[w][k]) = ContentsOf(hostBuffer, fHitQueues[w][k])
    <3> DEFINE j == fHitQueues[w][k]
    <3>1. ASSUME j.IsDataOnHostBuffer, NEW a \in j.begin .. j.end - 1
          PROVE  hostBuffer'[a] = hostBuffer[a]
      <4>1. k \in Places(w)
        BY <3>1 DEF Places
      <4>2. /\ SegmentOf(w, k) \in fSegments
            /\ SegmentOf(w, k)[1] = j.begin /\ SegmentOf(w, k)[2] = j.end
        BY <4>1, PlaceTypes
      <4>3. ItemsAreApart
        BY DEF AInv, QueueInv
      <4>4. j.begin # fHitQueues[i][n].begin
        BY <2>1, <2>5, <4>1, <4>3 DEF ItemsAreApart
      <4> HIDE DEF j
      <4>5. Clear(fHitQueues[i][n].begin)[a] = hostBuffer[a]
        BY <3>1, <4>2, <4>4, ClearKeeps
      <4> QED BY <2>1, <4>5
    <3>2. j \in Items
      BY HitsTypes
    <3> HIDE DEF j
    <3>3. ContentsOf(hostBuffer', j) = ContentsOf(hostBuffer, j)
      BY <3>1, <3>2, SameContents
    <3> QED BY <3>3 DEF j
  <2>6. \A k \in DOMAIN fHitQueues[w] :
          ContentsOf(hostBuffer', fHitQueues'[w][k]) = ContentsOf(hostBuffer, fHitQueues[w][k])
    BY <2>3, <2>4, <2>5
  <2> QED BY <2>3, <2>6, KeepsHits
<1> QED BY <1>1, <1>2

LEMMA TakeKeeps ==
  ASSUME AInv, NEW w \in Workers, GetNextHitsHandle(w), NEW v \in Workers
  PROVE  QueuedHits(v)' = QueuedHits(v)
<1>1. UNCHANGED hostBuffer
  BY DEF GetNextHitsHandle
<1>2. fHitQueues \in [Workers -> Seq(Items)]
  BY DEF AInv, TypeOK
<1>3. PICK first : first = [fHitQueues[w][1] EXCEPT !.ScoringStarted = TRUE]
  OBVIOUS
<1>4. /\ fHitQueues' = [fHitQueues EXCEPT ![w][1].ScoringStarted = TRUE]
      /\ fHitQueues[w] # <<>>
  BY DEF GetNextHitsHandle
<1>5. /\ DOMAIN fHitQueues'[v] = DOMAIN fHitQueues[v]
      /\ \A k \in DOMAIN fHitQueues[v] :
           fHitQueues'[v][k] = IF v = w /\ k = 1 THEN first ELSE fHitQueues[v][k]
  BY <1>2, <1>3, <1>4
<1>6. 1 \in DOMAIN fHitQueues[w] /\ fHitQueues[w][1] \in Items
  BY <1>2, <1>4
<1>7. ContentsOf(hostBuffer, first) = ContentsOf(hostBuffer, fHitQueues[w][1])
  BY <1>3, <1>6 DEF ContentsOf, Items
<1>8. \A k \in DOMAIN fHitQueues[v] :
        ContentsOf(hostBuffer', fHitQueues'[v][k]) = ContentsOf(hostBuffer, fHitQueues[v][k])
  BY <1>1, <1>5, <1>7
<1> QED BY <1>5, <1>8, KeepsHits

LEMMA ElementsOf == \A S : \A s \in Seq(S) : s = [k \in 1 .. Len(s) |-> s[k]]
OBVIOUS

(* Closing pops the first hits ...                                         *)
LEMMA CloseHits ==
  ASSUME AInv, NEW w \in Workers, CloseHitsHandle(w), NEW v \in Workers
  PROVE  QueuedHits(v)' = IF v = w THEN Tail(QueuedHits(v)) ELSE QueuedHits(v)
<1>1. /\ fHitQueues' = [fHitQueues EXCEPT ![w] = Tail(fHitQueues[w])]
  BY DEF CloseHitsHandle
<1>2. fHitQueues \in [Workers -> Seq(Items)]
  BY DEF AInv, TypeOK
<1>3. /\ fHitQueues[w] # <<>> /\ fHitQueues[w] \in Seq(Items)
      /\ 1 \in Places(w) => hostBuffer' = Clear(fHitQueues[w][1].begin)
      /\ 1 \notin Places(w) => hostBuffer' = hostBuffer
  BY CloseStep
<1>4. ASSUME NEW u \in Workers, NEW k \in DOMAIN fHitQueues[u], ~(u = w /\ k = 1)
      PROVE  ContentsOf(hostBuffer', fHitQueues[u][k]) = ContentsOf(hostBuffer, fHitQueues[u][k])
  <2> DEFINE j == fHitQueues[u][k]
  <2>1. ASSUME j.IsDataOnHostBuffer, NEW a \in j.begin .. j.end - 1
        PROVE  hostBuffer'[a] = hostBuffer[a]
    <3>1. k \in Places(u)
      BY <2>1 DEF Places
    <3>2. /\ SegmentOf(u, k) \in fSegments
          /\ SegmentOf(u, k)[1] = j.begin /\ SegmentOf(u, k)[2] = j.end
      BY <3>1, PlaceTypes
    <3>3. CASE 1 \in Places(w)
      <4>1. ItemsAreApart
        BY DEF AInv, QueueInv
      <4>2. j.begin # fHitQueues[w][1].begin
        BY <1>4, <3>1, <3>3, <4>1 DEF ItemsAreApart
      <4> HIDE DEF j
      <4>3. Clear(fHitQueues[w][1].begin)[a] = hostBuffer[a]
        BY <2>1, <3>2, <4>2, ClearKeeps
      <4> QED BY <1>3, <3>3, <4>3
    <3>4. CASE 1 \notin Places(w)
      BY <1>3, <3>4
    <3> QED BY <3>3, <3>4
  <2>2. j \in Items
    BY HitsTypes
  <2> HIDE DEF j
  <2>3. ContentsOf(hostBuffer', j) = ContentsOf(hostBuffer, j)
    BY <2>1, <2>2, SameContents
  <2> QED BY <2>3 DEF j
<1>5. CASE v # w
  <2>1. fHitQueues'[v] = fHitQueues[v]
    BY <1>1, <1>2, <1>5
  <2>2. \A k \in DOMAIN fHitQueues[v] :
          ContentsOf(hostBuffer', fHitQueues'[v][k]) = ContentsOf(hostBuffer, fHitQueues[v][k])
    BY <1>4, <1>5, <2>1
  <2> QED BY <1>5, <2>1, <2>2, KeepsHits
<1>6. CASE v = w
  <2> DEFINE q == fHitQueues[w]
             n == Len(q)
             h == QueuedHits(w)
             t == Tail(q)
  <2>1. /\ n \in Nat \ {0} /\ DOMAIN q = 1 .. n /\ DOMAIN t = 1 .. n - 1
        /\ \A k \in 1 .. n - 1 : t[k] = q[k + 1] /\ k + 1 \in 1 .. n /\ k + 1 # 1
    BY <1>3
  <2>2. fHitQueues'[w] = t
    BY <1>1, <1>2
  <2>3. /\ h \in Seq(Runs) /\ Len(h) = n
        /\ \A k \in 1 .. n : h[k] = ContentsOf(hostBuffer, q[k])
    BY <2>1, HitsTypes
  <2> HIDE DEF t
  <2>4. QueuedHits(w)' = [k \in 1 .. n - 1 |-> ContentsOf(hostBuffer', t[k])]
    BY <2>1, <2>2 DEF QueuedHits, HitsOf
  <2>5. \A k \in 1 .. n - 1 : ContentsOf(hostBuffer', t[k]) = h[k + 1]
    <3> SUFFICES ASSUME NEW k \in 1 .. n - 1 PROVE ContentsOf(hostBuffer', t[k]) = h[k + 1]
      OBVIOUS
    <3>1. t[k] = q[k + 1] /\ k + 1 \in DOMAIN q /\ k + 1 # 1 /\ k + 1 \in 1 .. n
      BY <2>1
    <3>2. ContentsOf(hostBuffer', q[k + 1]) = ContentsOf(hostBuffer, q[k + 1])
      BY <1>4, <3>1
    <3> QED BY <2>3, <3>1, <3>2
  <2> HIDE DEF h, n, q
  <2>6. Tail(h) = [k \in 1 .. n - 1 |-> h[k + 1]]
    <3>1. h # <<>>
      BY <2>1, <2>3
    <3>2. Tail(h) \in Seq(Runs) /\ Len(Tail(h)) = n - 1 /\ \A k \in 1 .. n - 1 : Tail(h)[k] = h[k + 1]
      BY <2>1, <2>3, <3>1
    <3>3. Tail(h) = [k \in 1 .. n - 1 |-> Tail(h)[k]]
      BY <3>2, ElementsOf
    <3> QED BY <3>2, <3>3
  <2>7. Tail(h) = QueuedHits(w)'
    BY <2>4, <2>5, <2>6
  <2> QED BY <1>6, <2>7 DEF h
<1> QED BY <1>5, <1>6

(* ... and queueing a part of the batch appends its hits.                  *)
LEMMA PushedHits ==
  ASSUME AInv, PushHits, NEW w \in Workers
  PROVE  QueuedHits(w)' = IF w = index /\ HasHits(index)
                          THEN Append(QueuedHits(w),
                                      [k \in 1 .. hostBufferCount[w] |-> hostBuffer[Begin(w) + k - 1]])
                          ELSE QueuedHits(w)
<1>0. UNCHANGED hostBuffer /\ hpc = "push"
  BY DEF PushHits
<1>1. CASE ~HasHits(index)
  <2>1. UNCHANGED fHitQueues
    BY <1>1 DEF PushHits
  <2> QED BY <1>0, <1>1, <2>1, KeepsHits
<1>2. CASE HasHits(index) /\ w # index
  <2>1. DOMAIN fHitQueues'[w] = DOMAIN fHitQueues[w]
        /\ \A k \in DOMAIN fHitQueues[w] : fHitQueues'[w][k] = fHitQueues[w][k]
    BY <1>2, PushPlaces
  <2> QED BY <1>0, <1>2, <2>1, KeepsHits
<1>3. CASE HasHits(index) /\ w = index
  <2> DEFINE q == fHitQueues[w]
             n == Len(q) + 1
             h == QueuedHits(w)
             r == [k \in 1 .. hostBufferCount[w] |-> hostBuffer[Begin(w) + k - 1]]
             q1 == fHitQueues'[w]
  <2>1. /\ n \in Nat \ {0} /\ DOMAIN q1 = DOMAIN q \cup {n}
        /\ \A k \in DOMAIN q : q1[k] = q[k]
        /\ q1[n].begin = Begin(w) /\ q1[n].end = End(w) /\ q1[n].IsDataOnHostBuffer = TRUE
    BY <1>3, PushPlaces
  <2>2. q \in Seq(Items) /\ DOMAIN q = 1 .. n - 1 /\ n - 1 \in Nat
    BY BatchTypes
  <2>3. /\ h \in Seq(Runs) /\ Len(h) = n - 1
        /\ \A k \in 1 .. n - 1 : h[k] = ContentsOf(hostBuffer, q[k])
    BY <2>2, HitsTypes
  <2>4. Begin(w) \in Nat /\ hostBufferCount[w] \in Nat /\ End(w) = Begin(w) + hostBufferCount[w]
    BY <1>0, <1>3, PartOfBatch
  <2>5. ContentsOf(hostBuffer, q1[n]) = r
    <3> HIDE DEF q1
    <3>1. End(w) - Begin(w) = hostBufferCount[w]
      BY <2>4
    <3> QED BY <2>1, <3>1 DEF ContentsOf
  <2>6. QueuedHits(w)' = [k \in 1 .. n |-> ContentsOf(hostBuffer, q1[k])]
    <3>1. DOMAIN q1 = 1 .. n
      BY <2>1, <2>2
    <3> QED BY <1>0, <3>1 DEF QueuedHits, HitsOf
  <2> HIDE DEF h, n, q, r, q1
  <2>a. r \in Runs
    <3>1. fHitQueues'[w][n] \in Items
      <4>1. HostTypes'
        BY HostTypesStep DEF Next, HitThread
      <4>2. fHitQueues'[w] \in Seq(Items) /\ n \in DOMAIN fHitQueues'[w]
        BY <2>1, <4>1 DEF HostTypes, q1
      <4> QED BY <4>2
    <3>2. \A i \in Items : ContentsOf(hostBuffer, i) \in Runs
      BY TypesAre, ContentsType DEF AInv, Contents, ContentsOf, Runs
    <3> QED BY <2>5, <3>1, <3>2 DEF q1
  <2>7. Append(h, r) = [k \in 1 .. n |-> IF k = n THEN r ELSE h[k]]
    <3>1. /\ Append(h, r) \in Seq(Runs) /\ Len(Append(h, r)) = n
          /\ \A k \in 1 .. n : Append(h, r)[k] = IF k = n THEN r ELSE h[k]
      BY <2>1, <2>3, <2>a
    <3>2. Append(h, r) = [k \in 1 .. n |-> Append(h, r)[k]]
      BY <3>1, ElementsOf
    <3> QED BY <3>1, <3>2
  <2>8. \A k \in 1 .. n : ContentsOf(hostBuffer, q1[k]) = IF k = n THEN r ELSE h[k]
    <3> SUFFICES ASSUME NEW k \in 1 .. n, k # n PROVE ContentsOf(hostBuffer, q1[k]) = h[k]
      BY <2>5
    <3>1. k \in 1 .. n - 1
      BY <2>1
    <3> QED BY <2>1, <2>2, <2>3, <3>1
  <2>9. QueuedHits(w)' = Append(h, r)
    BY <2>6, <2>7, <2>8
  <2> QED BY <1>3, <2>9 DEF h, r
<1> QED BY <1>1, <1>2, <1>3
-----------------------------------------------------------------------------
(* What is where: the hits processed and queued come first, then those of  *)
(* the batch that is not queued yet, on the device or in the host buffer,  *)
(* and then what is in the active device buffer.                           *)
Processed(w) == handle[w].step = "processed"
QueuedTo(w)  == EndOf(QueuedHits(w), Len(delivered[w]))

InFlight(w) ==
  IF ~countsCopied THEN fSlotCounter[previous][w]
  ELSE IF \/ tpc \in {"flipped", "published"} \/ hostState = "AwaitingDeviceTransfer"
          \/ Transferring /\ w > Pushed
       THEN hostBufferCount[w] ELSE 0

OnDevice == \/ tpc \in {"flipped", "published"} \/ hostState = "AwaitingDeviceTransfer"
            \/ stream = "copy"
InHostBuffer == hostState = "TransferFromDeviceFinished" \/ stream \in {"free", "finish"}

OrderOf(w) ==
  /\ delivered[w] = [n \in 1 .. Len(delivered[w]) |-> n]
  /\ Ordered(QueuedHits(w), Len(delivered[w]), Processed(w))

FlightOf(w) ==
  /\ recorded[w] = QueuedTo(w) + InFlight(w) + fSlotCounter[fActiveBuffer][w]
  /\ \A n \in 1 .. fSlotCounter[fActiveBuffer][w] :
       deviceHits[fActiveBuffer][w][n] = QueuedTo(w) + InFlight(w) + n
  /\ OnDevice => \A n \in 1 .. InFlight(w) : deviceHits[previous][w][n] = QueuedTo(w) + n
  /\ InHostBuffer => \A n \in 1 .. InFlight(w) : hostBuffer[Begin(w) + n - 1] = QueuedTo(w) + n
  /\ IF countsCopied THEN fSlotCounter[previous][w] = 0
     ELSE fSlotCounter[fActiveBuffer][w] = 0

DInv == AInv /\ \A w \in Workers : OrderOf(w) /\ FlightOf(w)

LEMMA FlightTypes ==
  ASSUME DInv, NEW w \in Workers
  PROVE  /\ InFlight(w) \in 0 .. NSlot /\ QueuedTo(w) \in Nat /\ Len(delivered[w]) \in Nat
         /\ Len(delivered[w]) <= QueuedTo(w) /\ NSlot \in Nat
         /\ QueuedHits(w) \in Seq(Runs) /\ Processed(w) \in BOOLEAN
         /\ Ordered(QueuedHits(w), Len(delivered[w]), Processed(w))
         /\ \A b \in {0, 1} : fSlotCounter[b][w] \in 0 .. NSlot
         /\ previous \in {0, 1} /\ fActiveBuffer \in {0, 1} /\ previous # fActiveBuffer
<1>1. AInv /\ DeviceTypes /\ BatchTypeOK /\ NSlot \in Nat
  BY HitScoringAssumption, TypesAre DEF DInv, AInv
<1>2. previous \in {0, 1} /\ fActiveBuffer \in {0, 1} /\ previous # fActiveBuffer
  BY <1>1 DEF DeviceTypes, previous
<1>3. \A b \in {0, 1} : fSlotCounter[b][w] \in 0 .. NSlot
  BY <1>1 DEF DeviceTypes
<1>4. InFlight(w) \in 0 .. NSlot
  <2>1. hostBufferCount[w] \in 0 .. NSlot /\ 0 \in 0 .. NSlot /\ fSlotCounter[previous][w] \in 0 .. NSlot
    BY <1>1, <1>2, <1>3 DEF BatchTypeOK
  <2> QED BY <2>1 DEF InFlight
<1>5. Len(delivered[w]) \in Nat /\ QueuedHits(w) \in Seq(Runs) /\ Processed(w) \in BOOLEAN
      /\ Ordered(QueuedHits(w), Len(delivered[w]), Processed(w))
  <2>1. delivered[w] \in Seq(0 .. MaxHits)
    BY <1>1 DEF DeviceTypes
  <2>2. Ordered(QueuedHits(w), Len(delivered[w]), Processed(w))
    BY DEF DInv, OrderOf
  <2>3. QueuedHits(w) \in Seq(Runs)
    BY <1>1, HitsTypes
  <2>4. Len(delivered[w]) \in Nat
    <3>1. \A S : \A s \in Seq(S) : Len(s) \in Nat
      OBVIOUS
    <3> QED BY <2>1, <3>1
  <2> QED BY <2>2, <2>3, <2>4 DEF Processed
<1>6. QueuedTo(w) \in Nat /\ Len(delivered[w]) <= QueuedTo(w)
  BY <1>5, OrderedTypes DEF QueuedTo
<1> QED BY <1>1, <1>2, <1>3, <1>4, <1>5, <1>6

LEMMA KeepOrder ==
  ASSUME DInv, NEW w \in Workers, QueuedHits(w)' = QueuedHits(w), delivered'[w] = delivered[w],
         Processed(w)' = Processed(w)
  PROVE  OrderOf(w)' /\ QueuedTo(w)' = QueuedTo(w)
BY DEF DInv, OrderOf, QueuedTo

(* Only the hits of a part of the batch that is queued change place.       *)
LEMMA PushOrder ==
  ASSUME DInv, PushHits, NEW w \in Workers
  PROVE  /\ OrderOf(w)'
         /\ QueuedTo(w)' = QueuedTo(w) + (IF w = index THEN hostBufferCount[w] ELSE 0)
<1>0. AInv /\ UNCHANGED <<delivered, handle>> /\ Processed(w)' = Processed(w) /\ hpc = "push"
  BY DEF DInv, PushHits, historyVars, Processed
<1>1. /\ InFlight(w) \in 0 .. NSlot /\ QueuedTo(w) \in Nat /\ Len(delivered[w]) \in Nat
      /\ QueuedHits(w) \in Seq(Runs) /\ Processed(w) \in BOOLEAN
      /\ Ordered(QueuedHits(w), Len(delivered[w]), Processed(w))
      /\ fSlotCounter[fActiveBuffer][w] \in 0 .. NSlot
  BY FlightTypes
<1>2. CASE w # index
  <2>1. QueuedHits(w)' = QueuedHits(w)
    BY <1>0, <1>2, PushedHits
  <2>2. OrderOf(w)' /\ QueuedTo(w)' = QueuedTo(w)
    BY <1>0, <2>1, KeepOrder
  <2> QED BY <1>1, <1>2, <2>2
<1>3. CASE w = index
  <2>1. /\ Begin(w) \in Nat /\ hostBufferCount[w] \in Nat /\ End(w) = Begin(w) + hostBufferCount[w]
    BY <1>0, <1>3, PartOfBatch
  <2>2. CASE ~HasHits(index)
    <3>1. hostBufferCount[w] = 0
      BY <1>3, <2>1, <2>2 DEF HasHits
    <3>2. QueuedHits(w)' = QueuedHits(w)
      BY <1>0, <2>2, PushedHits
    <3> QED BY <1>0, <1>1, <3>1, <3>2, KeepOrder
  <2>3. CASE HasHits(index)
    <3> DEFINE n == hostBufferCount[w]
               r == [k \in 1 .. n |-> hostBuffer[Begin(w) + k - 1]]
               d == Len(delivered[w])
               h == QueuedHits(w)
    <3>1. n \in Nat \ {0} /\ QueuedHits(w)' = Append(h, r)
      BY <1>0, <1>3, <2>1, <2>3, PushedHits DEF HasHits
    <3>2. InFlight(w) = n /\ InHostBuffer
      <4>1. hostState = "TransferFromDeviceFinished" /\ countsCopied
        BY <1>0 DEF AInv, Phases, Transferring
      <4>2. Pushed = index - 1 /\ index \in Nat
        BY <1>0, BatchTypes DEF Pushed
      <4> QED BY <1>3, <4>1, <4>2 DEF InFlight, InHostBuffer, Transferring
    <3>3. \A k \in 1 .. n : r[k] = QueuedTo(w) + k
      BY <3>2 DEF DInv, FlightOf
    <3>4. r \in Runs
      <4>1. \A k \in 1 .. n : r[k] \in 0 .. MaxHits
        <5> SUFFICES ASSUME NEW k \in 1 .. n PROVE QueuedTo(w) + k \in 0 .. MaxHits
          BY <3>3
        <5>1. recorded[w] = QueuedTo(w) + n + fSlotCounter[fActiveBuffer][w]
          BY <3>2 DEF DInv, FlightOf
        <5>2. recorded[w] \in 0 .. MaxHits /\ MaxHits \in Nat
          BY <1>0, HitScoringAssumption DEF AInv, TypeOK
        <5> HIDE DEF n
        <5>3. fSlotCounter[fActiveBuffer][w] \in Nat
          BY <1>1, HitScoringAssumption
        <5> QED BY <1>1, <3>1, <5>1, <5>2, <5>3
      <4>2. r \in [1 .. n -> 0 .. MaxHits]
        BY <4>1
      <4>3. \A m \in Nat : \A S : \A f \in [1 .. m -> S] : f \in Seq(S)
        OBVIOUS
      <4> HIDE DEF r, n
      <4> QED BY <3>1, <4>2, <4>3 DEF Runs
    <3>5. Len(r) = n
      BY <3>1
    <3> HIDE DEF r, n
    <3>6. r[1] = QueuedTo(w) + 1
      BY <3>1, <3>3
    <3>7. IsRun(r)
      <4>1. r # <<>>
        BY <3>1, <3>5
      <4>2. \A j \in 1 .. Len(r) : r[j] = r[1] + j - 1
        BY <1>1, <3>1, <3>3, <3>5, <3>6
      <4> QED BY <4>1, <4>2 DEF IsRun
    <3>8. h = <<>> => ~Processed(w)
      <4>1. Held
        BY <1>0 DEF AInv, QueueInv
      <4>2. Processed(w) => fHitQueues[w] # <<>>
        BY <4>1 DEF Held, Processed
      <4>3. Len(h) = Len(fHitQueues[w]) /\ fHitQueues[w] \in Seq(Items)
        BY <1>0, HitsTypes, BatchTypes
      <4>4. h = <<>> => fHitQueues[w] = <<>>
        BY <4>3
      <4> QED BY <4>2, <4>4
    <3> HIDE DEF h, d
    <3>9. Ordered(Append(h, r), d, Processed(w)) /\ EndOf(Append(h, r), d) = EndOf(h, d) + n
      <4>1. h \in Seq(Runs) /\ d \in Nat /\ Ordered(h, d, Processed(w))
        BY <1>1 DEF h, d
      <4>2. r[1] = EndOf(h, d) + 1
        BY <3>6 DEF QueuedTo, h, d
      <4> QED BY <1>1, <3>4, <3>5, <3>7, <3>8, <4>1, <4>2, OrderedAppend
    <3> QED BY <1>0, <1>3, <3>1, <3>9 DEF DInv, OrderOf, QueuedTo, h, d, n
  <2> QED BY <2>2, <2>3
<1> QED BY <1>2, <1>3
(* Processing the first item of a queue delivers the next hits.            *)
LEMMA ProcessOrder ==
  ASSUME DInv, NEW w \in Workers, ProcessGPUSteps(w), NEW v \in Workers
  PROVE  /\ OrderOf(v)' /\ QueuedTo(v)' = QueuedTo(v)
         /\ v # w => delivered'[v] = delivered[v]
         /\ v = w => \E n \in Len(delivered[w]) + 1 .. QueuedTo(w) :
                       delivered'[w] = [k \in 1 .. n |-> k]
<1>0. AInv /\ UNCHANGED <<hostBuffer, fHitQueues>> /\ DeviceTypes
  BY TypesAre DEF DInv, AInv, ProcessGPUSteps, hostVars
<1>1. QueuedHits(v)' = QueuedHits(v)
  BY <1>0, KeepsHits
<1>2. /\ handle' = [handle EXCEPT ![w].step = "processed"] /\ handle[w].step = "taken"
      /\ delivered' = [delivered EXCEPT ![w] = delivered[w] \o Contents(handle[w].item)]
  BY DEF ProcessGPUSteps
<1>3. handle \in [Workers -> [item : Items, step : {"none", "taken", "processed"}]]
      /\ delivered \in [Workers -> Seq(0 .. MaxHits)]
  BY <1>0 DEF AInv, TypeOK
<1>4. CASE v # w
  <2>1. delivered'[v] = delivered[v] /\ handle'[v] = handle[v]
    BY <1>2, <1>3, <1>4
  <2> QED BY <1>1, <1>4, <2>1, KeepOrder DEF Processed
<1>5. CASE v = w
  <2> DEFINE d == Len(delivered[w])
             h == QueuedHits(w)
             r == Contents(handle[w].item)
             n == d + Len(r)
  <2>1. /\ fHitQueues[w] # <<>> /\ fHitQueues[w] \in Seq(Items)
        /\ handle[w].item.begin = fHitQueues[w][1].begin
        /\ handle[w].item.end = fHitQueues[w][1].end
        /\ handle[w].item.IsDataOnHostBuffer = fHitQueues[w][1].IsDataOnHostBuffer
        /\ handle[w].item.holdoutBuffer = fHitQueues[w][1].holdoutBuffer
    <3>1. Held
      BY <1>0 DEF AInv, QueueInv
    <3> QED BY <1>0, <1>2, <3>1, BatchTypes DEF Held
  <2>2. 1 \in DOMAIN fHitQueues[w] /\ h # <<>>
    <3>1. Len(h) = Len(fHitQueues[w]) /\ Len(fHitQueues[w]) # 0
      BY <1>0, <2>1, HitsTypes
    <3> QED BY <2>1, <3>1
  <2>3. r = h[1]
    <3>1. h[1] = ContentsOf(hostBuffer, fHitQueues[w][1])
      BY <1>0, <2>2, HitsTypes
    <3> QED BY <2>1, <3>1 DEF ContentsOf, Contents
  <2>4. /\ QueuedTo(w) \in Nat /\ d \in Nat /\ h \in Seq(Runs) /\ Ordered(h, d, Processed(w))
        /\ delivered[w] = [k \in 1 .. d |-> k]
    BY FlightTypes DEF DInv, OrderOf
  <2>5. Processed(w) = FALSE /\ Processed(w)' = TRUE
    <3>1. handle'[w].step = "processed"
      BY <1>2, <1>3
    <3> QED BY <1>2, <3>1 DEF Processed
  <2> HIDE DEF d, h
  <2>6. /\ Ordered(h, n, TRUE) /\ EndOf(h, n) = EndOf(h, d) /\ n <= EndOf(h, d)
        /\ Len(r) \in Nat \ {0} /\ r \in Runs
        /\ \A j \in 1 .. Len(r) : r[j] = d + j
    <3> HIDE DEF r
    <3> QED BY <2>2, <2>3, <2>4, <2>5, OrderedDeliver
  <2> HIDE DEF r, n
  <2>7. delivered[w] \o r = [k \in 1 .. n |-> k]
    <3>1. /\ delivered[w] \in Seq(0 .. MaxHits) /\ r \in Seq(0 .. MaxHits) /\ Len(delivered[w]) = d
      BY <1>3, <2>6 DEF Runs, d
    <3>2. /\ delivered[w] \o r \in Seq(0 .. MaxHits) /\ Len(delivered[w] \o r) = d + Len(r)
          /\ \A k \in 1 .. d + Len(r) :
               (delivered[w] \o r)[k] = IF k <= d THEN delivered[w][k] ELSE r[k - d]
      BY <3>1, ConcatProperties
    <3>3. delivered[w] \o r = [k \in 1 .. d + Len(r) |-> IF k <= d THEN delivered[w][k] ELSE r[k - d]]
      <4>1. delivered[w] \o r = [k \in 1 .. d + Len(r) |-> (delivered[w] \o r)[k]]
        BY <3>2, ElementsOf
      <4> QED BY <3>2, <4>1
    <3>4. \A k \in 1 .. n : (IF k <= d THEN delivered[w][k] ELSE r[k - d]) = k
      <4> SUFFICES ASSUME NEW k \in 1 .. n
                   PROVE  (IF k <= d THEN delivered[w][k] ELSE r[k - d]) = k
        OBVIOUS
      <4>1. k \in Nat /\ 1 <= k /\ k <= d + Len(r)
        BY <2>4, <2>6 DEF n
      <4>2. CASE k <= d
        <5>1. k \in 1 .. d
          BY <2>4, <4>1, <4>2
        <5> QED BY <2>4, <4>2, <5>1
      <4>3. CASE ~(k <= d)
        <5>1. k - d \in 1 .. Len(r)
          BY <2>4, <2>6, <4>1, <4>3
        <5>2. r[k - d] = d + (k - d)
          BY <2>6, <5>1
        <5> QED BY <2>4, <4>1, <4>3, <5>2
      <4> QED BY <4>2, <4>3
    <3> QED BY <3>3, <3>4 DEF n
  <2>8. delivered'[w] = [k \in 1 .. n |-> k]
    BY <1>2, <1>3, <2>7 DEF r
  <2>9. n \in Nat /\ n \in d + 1 .. QueuedTo(w)
    BY <2>4, <2>6 DEF n, QueuedTo, h, d
  <2>10. Len(delivered'[w]) = n
    BY <2>8, <2>9
  <2>11. OrderOf(w)'
    <3>1. delivered'[w] = [k \in 1 .. Len(delivered'[w]) |-> k]
      BY <2>8, <2>10
    <3>2. Ordered(QueuedHits(w)', Len(delivered'[w]), Processed(w)')
      BY <1>1, <1>5, <2>5, <2>6, <2>10 DEF h
    <3> QED BY <3>1, <3>2 DEF OrderOf
  <2>12. QueuedTo(w)' = QueuedTo(w)
    BY <1>1, <1>5, <2>6, <2>10 DEF QueuedTo, h, d
  <2> QED BY <1>5, <2>8, <2>9, <2>11, <2>12 DEF d
<1> QED BY <1>4, <1>5

LEMMA CloseOrder ==
  ASSUME DInv, NEW w \in Workers, CloseHitsHandle(w), NEW v \in Workers
  PROVE  OrderOf(v)' /\ QueuedTo(v)' = QueuedTo(v)
<1>0. AInv /\ UNCHANGED delivered
  BY DEF DInv, CloseHitsHandle, historyVars
<1>1. QueuedHits(v)' = IF v = w THEN Tail(QueuedHits(v)) ELSE QueuedHits(v)
  BY <1>0, CloseHits
<1>2. handle' = [handle EXCEPT ![w] = [item |-> NoItem, step |-> "none"]]
      /\ handle[w].step = "processed"
  BY DEF CloseHitsHandle
<1>3. handle \in [Workers -> [item : Items, step : {"none", "taken", "processed"}]]
  BY <1>0 DEF AInv, TypeOK
<1>4. CASE v # w
  <2>1. handle'[v] = handle[v]
    BY <1>2, <1>3, <1>4
  <2> QED BY <1>0, <1>1, <1>4, <2>1, KeepOrder DEF Processed
<1>5. CASE v = w
  <2> DEFINE d == Len(delivered[w])
             h == QueuedHits(w)
  <2>1. h # <<>>
    <3>1. Len(h) = Len(fHitQueues[w]) /\ fHitQueues[w] # <<>> /\ fHitQueues[w] \in Seq(Items)
      BY <1>0, HitsTypes, CloseStep
    <3> QED BY <3>1
  <2>2. Processed(w) = TRUE /\ Processed(w)' = FALSE
    <3>1. handle'[w].step = "none"
      BY <1>2, <1>3
    <3> QED BY <1>2, <3>1 DEF Processed
  <2>3. d \in Nat /\ h \in Seq(Runs) /\ Ordered(h, d, TRUE)
    BY <2>2, FlightTypes
  <2>4. delivered[w] = [n \in 1 .. d |-> n]
    BY DEF DInv, OrderOf
  <2> HIDE DEF d, h
  <2>5. Ordered(Tail(h), d, FALSE) /\ EndOf(Tail(h), d) = EndOf(h, d)
    BY <2>1, <2>3, OrderedTail
  <2>6. QueuedHits(w)' = Tail(h) /\ Len(delivered'[w]) = d /\ delivered'[w] = delivered[w]
    BY <1>0, <1>1, <1>5 DEF h, d
  <2>7. OrderOf(w)'
    BY <2>2, <2>4, <2>5, <2>6 DEF OrderOf
  <2>8. QueuedTo(w)' = QueuedTo(w)
    BY <2>5, <2>6 DEF QueuedTo, h, d
  <2> QED BY <1>5, <2>7, <2>8
<1> QED BY <1>4, <1>5

LEMMA OrderStep ==
  ASSUME DInv, [Next]_vars, NEW w \in Workers
  PROVE  /\ OrderOf(w)'
         /\ ~PushHits => QueuedTo(w)' = QueuedTo(w)
<1>0. AInv
  BY DEF DInv
<1>1. ASSUME QueuedHits(w)' = QueuedHits(w), UNCHANGED <<delivered, handle>>
      PROVE  OrderOf(w)' /\ QueuedTo(w)' = QueuedTo(w)
  BY <1>1, KeepOrder DEF Processed
<1>2. ASSUME \/ \E v \in Workers : RecordHit(v)
             \/ SwapDeviceBuffers \/ PublishSwap \/ WakeUp \/ TransferHitsToHost \/ ProcessHits
             \/ ReleaseHostBuffer \/ EndProcessBuffer
             \/ CopyCounts \/ FreeDeviceBuffer \/ FinishTransfer \/ UNCHANGED vars
      PROVE  UNCHANGED <<hostBuffer, fHitQueues, delivered, handle>>
  BY <1>2 DEF RecordHit, SwapDeviceBuffers, PublishSwap, WakeUp, TransferHitsToHost, ProcessHits,
     ReleaseHostBuffer, EndProcessBuffer, CopyCounts, FreeDeviceBuffer,
     FinishTransfer, hostVars, historyVars, vars
<1>3. ASSUME UNCHANGED <<hostBuffer, fHitQueues, delivered, handle>>
      PROVE  OrderOf(w)' /\ QueuedTo(w)' = QueuedTo(w)
  BY <1>0, <1>1, <1>3, KeepsHits
<1>4. CASE CopyHits
  <2>1. UNCHANGED <<delivered, handle>>
    BY <1>4 DEF CopyHits, historyVars
  <2> QED BY <1>0, <1>1, <1>4, <2>1, CopyHitsKeeps
<1>5. CASE CopyOut
  <2>1. UNCHANGED <<delivered, handle>>
    BY <1>5 DEF CopyOut, historyVars
  <2> QED BY <1>0, <1>1, <1>5, <2>1, CopyOutKeeps
<1>6. ASSUME NEW v \in Workers, GetNextHitsHandle(v)
      PROVE  OrderOf(w)' /\ QueuedTo(w)' = QueuedTo(w)
  <2>1. UNCHANGED delivered
    BY <1>6 DEF GetNextHitsHandle, historyVars
  <2>2. QueuedHits(w)' = QueuedHits(w)
    BY <1>0, <1>6, TakeKeeps
  <2>3. Processed(w)' = Processed(w)
    <3>1. handle \in [Workers -> [item : Items, step : {"none", "taken", "processed"}]]
      BY <1>0 DEF AInv, TypeOK
    <3>2. /\ handle' = [handle EXCEPT ![v] = [item |-> Head(fHitQueues[v]), step |-> "taken"]]
          /\ handle[v].step = "none"
      BY <1>6 DEF GetNextHitsHandle
    <3>3. v = w => handle'[w].step = "taken"
      BY <3>1, <3>2
    <3>4. v # w => handle'[w] = handle[w]
      BY <3>1, <3>2
    <3> QED BY <3>2, <3>3, <3>4 DEF Processed
  <2> QED BY <2>1, <2>2, <2>3, KeepOrder
<1>7. ASSUME NEW v \in Workers, ProcessGPUSteps(v) \/ CloseHitsHandle(v)
      PROVE  OrderOf(w)' /\ QueuedTo(w)' = QueuedTo(w)
  BY <1>7, ProcessOrder, CloseOrder
<1>8. CASE PushHits
  BY <1>8, PushOrder
<1> QED BY <1>2, <1>3, <1>4, <1>5, <1>6, <1>7, <1>8 DEF Next, HitThread, Callback, Worker
(* Hits in the host buffer that are not queued yet are in the room that is *)
(* still reserved.                                                         *)
LEMMA InReservedRoom ==
  ASSUME AInv, InHostBuffer, NEW w \in Workers, NEW n \in 1 .. InFlight(w)
  PROVE  /\ reserved[1] < reserved[2]
         /\ Begin(w) + n - 1 \in reserved[1] .. reserved[2] - 1
<1> DEFINE c == hostBufferCount
           o == offsetAtCopy
<1>1. /\ c \in Counters /\ o \in Nat /\ NWorkers \in Nat /\ Capacity \in Nat
      /\ index \in 1 .. NWorkers + 1
  BY BatchTypes
<1>2. Transferring
  BY DEF InHostBuffer, AInv, Phases, Transferring
<1>3. /\ tpc \in {"transport", "synchronizing"} /\ countsCopied
      /\ hostState # "AwaitingDeviceTransfer"
  BY <1>2 DEF AInv, Phases, Transferring
<1>4. w > Pushed /\ InFlight(w) = c[w]
  <2>1. CASE w > Pushed
    BY <1>2, <1>3, <2>1 DEF InFlight
  <2>2. CASE ~(w > Pushed)
    <3>1. InFlight(w) = 0
      BY <1>2, <1>3, <2>2 DEF InFlight
    <3> QED BY <3>1
  <2> QED BY <2>1, <2>2
<1>5. /\ Pushed \in 0 .. NWorkers /\ w - 1 \in 0 .. NWorkers /\ Pushed <= w - 1
      /\ w \in 0 .. NWorkers /\ w <= NWorkers /\ NWorkers \in 0 .. NWorkers /\ w \in Nat
  BY <1>1, <1>4 DEF Pushed, Workers
<1>6. reserved[1] = o + Part(c, Pushed) /\ reserved[2] = o + Part(c, NWorkers)
  BY <1>2 DEF AInv, Granted
<1>7. Begin(w) = o + Part(c, w - 1)
  BY <1>1, HitsAreParts
<1> HIDE DEF c, o
<1>8. /\ Part(c, Pushed) \in Nat /\ Part(c, w - 1) \in Nat /\ Part(c, w) \in Nat
      /\ Part(c, NWorkers) \in Nat
      /\ Part(c, Pushed) <= Part(c, w - 1) /\ Part(c, w) <= Part(c, NWorkers)
      /\ Part(c, w) = Part(c, w - 1) + c[w] /\ c[w] \in Nat
  BY <1>1, <1>5, Parts, PartsGrow, HitScoringAssumption DEF Counters
<1>9. n \in Nat /\ 1 <= n /\ n <= c[w]
  BY <1>4, <1>8
<1> QED BY <1>1, <1>6, <1>7, <1>8, <1>9

LEMMA KeepFlight ==
  ASSUME DInv, NEW w \in Workers, QueuedTo(w)' = QueuedTo(w),
         UNCHANGED <<recorded, fSlotCounter, fActiveBuffer, countsCopied, deviceHits>>,
         InFlight(w)' = InFlight(w), OnDevice' => OnDevice,
         InHostBuffer' => /\ InHostBuffer
                          /\ \A n \in 1 .. InFlight(w) :
                               hostBuffer'[Begin(w)' + n - 1] = hostBuffer[Begin(w) + n - 1]
  PROVE  FlightOf(w)'
<1>1. FlightOf(w)
  BY DEF DInv
<1>2. previous' = previous
  BY DEF previous
<1>3. /\ recorded'[w] = QueuedTo(w)' + InFlight(w)' + fSlotCounter'[fActiveBuffer'][w]
      /\ \A n \in 1 .. fSlotCounter'[fActiveBuffer'][w] :
           deviceHits'[fActiveBuffer'][w][n] = QueuedTo(w)' + InFlight(w)' + n
      /\ IF countsCopied' THEN fSlotCounter'[previous'][w] = 0
         ELSE fSlotCounter'[fActiveBuffer'][w] = 0
  BY <1>1, <1>2 DEF FlightOf
<1>4. OnDevice' => \A n \in 1 .. InFlight(w)' : deviceHits'[previous'][w][n] = QueuedTo(w)' + n
  BY <1>1, <1>2 DEF FlightOf
<1>5. InHostBuffer' =>
        \A n \in 1 .. InFlight(w)' : hostBuffer'[Begin(w)' + n - 1] = QueuedTo(w)' + n
  BY <1>1 DEF FlightOf
<1> QED BY <1>3, <1>4, <1>5 DEF FlightOf

LEMMA BeginIsPart ==
  hostBufferCount \in Counters /\ offsetAtCopy \in Nat =>
    \A w \in Workers : Begin(w) = offsetAtCopy + Part(hostBufferCount, w - 1)
BY HitsAreParts

LEMMA BeginIsPartNext ==
  hostBufferCount' \in Counters /\ offsetAtCopy' \in Nat =>
    \A w \in Workers : Begin(w)' = offsetAtCopy' + Part(hostBufferCount', w - 1)
<1>1. (hostBufferCount \in Counters /\ offsetAtCopy \in Nat =>
         \A w \in Workers : Begin(w) = offsetAtCopy + Part(hostBufferCount, w - 1))'
  BY BeginIsPart, PTL
<1> QED BY <1>1 DEF Counters, Part, Workers

LEMMA SameBegin ==
  ASSUME AInv, UNCHANGED <<offsetAtCopy, hostBufferCount>>, NEW w \in Workers
  PROVE  Begin(w)' = Begin(w)
BY BatchTypes, BeginIsPart, BeginIsPartNext

(* Steps that leave the host buffer, the batch and its phase alone.        *)
LEMMA SamePhase ==
  ASSUME DInv, NEW w \in Workers, QueuedTo(w)' = QueuedTo(w),
         UNCHANGED <<recorded, fSlotCounter, fActiveBuffer, countsCopied, deviceHits>>,
         UNCHANGED <<tpc, hostState, hostBufferCount, offsetAtCopy, stream>>,
         (Transferring => UNCHANGED Pushed),
         UNCHANGED hostBuffer \/ ~InHostBuffer
           \/ \E begin : hostBuffer' = Clear(begin)
  PROVE  FlightOf(w)'
<1>1. AInv
  BY DEF DInv
<1>2. InFlight(w)' = InFlight(w)
  BY DEF InFlight, Transferring, previous
<1>3. OnDevice' = OnDevice /\ InHostBuffer' = InHostBuffer
  BY DEF OnDevice, InHostBuffer
<1>4. Begin(w)' = Begin(w)
  BY <1>1, SameBegin
<1>5. ASSUME InHostBuffer, NEW n \in 1 .. InFlight(w)
      PROVE  hostBuffer'[Begin(w) + n - 1] = hostBuffer[Begin(w) + n - 1]
  <2>1. /\ reserved[1] < reserved[2]
        /\ Begin(w) + n - 1 \in reserved[1] .. reserved[2] - 1
    BY <1>1, <1>5, InReservedRoom
  <2>2. ASSUME NEW begin, hostBuffer' = Clear(begin)
        PROVE  hostBuffer'[Begin(w) + n - 1] = hostBuffer[Begin(w) + n - 1]
    <3>1. \A a \in reserved[1] .. reserved[2] - 1 : Clear(begin)[a] = hostBuffer[a]
      BY <1>1, <2>1, ClearKeeps
    <3> QED BY <2>1, <2>2, <3>1
  <2> QED BY <1>5, <2>2
<1> QED BY <1>2, <1>3, <1>4, <1>5, KeepFlight
LEMMA HostImpliesTransferring ==
  AInv => /\ InHostBuffer => Transferring
          /\ Transferring => /\ tpc \in {"transport", "synchronizing"} /\ countsCopied
                             /\ hostState # "AwaitingDeviceTransfer"
          /\ ~countsCopied => OnDevice /\ ~Transferring /\ tpc # "transport" /\ ~InHostBuffer
          /\ hpc = "push" => Transferring /\ InHostBuffer /\ stream = "idle"
BY DEF AInv, IInv, Phases, OnDevice, InHostBuffer, Transferring

LEMMA QuietFlight ==
  ASSUME DInv, NEW w \in Workers, QueuedTo(w)' = QueuedTo(w),
         \/ WakeUp \/ ProcessHits \/ CopyOut \/ EndProcessBuffer \/ UNCHANGED vars
         \/ \E v \in Workers : Worker(v)
         \/ TransferHitsToHost /\ ~NeedsTransfer
         \/ TransferHitsToHost /\ UNCHANGED <<hostState, stream, offsetAtCopy>>
  PROVE  FlightOf(w)'
<1>0. AInv /\ HostTypes
  BY TypesAre DEF DInv, AInv
<1> USE DEF historyVars, deviceVars, swapVars, stateVars, batchVars, hostVars, threadVars
<1>1. ASSUME \/ WakeUp \/ ProcessHits \/ EndProcessBuffer \/ UNCHANGED vars
             \/ TransferHitsToHost /\ ~NeedsTransfer
             \/ TransferHitsToHost /\ UNCHANGED <<hostState, stream, offsetAtCopy>>
      PROVE  FlightOf(w)'
  <2>1. /\ UNCHANGED <<recorded, fSlotCounter, fActiveBuffer, countsCopied, deviceHits>>
        /\ UNCHANGED <<tpc, hostState, hostBufferCount, offsetAtCopy, stream, hostBuffer>>
    BY <1>1 DEF WakeUp, ProcessHits, EndProcessBuffer, TransferHitsToHost, vars
  <2>2. UNCHANGED Pushed
    BY <1>1 DEF WakeUp, ProcessHits, EndProcessBuffer, TransferHitsToHost, vars, Pushed
  <2> QED BY <2>1, <2>2, SamePhase
<1>2. CASE CopyOut
  <2>1. /\ UNCHANGED <<recorded, fSlotCounter, fActiveBuffer, countsCopied, deviceHits>>
        /\ UNCHANGED <<tpc, hostState, hostBufferCount, offsetAtCopy, stream>>
        /\ hpc = "copyOut"
    BY <1>2 DEF CopyOut
  <2>2. ~Transferring
    BY <1>0, <2>1 DEF AInv, Phases
  <2>3. ~InHostBuffer
    BY <1>0, <2>2, HostImpliesTransferring
  <2> QED BY <2>1, <2>2, <2>3, SamePhase
<1>3. ASSUME NEW v \in Workers, Worker(v)
      PROVE  FlightOf(w)'
  <2>1. /\ UNCHANGED <<recorded, fSlotCounter, fActiveBuffer, countsCopied, deviceHits>>
        /\ UNCHANGED <<tpc, hostState, hostBufferCount, offsetAtCopy, stream, hpc, index>>
    BY <1>3 DEF Worker, GetNextHitsHandle, ProcessGPUSteps, CloseHitsHandle
  <2>2. UNCHANGED Pushed
    BY <2>1 DEF Pushed
  <2>3. UNCHANGED hostBuffer \/ \E begin : hostBuffer' = Clear(begin)
    <3>1. ASSUME GetNextHitsHandle(v) \/ ProcessGPUSteps(v) PROVE UNCHANGED hostBuffer
      BY <3>1 DEF GetNextHitsHandle, ProcessGPUSteps
    <3>2. ASSUME CloseHitsHandle(v)
          PROVE  UNCHANGED hostBuffer \/ \E begin : hostBuffer' = Clear(begin)
      BY <1>0, <3>2, CloseStep
    <3> QED BY <1>3, <3>1, <3>2 DEF Worker
  <2> QED BY <2>1, <2>2, <2>3, SamePhase
<1> QED BY <1>1, <1>2, <1>3

(* What a kernel records goes to the end: of the active buffer, or, while  *)
(* a swap has not copied the counters, of the batch.                       *)
LEMMA RecordsInto ==
  ASSUME DInv, NEW v \in Workers, RecordHit(v), NEW w \in Workers
  PROVE  /\ UNCHANGED <<fActiveBuffer, countsCopied, tpc, hostState, stream, hpc, index,
                        hostBufferCount, offsetAtCopy, hostBuffer>>
         /\ previous' = previous /\ OnDevice' = OnDevice /\ InHostBuffer' = InHostBuffer
         /\ Begin(w)' = Begin(w) /\ Transferring' = Transferring /\ Pushed' = Pushed
         /\ \A b \in {0, 1} : b # deviceBuffer \/ w # v =>
              /\ fSlotCounter'[b][w] = fSlotCounter[b][w]
              /\ deviceHits'[b][w] = deviceHits[b][w]
         /\ w # v => recorded'[w] = recorded[w]
         /\ w = v => LET n == fSlotCounter[deviceBuffer][w]
                     IN  /\ recorded'[w] = recorded[w] + 1 /\ recorded[w] \in Nat
                         /\ fSlotCounter'[deviceBuffer][w] = n + 1 /\ n \in Nat /\ n + 1 \in 1 .. NSlot
                         /\ \A k \in 1 .. NSlot : deviceHits'[deviceBuffer][w][k] =
                              IF k = n + 1 THEN recorded[w] + 1 ELSE deviceHits[deviceBuffer][w][k]
<1>0. AInv /\ DeviceTypes
  BY TypesAre DEF DInv, AInv
<1>1. UNCHANGED <<fActiveBuffer, countsCopied, tpc, hostState, stream, hpc, index,
                  hostBufferCount, offsetAtCopy, hostBuffer>>
  BY DEF RecordHit, swapVars, stateVars, batchVars, hostVars, threadVars
<1>2. /\ previous' = previous /\ OnDevice' = OnDevice /\ InHostBuffer' = InHostBuffer
      /\ Begin(w)' = Begin(w) /\ Transferring' = Transferring /\ Pushed' = Pushed
  BY <1>0, <1>1, SameBegin DEF previous, OnDevice, InHostBuffer, Transferring, Pushed
<1> DEFINE b == deviceBuffer
           n == fSlotCounter[b][v]
<1>3. /\ recorded' = [recorded EXCEPT ![v] = recorded[v] + 1]
      /\ fSlotCounter' = [fSlotCounter EXCEPT ![b][v] = n + 1]
      /\ n < NSlot
  BY DEF RecordHit
<1>4. deviceHits' = [deviceHits EXCEPT ![b][v][n + 1] = recorded[v] + 1]
  BY <1>0 DEF RecordHit, DeviceTypes
<1>5. b \in {0, 1} /\ NSlot \in Nat /\ MaxHits \in Nat
  BY <1>0, DeviceBuffers, HitScoringAssumption
<1>6. /\ recorded \in [Workers -> 0 .. MaxHits]
      /\ deviceHits \in [{0, 1} -> [Workers -> [1 .. NSlot -> 0 .. MaxHits]]]
      /\ fSlotCounter \in [{0, 1} -> [Workers -> 0 .. NSlot]]
  BY <1>0 DEF DeviceTypes
<1>7. n \in 0 .. NSlot
  BY <1>5, <1>6
<1>8. n \in Nat /\ n + 1 \in 1 .. NSlot /\ recorded[v] \in Nat
  BY <1>3, <1>5, <1>6, <1>7
<1>9. w = v => n = fSlotCounter[b][w]
  OBVIOUS
<1> HIDE DEF b, n
<1>10. \A c \in {0, 1} : c # b \/ w # v =>
         fSlotCounter'[c][w] = fSlotCounter[c][w] /\ deviceHits'[c][w] = deviceHits[c][w]
  BY <1>3, <1>4, <1>5, <1>6, <1>8
<1>11. w # v => recorded'[w] = recorded[w]
  BY <1>3, <1>6
<1>12. w = v => /\ recorded'[w] = recorded[w] + 1 /\ fSlotCounter'[b][w] = n + 1
                /\ \A k \in 1 .. NSlot : deviceHits'[b][w][k] =
                     IF k = n + 1 THEN recorded[w] + 1 ELSE deviceHits[b][w][k]
  BY <1>3, <1>4, <1>5, <1>6, <1>8
<1> QED BY <1>1, <1>2, <1>8, <1>9, <1>10, <1>11, <1>12 DEF b

LEMMA RecordFlight ==
  ASSUME DInv, NEW v \in Workers, RecordHit(v), NEW w \in Workers, QueuedTo(w)' = QueuedTo(w)
  PROVE  FlightOf(w)'
<1>0. AInv /\ FlightOf(w)
  BY DEF DInv
<1>1. /\ InFlight(w) \in 0 .. NSlot /\ QueuedTo(w) \in Nat /\ NSlot \in Nat
      /\ \A c \in {0, 1} : fSlotCounter[c][w] \in 0 .. NSlot
      /\ previous \in {0, 1} /\ fActiveBuffer \in {0, 1} /\ previous # fActiveBuffer
  BY FlightTypes
<1>2. /\ UNCHANGED <<fActiveBuffer, countsCopied, tpc, hostState, stream, hpc, index,
                     hostBufferCount, offsetAtCopy, hostBuffer>>
      /\ previous' = previous /\ OnDevice' = OnDevice /\ InHostBuffer' = InHostBuffer
      /\ Begin(w)' = Begin(w) /\ Transferring' = Transferring /\ Pushed' = Pushed
  BY RecordsInto
<1> DEFINE b == deviceBuffer
           n == fSlotCounter[b][w]
<1>3. \A c \in {0, 1} : c # b \/ w # v => /\ fSlotCounter'[c][w] = fSlotCounter[c][w]
                                         /\ deviceHits'[c][w] = deviceHits[c][w]
  BY RecordsInto
<1>4. w # v => recorded'[w] = recorded[w]
  BY RecordsInto
<1>5. w = v => /\ recorded'[w] = recorded[w] + 1 /\ recorded[w] \in Nat
               /\ fSlotCounter'[b][w] = n + 1 /\ n \in Nat /\ n + 1 \in 1 .. NSlot
               /\ \A k \in 1 .. NSlot : deviceHits'[b][w][k] =
                    IF k = n + 1 THEN recorded[w] + 1 ELSE deviceHits[b][w][k]
  BY RecordsInto
<1>6. b = (IF countsCopied THEN fActiveBuffer ELSE previous)
  BY DEF deviceBuffer
<1> HIDE DEF b, n
(* Nothing of w changes.                                                   *)
<1>7. CASE w # v
  <2>1. /\ recorded'[w] = recorded[w]
        /\ fSlotCounter'[fActiveBuffer][w] = fSlotCounter[fActiveBuffer][w]
        /\ fSlotCounter'[previous][w] = fSlotCounter[previous][w]
        /\ deviceHits'[fActiveBuffer][w] = deviceHits[fActiveBuffer][w]
        /\ deviceHits'[previous][w] = deviceHits[previous][w]
    BY <1>1, <1>3, <1>4, <1>7
  <2>2. InFlight(w)' = InFlight(w)
    BY <1>2, <2>1 DEF InFlight
  <2> QED BY <1>0, <1>2, <2>1, <2>2 DEF FlightOf
(* One more in the active buffer.                                          *)
<1>8. CASE w = v /\ countsCopied
  <2>1. b = fActiveBuffer
    BY <1>6, <1>8
  <2>2. /\ fSlotCounter'[previous][w] = fSlotCounter[previous][w]
        /\ deviceHits'[previous][w] = deviceHits[previous][w]
    BY <1>1, <1>3, <2>1
  <2>3. InFlight(w)' = InFlight(w)
    BY <1>2, <1>8 DEF InFlight
  <2>4. recorded[w] = QueuedTo(w) + InFlight(w) + n /\ recorded'[w] = recorded[w] + 1
    BY <1>0, <1>5, <1>8, <2>1 DEF FlightOf, n
  <2>5. \A k \in 1 .. n : deviceHits[b][w][k] = QueuedTo(w) + InFlight(w) + k
    BY <1>0, <2>1 DEF FlightOf, n
  <2>6. \A k \in 1 .. n + 1 : deviceHits'[b][w][k] = QueuedTo(w) + InFlight(w) + k
    <3> SUFFICES ASSUME NEW k \in 1 .. n + 1
                 PROVE  deviceHits'[b][w][k] = QueuedTo(w) + InFlight(w) + k
      OBVIOUS
    <3>1. k \in 1 .. NSlot /\ n \in Nat
      BY <1>1, <1>5, <1>8
    <3>2. CASE k = n + 1
      BY <1>1, <1>5, <1>8, <2>4, <3>1, <3>2
    <3>3. CASE k # n + 1
      <4>1. k \in 1 .. n
        BY <3>1, <3>3
      <4> QED BY <1>5, <1>8, <2>5, <3>1, <3>3, <4>1
    <3> QED BY <3>2, <3>3
  <2>7. recorded'[w] = QueuedTo(w) + InFlight(w) + (n + 1) /\ fSlotCounter'[b][w] = n + 1
    BY <1>1, <1>5, <1>8, <2>4
  <2> QED BY <1>0, <1>2, <1>8, <2>1, <2>2, <2>3, <2>6, <2>7 DEF FlightOf
(* One more in the batch.                                                  *)
<1>9. CASE w = v /\ ~countsCopied
  <2>1. b = previous
    BY <1>6, <1>9
  <2>2. fSlotCounter'[fActiveBuffer][w] = 0 /\ fSlotCounter[fActiveBuffer][w] = 0
    BY <1>0, <1>1, <1>3, <1>9, <2>1 DEF FlightOf
  <2>3. InFlight(w) = n /\ InFlight(w)' = n + 1
    BY <1>2, <1>5, <1>9, <2>1 DEF InFlight, n
  <2>4. OnDevice /\ ~InHostBuffer
    BY <1>0, <1>9, HostImpliesTransferring
  <2>5. \A k \in 1 .. n : deviceHits[b][w][k] = QueuedTo(w) + k
    BY <1>0, <2>1, <2>3, <2>4 DEF FlightOf
  <2>6. recorded[w] = QueuedTo(w) + n /\ recorded'[w] = QueuedTo(w) + (n + 1)
    <3>1. recorded[w] = QueuedTo(w) + n + 0
      BY <1>0, <2>2, <2>3 DEF FlightOf
    <3> QED BY <1>1, <1>5, <1>9, <3>1
  <2>7. \A k \in 1 .. n + 1 : deviceHits'[b][w][k] = QueuedTo(w) + k
    <3> SUFFICES ASSUME NEW k \in 1 .. n + 1
                 PROVE  deviceHits'[b][w][k] = QueuedTo(w) + k
      OBVIOUS
    <3>1. k \in 1 .. NSlot /\ n \in Nat
      BY <1>1, <1>5, <1>9
    <3>2. CASE k = n + 1
      BY <1>1, <1>5, <1>9, <2>6, <3>1, <3>2
    <3>3. CASE k # n + 1
      <4>1. k \in 1 .. n
        BY <3>1, <3>3
      <4> QED BY <1>5, <1>9, <2>5, <3>1, <3>3, <4>1
    <3> QED BY <3>2, <3>3
  <2>8. recorded'[w] = QueuedTo(w) + (n + 1) + 0 /\ 1 .. 0 = {}
    BY <1>1, <1>5, <1>9, <2>6
  <2> QED BY <1>2, <1>9, <2>1, <2>2, <2>3, <2>4, <2>7, <2>8 DEF FlightOf
<1> QED BY <1>7, <1>8, <1>9

(* A swap: what was recorded in the active buffer is the next batch.       *)
LEMMA SwapFlight ==
  ASSUME DInv, SwapDeviceBuffers, NEW w \in Workers, QueuedTo(w)' = QueuedTo(w)
  PROVE  FlightOf(w)'
<1>0. AInv /\ FlightOf(w)
  BY DEF DInv
<1>1. /\ UNCHANGED <<recorded, fSlotCounter, deviceHits, hostState, stream>>
      /\ tpc = "transport" /\ hostState = "ReadyToBeFilled"
      /\ countsCopied' = FALSE /\ fActiveBuffer' = previous
      /\ tpc' \in {"flipped", "thrown"}
  BY DEF SwapDeviceBuffers, ReadyToSwapBuffers, historyVars, deviceVars, batchVars
<1>2. countsCopied
  BY <1>0, <1>1 DEF AInv, Phases
<1>3. /\ InFlight(w) \in 0 .. NSlot /\ QueuedTo(w) \in Nat /\ NSlot \in Nat
      /\ \A b \in {0, 1} : fSlotCounter[b][w] \in 0 .. NSlot
      /\ previous \in {0, 1} /\ fActiveBuffer \in {0, 1}
  BY FlightTypes
<1>4. InFlight(w) = 0 /\ fSlotCounter[previous][w] = 0
  <2>1. ~Transferring
    BY <1>1 DEF Transferring
  <2>2. InFlight(w) = 0
    BY <1>1, <1>2, <2>1 DEF InFlight
  <2> QED BY <1>0, <1>2, <2>2 DEF FlightOf
<1>5. previous' = fActiveBuffer
  BY <1>1, <1>3 DEF previous
<1>6. InFlight(w)' = fSlotCounter[fActiveBuffer][w]
  BY <1>1, <1>5 DEF InFlight
<1>7. ~InHostBuffer'
  <2>1. stream' = "idle"
    BY <1>0, <1>1 DEF AInv, Phases
  <2> QED BY <1>1, <2>1 DEF InHostBuffer
<1> DEFINE c == fSlotCounter[fActiveBuffer][w]
<1>8. /\ recorded[w] = QueuedTo(w) + c /\ c \in Nat
      /\ \A n \in 1 .. c : deviceHits[fActiveBuffer][w][n] = QueuedTo(w) + n
  BY <1>0, <1>3, <1>4 DEF FlightOf
<1> HIDE DEF c
<1>9. recorded'[w] = QueuedTo(w)' + InFlight(w)' + fSlotCounter'[fActiveBuffer'][w]
  BY <1>1, <1>3, <1>4, <1>6, <1>8 DEF c
<1>10. \A n \in 1 .. fSlotCounter'[fActiveBuffer'][w] :
         deviceHits'[fActiveBuffer'][w][n] = QueuedTo(w)' + InFlight(w)' + n
  BY <1>1, <1>4
<1>11. \A n \in 1 .. InFlight(w)' : deviceHits'[previous'][w][n] = QueuedTo(w)' + n
  BY <1>1, <1>5, <1>6, <1>8 DEF c
<1>12. fSlotCounter'[fActiveBuffer'][w] = 0
  BY <1>1, <1>4
<1> QED BY <1>1, <1>7, <1>9, <1>10, <1>11, <1>12 DEF FlightOf

LEMMA PublishFlight ==
  ASSUME DInv, PublishSwap, NEW w \in Workers, QueuedTo(w)' = QueuedTo(w)
  PROVE  FlightOf(w)'
<1>0. AInv
  BY DEF DInv
<1>1. /\ UNCHANGED <<recorded, fSlotCounter, fActiveBuffer, countsCopied, deviceHits>>
      /\ UNCHANGED <<stream, hostBufferCount, offsetAtCopy, hostBuffer, hpc, index>>
      /\ \/ tpc = "flipped" /\ tpc' = "published" /\ UNCHANGED hostState
         \/ tpc = "published" /\ tpc' = "synchronizing" /\ hostState' = "AwaitingDeviceTransfer"
         \/ tpc = "synchronizing" /\ tpc' = "transport" /\ UNCHANGED hostState
  BY DEF PublishSwap, historyVars, deviceVars, batchVars, hostVars, threadVars
<1>2. CASE tpc = "synchronizing"
  <2>1. Pushed' = Pushed /\ Transferring' = Transferring /\ Begin(w)' = Begin(w)
    BY <1>0, <1>1, <1>2, SameBegin DEF Pushed, Transferring
  <2>2. InFlight(w)' = InFlight(w)
    BY <1>1, <1>2, <2>1 DEF InFlight, previous
  <2>3. OnDevice' = OnDevice /\ InHostBuffer' = InHostBuffer
    BY <1>1, <1>2 DEF OnDevice, InHostBuffer
  <2> QED BY <1>1, <2>1, <2>2, <2>3, KeepFlight
<1>3. CASE tpc \in {"flipped", "published"}
  <2>1. ~Transferring /\ stream = "idle"
    BY <1>0, <1>3 DEF AInv, Phases, Transferring
  <2>2. tpc' \in {"flipped", "published"} \/ hostState' = "AwaitingDeviceTransfer"
    BY <1>1, <1>3
  <2>3. InFlight(w)' = InFlight(w)
    <3>1. CASE ~countsCopied
      BY <1>1, <3>1 DEF InFlight, previous
    <3>2. CASE countsCopied
      BY <1>1, <1>3, <2>2, <3>2 DEF InFlight
    <3> QED BY <3>1, <3>2
  <2>4. OnDevice /\ ~InHostBuffer'
    BY <1>1, <1>3, <2>1 DEF OnDevice, InHostBuffer, Transferring
  <2> QED BY <1>1, <2>3, <2>4, KeepFlight
<1> QED BY <1>1, <1>2, <1>3

(* The counters of the batch are copied and reset.                         *)
LEMMA CountsFlight ==
  ASSUME DInv, CopyCounts, NEW w \in Workers, QueuedTo(w)' = QueuedTo(w)
  PROVE  FlightOf(w)'
<1>0. AInv /\ FlightOf(w) /\ DeviceTypes
  BY TypesAre DEF DInv, AInv
<1>1. /\ UNCHANGED <<recorded, deviceHits, fActiveBuffer, tpc, hostState, stream, hpc, index>>
      /\ ~countsCopied /\ countsCopied' = TRUE /\ hostBufferCount' = fSlotCounter[previous]
      /\ fSlotCounter' = [fSlotCounter EXCEPT ![previous] = [v \in Workers |-> 0]]
  BY DEF CopyCounts, historyVars, stateVars, threadVars
<1>2. OnDevice /\ ~Transferring /\ ~InHostBuffer
  BY <1>0, <1>1, HostImpliesTransferring
<1>3. /\ InFlight(w) \in 0 .. NSlot /\ QueuedTo(w) \in Nat /\ NSlot \in Nat
      /\ previous \in {0, 1} /\ fActiveBuffer \in {0, 1} /\ previous # fActiveBuffer
  BY FlightTypes
<1>4. ~InHostBuffer' /\ stream # "copy"
  BY <1>0, <1>1, <1>2 DEF AInv, Phases, InHostBuffer, Transferring
<1>5. InFlight(w) = fSlotCounter[previous][w] /\ InFlight(w)' = hostBufferCount'[w]
  BY <1>1, <1>2, <1>4 DEF InFlight, OnDevice
<1>6. InFlight(w)' = InFlight(w) /\ previous' = previous
  BY <1>1, <1>5 DEF previous
<1>7. /\ fSlotCounter'[fActiveBuffer] = fSlotCounter[fActiveBuffer]
      /\ fSlotCounter'[previous][w] = 0
  BY <1>0, <1>1, <1>3 DEF DeviceTypes
<1> QED BY <1>0, <1>1, <1>2, <1>4, <1>6, <1>7 DEF FlightOf

(* The transfer starts.                                                    *)
LEMMA TransferFlight ==
  ASSUME DInv, ~hasty', TransferHitsToHost, NEW w \in Workers, QueuedTo(w)' = QueuedTo(w)
  PROVE  FlightOf(w)'
<1>0. AInv
  BY DEF DInv
<1>1. CASE ~NeedsTransfer \/ UNCHANGED <<hostState, stream, offsetAtCopy>>
  BY <1>1, QuietFlight
<1>2. CASE NeedsTransfer /\ ~UNCHANGED <<hostState, stream, offsetAtCopy>>
  <2>1. /\ UNCHANGED <<recorded, fSlotCounter, fActiveBuffer, countsCopied, deviceHits, tpc>>
        /\ UNCHANGED <<hostBufferCount, hostBuffer, hpc, index>>
        /\ hostState' = "TransferFromDevice" /\ stream' = "copy"
        /\ countsCopied /\ tpc # "published" /\ hpc = "transfer"
    BY <1>2 DEF TransferHitsToHost, historyVars, deviceVars, swapVars, hostVars
  <2>2. hostState = "AwaitingDeviceTransfer"
    BY <1>0, <1>2, <2>1 DEF NeedsTransfer, AInv, Phases, IInv, previous
  <2>3. countsCopied
    BY <2>1
  <2>4. InFlight(w) = hostBufferCount[w]
    BY <2>2, <2>3 DEF InFlight
  <2>5. InFlight(w)' = hostBufferCount'[w]
    <3>1. Transferring' /\ Pushed' = 0 /\ w > 0
      BY <2>1 DEF Transferring, Pushed, Workers
    <3> QED BY <2>1, <2>3, <3>1 DEF InFlight
  <2>6. OnDevice /\ ~InHostBuffer'
    BY <2>1, <2>2 DEF OnDevice, InHostBuffer
  <2> QED BY <2>1, <2>4, <2>5, <2>6, KeepFlight
<1> QED BY <1>1, <1>2

(* The copy brings the batch to the host buffer ...                        *)
LEMMA CopyFlight ==
  ASSUME DInv, CopyHits, NEW w \in Workers, QueuedTo(w)' = QueuedTo(w)
  PROVE  FlightOf(w)'
<1>0. AInv /\ FlightOf(w)
  BY DEF DInv
<1>1. /\ UNCHANGED <<recorded, fSlotCounter, fActiveBuffer, countsCopied, deviceHits, tpc>>
      /\ UNCHANGED <<hostBufferCount, offsetAtCopy, hostState, hpc, index>>
      /\ stream = "copy" /\ stream' = "free"
  BY DEF CopyHits, historyVars, deviceVars, swapVars, stateVars, threadVars
<1>2. hostState = "TransferFromDevice" /\ Transferring
  BY <1>0, <1>1 DEF AInv, Phases, Transferring
<1>3. tpc \in {"transport", "synchronizing"} /\ countsCopied
  BY <1>0, <1>2, HostImpliesTransferring
<1>4. hpc # "push"
  BY <1>0, <1>1, HostImpliesTransferring
<1>5. InFlight(w)' = InFlight(w) /\ InFlight(w) = hostBufferCount[w]
  <2>1. Pushed = 0 /\ Pushed' = 0 /\ w > 0 /\ Transferring'
    BY <1>1, <1>2, <1>4 DEF Pushed, Transferring, Workers
  <2> QED BY <1>1, <1>2, <1>3, <2>1 DEF InFlight
<1>6. OnDevice /\ ~OnDevice'
  BY <1>1, <1>2, <1>3 DEF OnDevice
<1>7. \A n \in 1 .. hostBufferCount[w] : hostBuffer'[Begin(w) + n - 1] = deviceHits[previous][w][n]
  BY <1>0, CopyHitsStep
<1>8. Begin(w)' = Begin(w)
  BY <1>0, <1>1, SameBegin
<1>9. \A n \in 1 .. InFlight(w)' : hostBuffer'[Begin(w)' + n - 1] = QueuedTo(w)' + n
  BY <1>0, <1>5, <1>6, <1>7, <1>8 DEF FlightOf
<1>10. previous' = previous
  BY <1>1 DEF previous
<1> QED BY <1>0, <1>1, <1>5, <1>6, <1>9, <1>10 DEF FlightOf

(* ... and only then the device buffer is free.                            *)
LEMMA FreeFlight ==
  ASSUME DInv, FreeDeviceBuffer, NEW w \in Workers, QueuedTo(w)' = QueuedTo(w)
  PROVE  FlightOf(w)'
<1>0. AInv /\ FlightOf(w) /\ DeviceTypes
  BY TypesAre DEF DInv, AInv
<1>1. /\ UNCHANGED <<recorded, fSlotCounter, fActiveBuffer, countsCopied, tpc, hostBuffer>>
      /\ UNCHANGED <<hostBufferCount, offsetAtCopy, hostState, hpc, index>>
      /\ stream = "free" /\ stream' = "finish"
      /\ deviceHits' = [deviceHits EXCEPT ![previous] =
                          [v \in Workers |-> [n \in 1 .. NSlot |-> 0]]]
  BY DEF FreeDeviceBuffer, historyVars, swapVars, hostVars, threadVars
<1>2. hostState = "TransferFromDevice" /\ Transferring
  BY <1>0, <1>1 DEF AInv, Phases, Transferring
<1>3. tpc \in {"transport", "synchronizing"} /\ countsCopied
  BY <1>0, <1>2, HostImpliesTransferring
<1>4. previous \in {0, 1} /\ fActiveBuffer \in {0, 1} /\ previous # fActiveBuffer
  BY FlightTypes
<1>5. deviceHits'[fActiveBuffer] = deviceHits[fActiveBuffer]
  BY <1>0, <1>1, <1>4 DEF DeviceTypes
<1>6. InFlight(w)' = InFlight(w) /\ previous' = previous
  BY <1>1 DEF InFlight, previous, Transferring, Pushed
<1>7. ~OnDevice' /\ InHostBuffer
  BY <1>1, <1>2, <1>3 DEF OnDevice, InHostBuffer
<1>8. Begin(w)' = Begin(w)
  BY <1>0, <1>1, SameBegin
<1> QED BY <1>0, <1>1, <1>5, <1>6, <1>7, <1>8 DEF FlightOf

LEMMA FinishFlight ==
  ASSUME DInv, FinishTransfer, NEW w \in Workers, QueuedTo(w)' = QueuedTo(w)
  PROVE  FlightOf(w)'
<1>0. AInv
  BY DEF DInv
<1>1. /\ UNCHANGED <<recorded, fSlotCounter, fActiveBuffer, countsCopied, deviceHits, tpc>>
      /\ UNCHANGED <<hostBufferCount, offsetAtCopy, hpc, index, hostBuffer>>
      /\ stream = "finish" /\ stream' = "idle" /\ hostState' = "TransferFromDeviceFinished"
  BY DEF FinishTransfer, historyVars, deviceVars, swapVars, hostVars, threadVars
<1>2. hostState = "TransferFromDevice" /\ Transferring
  BY <1>0, <1>1 DEF AInv, Phases, Transferring
<1>3. tpc \in {"transport", "synchronizing"} /\ countsCopied
  BY <1>0, <1>2, HostImpliesTransferring
<1>4. InFlight(w)' = InFlight(w)
  <2>1. Transferring' /\ Pushed' = Pushed
    BY <1>1 DEF Transferring, Pushed
  <2> QED BY <1>1, <1>2, <1>3, <2>1 DEF InFlight, previous
<1>5. ~OnDevice' /\ InHostBuffer
  BY <1>1, <1>3 DEF OnDevice, InHostBuffer
<1>6. Begin(w)' = Begin(w)
  BY <1>0, <1>1, SameBegin
<1> QED BY <1>1, <1>4, <1>5, <1>6, KeepFlight

(* A part of the batch is queued, and at last all of it.                   *)
LEMMA PushFlight ==
  ASSUME DInv, PushHits, NEW w \in Workers
  PROVE  FlightOf(w)'
<1>0. AInv /\ FlightOf(w)
  BY DEF DInv
<1>1. /\ UNCHANGED <<recorded, fSlotCounter, fActiveBuffer, countsCopied, deviceHits, tpc>>
      /\ UNCHANGED <<hostBufferCount, offsetAtCopy, hostState, hpc, hostBuffer, stream>>
      /\ hpc = "push" /\ index' = index + 1
  BY DEF PushHits, historyVars, deviceVars, swapVars, stateVars, batchVars
<1>2. QueuedTo(w)' = QueuedTo(w) + (IF w = index THEN hostBufferCount[w] ELSE 0)
  BY PushOrder
<1>3. Transferring /\ InHostBuffer /\ tpc \in {"transport", "synchronizing"} /\ countsCopied
      /\ hostState # "AwaitingDeviceTransfer" /\ stream = "idle"
  BY <1>0, <1>1, HostImpliesTransferring
<1>4. index \in Nat /\ w \in Nat /\ Pushed = index - 1 /\ Pushed' = index
  <2>1. index \in Nat /\ w \in Nat
    BY <1>0, BatchTypes DEF Workers
  <2>2. Pushed = index - 1 /\ Pushed' = index' - 1
    BY <1>1 DEF Pushed
  <2> QED BY <1>1, <2>1, <2>2
<1>5. /\ InFlight(w) \in Nat /\ QueuedTo(w) \in Nat
      /\ fSlotCounter[fActiveBuffer][w] \in Nat /\ hostBufferCount[w] \in Nat
  <2>1. /\ InFlight(w) \in 0 .. NSlot /\ QueuedTo(w) \in Nat /\ NSlot \in Nat
        /\ \A b \in {0, 1} : fSlotCounter[b][w] \in 0 .. NSlot
        /\ fActiveBuffer \in {0, 1}
    BY FlightTypes
  <2>2. hostBufferCount[w] \in 0 .. NSlot
    BY <1>0, TypesAre DEF AInv, BatchTypeOK
  <2> QED BY <2>1, <2>2
<1>6. /\ InFlight(w) = IF w > index - 1 THEN hostBufferCount[w] ELSE 0
      /\ InFlight(w)' = IF w > index THEN hostBufferCount[w] ELSE 0
  <2>1. Transferring'
    BY <1>1, <1>3 DEF Transferring
  <2> QED BY <1>1, <1>3, <1>4, <2>1 DEF InFlight
<1>7. ~OnDevice'
  BY <1>1, <1>3 DEF OnDevice
<1>8. Begin(w)' = Begin(w) /\ previous' = previous
  BY <1>0, <1>1, SameBegin DEF previous
<1>9. /\ recorded[w] = QueuedTo(w) + InFlight(w) + fSlotCounter[fActiveBuffer][w]
      /\ \A n \in 1 .. fSlotCounter[fActiveBuffer][w] :
           deviceHits[fActiveBuffer][w][n] = QueuedTo(w) + InFlight(w) + n
      /\ \A n \in 1 .. InFlight(w) : hostBuffer[Begin(w) + n - 1] = QueuedTo(w) + n
      /\ fSlotCounter[previous][w] = 0
  BY <1>0, <1>3 DEF FlightOf
<1>10. QueuedTo(w)' + InFlight(w)' = QueuedTo(w) + InFlight(w)
  <2>1. CASE w = index
    BY <1>2, <1>4, <1>5, <1>6, <2>1
  <2>2. CASE w # index
    <3>1. w > index - 1 <=> w > index
      BY <1>4, <2>2
    <3> QED BY <1>2, <1>5, <1>6, <2>2, <3>1
  <2> QED BY <2>1, <2>2
<1>11. \A n \in 1 .. InFlight(w)' : hostBuffer[Begin(w) + n - 1] = QueuedTo(w)' + n
  <2>1. CASE w > index
    <3>1. w # index /\ w > index - 1
      BY <1>4, <2>1
    <3> QED BY <1>2, <1>5, <1>6, <1>9, <2>1, <3>1
  <2>2. CASE ~(w > index)
    BY <1>6, <2>2
  <2> QED BY <2>1, <2>2
<1>12. /\ recorded'[w] = QueuedTo(w)' + InFlight(w)' + fSlotCounter'[fActiveBuffer'][w]
       /\ \A n \in 1 .. fSlotCounter'[fActiveBuffer'][w] :
            deviceHits'[fActiveBuffer'][w][n] = QueuedTo(w)' + InFlight(w)' + n
  BY <1>1, <1>9, <1>10
<1>13. countsCopied' /\ fSlotCounter'[previous'][w] = 0
  BY <1>1, <1>3, <1>8, <1>9
<1> QED BY <1>1, <1>7, <1>8, <1>11, <1>12, <1>13 DEF FlightOf

LEMMA ReleaseFlight ==
  ASSUME DInv, ReleaseHostBuffer, NEW w \in Workers, QueuedTo(w)' = QueuedTo(w)
  PROVE  FlightOf(w)'
<1>0. AInv
  BY DEF DInv
<1>1. /\ UNCHANGED <<recorded, fSlotCounter, fActiveBuffer, countsCopied, deviceHits, tpc>>
      /\ UNCHANGED <<hostBufferCount, offsetAtCopy, hostBuffer, stream>>
      /\ hpc = "push" /\ index > NWorkers /\ hostState' = "ReadyToBeFilled"
  BY DEF ReleaseHostBuffer, historyVars, deviceVars, swapVars, batchVars, hostVars
<1>2. Transferring /\ tpc \in {"transport", "synchronizing"} /\ countsCopied /\ stream = "idle"
      /\ hostState # "AwaitingDeviceTransfer"
  BY <1>0, <1>1, HostImpliesTransferring
<1>3. ~(w > Pushed)
  BY <1>0, <1>1, BatchTypes DEF Pushed, Workers
<1>4. InFlight(w)' = InFlight(w)
  <2>1. InFlight(w) = 0
    BY <1>2, <1>3 DEF InFlight
  <2>2. ~Transferring' /\ hostState' # "AwaitingDeviceTransfer"
    BY <1>1 DEF Transferring
  <2> QED BY <1>1, <1>2, <2>1, <2>2 DEF InFlight
<1>5. ~OnDevice' /\ ~InHostBuffer'
  BY <1>1, <1>2 DEF OnDevice, InHostBuffer
<1> QED BY <1>1, <1>4, <1>5, KeepFlight
LEMMA StepDInv == DInv /\ [Next]_vars /\ ~hasty' => DInv'
<1> SUFFICES ASSUME DInv, [Next]_vars, ~hasty' PROVE DInv'
  OBVIOUS
<1>1. AInv'
  BY StepAInv DEF DInv
<1>2. ASSUME NEW w \in Workers PROVE OrderOf(w)' /\ FlightOf(w)'
  <2>1. OrderOf(w)' /\ (~PushHits => QueuedTo(w)' = QueuedTo(w))
    BY OrderStep
  <2>2. CASE PushHits
    BY <2>1, <2>2, PushFlight
  <2>3. CASE ~PushHits
    <3>1. QueuedTo(w)' = QueuedTo(w)
      BY <2>1, <2>3
    <3>2. ASSUME NEW v \in Workers, RecordHit(v) PROVE FlightOf(w)'
      BY <3>1, <3>2, RecordFlight
    <3>3. ASSUME \/ WakeUp \/ ProcessHits \/ CopyOut \/ EndProcessBuffer \/ UNCHANGED vars
                 \/ \E v \in Workers : Worker(v)
          PROVE  FlightOf(w)'
      BY <3>1, <3>3, QuietFlight
    <3> QED BY <2>1, <2>3, <3>1, <3>2, <3>3, SwapFlight, PublishFlight, CountsFlight, TransferFlight,
               CopyFlight, FreeFlight, FinishFlight, ReleaseFlight DEF Next, HitThread, Callback
  <2> QED BY <2>2, <2>3
<1> QED BY <1>1, <1>2 DEF DInv

LEMMA InitDInv == Init => DInv
<1> SUFFICES ASSUME Init PROVE DInv
  OBVIOUS
<1>1. AInv
  BY InitAInv
<1> SUFFICES ASSUME NEW w \in Workers PROVE OrderOf(w) /\ FlightOf(w)
  BY <1>1 DEF DInv
<1>2. /\ recorded[w] = 0 /\ delivered[w] = <<>> /\ fHitQueues[w] = <<>>
      /\ fActiveBuffer = 0 /\ fSlotCounter[0][w] = 0 /\ fSlotCounter[1][w] = 0
      /\ countsCopied /\ tpc = "transport" /\ hostState = "ReadyToBeFilled" /\ stream = "idle"
  BY DEF Init
<1>3. QueuedHits(w) = <<>>
  BY <1>2 DEF QueuedHits, HitsOf
<1>4. Len(delivered[w]) = 0
  BY <1>2
<1>5. QueuedTo(w) = 0
  BY <1>3, <1>4 DEF QueuedTo, EndOf
<1>6. InFlight(w) = 0 /\ ~OnDevice /\ ~InHostBuffer /\ previous = 1
  BY <1>2 DEF InFlight, Transferring, OnDevice, InHostBuffer, previous
<1>7. OrderOf(w)
  BY <1>2, <1>3, <1>4 DEF OrderOf, Ordered
<1>8. FlightOf(w)
  BY <1>2, <1>5, <1>6 DEF FlightOf
<1> QED BY <1>7, <1>8

(* Each step is one of the abstract specification, or none.                *)
LEMMA DeliveryStep == DInv /\ [Next]_vars => [Delivery!Next]_<<recorded, delivered>>
<1> SUFFICES ASSUME DInv, [Next]_vars PROVE [Delivery!Next]_<<recorded, delivered>>
  OBVIOUS
<1>0. Delivery!Workers = Workers /\ DeviceTypes
  BY TypesAre DEF Workers, Delivery!Workers, DInv, AInv
<1>1. ASSUME NEW w \in Workers, RecordHit(w) PROVE Delivery!Next
  <2>1. Delivery!Record(w)
    BY <1>1 DEF RecordHit, Delivery!Record
  <2> QED BY <1>0, <2>1 DEF Delivery!Next
<1>2. ASSUME NEW w \in Workers, ProcessGPUSteps(w) PROVE Delivery!Next
  <2>1. PICK n \in Len(delivered[w]) + 1 .. QueuedTo(w) : delivered'[w] = [k \in 1 .. n |-> k]
    BY <1>2, ProcessOrder
  <2>2. n \in Len(delivered[w]) + 1 .. recorded[w]
    <3>1. /\ InFlight(w) \in 0 .. NSlot /\ QueuedTo(w) \in Nat /\ Len(delivered[w]) \in Nat
          /\ NSlot \in Nat /\ fActiveBuffer \in {0, 1}
          /\ \A b \in {0, 1} : fSlotCounter[b][w] \in 0 .. NSlot
      BY FlightTypes
    <3>2. recorded[w] = QueuedTo(w) + InFlight(w) + fSlotCounter[fActiveBuffer][w]
      BY DEF DInv, FlightOf
    <3>3. InFlight(w) \in Nat /\ fSlotCounter[fActiveBuffer][w] \in Nat
      BY <3>1
    <3> QED BY <3>1, <3>2, <3>3
  <2>3. UNCHANGED recorded /\ delivered' = [delivered EXCEPT ![w] = delivered'[w]]
    BY <1>0, <1>2 DEF ProcessGPUSteps, DeviceTypes
  <2>4. Delivery!Deliver(w)
    BY <2>1, <2>2, <2>3 DEF Delivery!Deliver
  <2> QED BY <1>0, <2>4 DEF Delivery!Next
<1>3. ASSUME \/ SwapDeviceBuffers \/ PublishSwap \/ WakeUp \/ HitThread \/ Callback
             \/ \E w \in Workers : GetNextHitsHandle(w) \/ CloseHitsHandle(w)
             \/ UNCHANGED vars
      PROVE  UNCHANGED <<recorded, delivered>>
  BY <1>3 DEF SwapDeviceBuffers, PublishSwap, WakeUp, HitThread, TransferHitsToHost, ProcessHits,
     PushHits, ReleaseHostBuffer, CopyOut, EndProcessBuffer, Callback, CopyCounts, CopyHits,
     FreeDeviceBuffer, FinishTransfer, GetNextHitsHandle, CloseHitsHandle, historyVars, vars
<1> QED BY <1>1, <1>2, <1>3 DEF Next, Worker

(* Until a transfer is hasty, every worker processes the hits that were    *)
(* recorded for it, each once and in the order of their recording,         *)
(* whatever the threads, the stream and the full host buffer do in         *)
(* between: HitScoring implements a FIFO per worker.                       *)
THEOREM HitsAreDeliveredHolds == Safety => HitsAreDelivered
<1>1. (hasty \/ DInv) /\ [Next]_vars => (hasty \/ DInv)'
  BY HastyStays, StepDInv
<1>2. Init => Delivery!Init
  BY DEF Init, Delivery!Init, Workers, Delivery!Workers
<1>3. (hasty \/ DInv) /\ [Next]_vars => [hasty \/ Delivery!Next]_<<recorded, delivered>>
  BY DeliveryStep
<1> QED BY <1>1, <1>2, <1>3, InitDInv, PTL DEF Safety, HitsAreDelivered
=============================================================================
