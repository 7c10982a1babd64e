----------------------------- MODULE SlotManager -----------------------------
(***************************************************************************)
(* The slot manager of one particle type (include/AdePT/base/              *)
(* SlotManager.cuh) and the discipline under which the transport thread    *)
(* lets the device use it (include/AdePT/core/AsyncAdePTTransport.cuh).    *)
(*                                                                         *)
(* Device threads of three kernels work on it at the same time:            *)
(*   "transport" (TransportElectrons/Positrons/Gammas) allocates slots for *)
(*               secondaries and marks the slots of dying tracks,          *)
(*   "inject"    (InitTracks, injectStream) allocates slots only,          *)
(*   "extract"   (FillFromDeviceBuffer, extractStream) marks the slots of  *)
(*               the leaked tracks it has copied out.                      *)
(* Both operations are an atomicAdd on a counter followed by a plain       *)
(* access to the list, so each is two steps here.  Freeing runs on         *)
(* gpuState.stream, fenced against the other streams.                      *)
(***************************************************************************)
EXTENDS Naturals, FiniteSets

CONSTANTS
  fSlotListSize,  (* capacity of fSlotList                                 *)
  fFreeListSize,  (* capacity of fToFreeList                               *)
  Threads         (* device threads that may use the manager               *)

(* InitializeGPU builds every manager as SlotManager{nSlot, nSlot}.        *)
ASSUME SizeAssumption ==
  /\ fSlotListSize \in Nat \ {0}
  /\ fFreeListSize = fSlotListSize

Kernels == {"transport", "inject", "extract"}
Slots   == 0 .. fSlotListSize - 1

VARIABLES
  fSlotList,      (* index -> slot; the indices >= fSlotCounter are free   *)
  fToFreeList,    (* index -> slot; the indices < fFreeCounter are marked  *)
  fSlotCounter,
  fFreeCounter,
  live,           (* slots of tracks in an active queue                    *)
  leaked,         (* slots of tracks in a leak queue                       *)
  killed,         (* slots of tracks dropped without being marked          *)
  pc,             (* device thread -> what it is in the middle of          *)
  index,          (* device thread -> result of its atomicAdd              *)
  held,           (* device thread -> slot it is marking                   *)
  kernel,         (* device thread -> kernel it works for                  *)
  running,        (* kernels on the device                                 *)
  overHalf,       (* Stats::slotFillLevel, as last read by the host, > 0.5 *)
  freeing,        (* progress of FreeSlots1 / FreeSlots2                   *)
  trapped         (* the COPCORE_EXCEPTION that stopped the device, if any *)

lists   == <<fSlotList, fToFreeList>>
tracks  == <<live, leaked, killed>>
threads == <<pc, index, held, kernel>>
host    == <<running, overHalf, freeing>>
vars    == <<lists, fSlotCounter, fFreeCounter, tracks, threads, host, trapped>>

Traps == {"none", "outOfSlots", "freeListFull", "freedTooMany"}

TypeOK ==
  /\ fSlotList \in [Slots -> Slots]
  /\ fToFreeList \in [0 .. fFreeListSize - 1 -> Slots]
  /\ fSlotCounter \in 0 .. fSlotListSize
  /\ fFreeCounter \in 0 .. fFreeListSize
  /\ live \in SUBSET Slots
  /\ leaked \in SUBSET Slots
  /\ killed \in SUBSET Slots
  /\ pc \in [Threads -> {"idle", "allocating", "marking"}]
  /\ index \in [Threads -> Slots]
  /\ held \in [Threads -> Slots]
  /\ kernel \in [Threads -> Kernels]
  /\ running \in SUBSET Kernels
  /\ overHalf \in BOOLEAN
  /\ freeing \in {"no", "requested", "copied"}
  /\ trapped \in Traps

-----------------------------------------------------------------------------
(* SlotManager::Clear, run by InitSlotManagers before a transport loop.    *)
Cleared ==
  /\ fSlotList' = [i \in Slots |-> i]
  /\ fSlotCounter' = 0
  /\ fFreeCounter' = 0

Init ==
  /\ fSlotList = [i \in Slots |-> i]
  /\ fToFreeList = [i \in 0 .. fFreeListSize - 1 |-> 0]
  /\ fSlotCounter = 0
  /\ fFreeCounter = 0
  /\ live = {}
  /\ leaked = {}
  /\ killed = {}
  /\ pc = [d \in Threads |-> "idle"]
  /\ index = [d \in Threads |-> 0]
  /\ held = [d \in Threads |-> 0]
  /\ kernel = [d \in Threads |-> "transport"]
  /\ running = {}
  /\ overHalf = FALSE
  /\ freeing = "no"
  /\ trapped = "none"

(* The registers of a device thread die with the call: an idle thread's    *)
(* are put back to their initial values.                                   *)
Returns(d) ==
  /\ pc' = [pc EXCEPT ![d] = "idle"]
  /\ index' = [index EXCEPT ![d] = 0]
  /\ held' = [held EXCEPT ![d] = 0]
  /\ kernel' = [kernel EXCEPT ![d] = "transport"]

(* The index taken by NextSlot lies in the list (else COPCORE_EXCEPTION).   *)
SlotAvailableMutant == fSlotCounter <= fSlotListSize
SlotAvailable       == fSlotCounter < fSlotListSize

(* Index at which FreeMarkedSlotsStage1 starts to write freed slots.       *)
FreedFromMutant == fSlotCounter - fFreeCounter + 1
FreedFrom       == fSlotCounter - fFreeCounter

(* A track whose slot is marked leaves the queues for good.                *)
EndTrackMutant(s) == UNCHANGED <<live, leaked>>
EndTrack(s) ==
  /\ live' = live \ {s}
  /\ leaked' = leaked \ {s}

(* An idle device thread starts to work for a kernel that is running.      *)
Starts(d, k) == pc[d] = "idle" /\ k \in running

(* NextSlot, first half: the atomicAdd on fSlotCounter and its test.       *)
NextSlotFetch(d, k) ==
  /\ Starts(d, k) /\ k \in {"transport", "inject"}
  /\ IF SlotAvailable
       THEN /\ pc' = [pc EXCEPT ![d] = "allocating"]
            /\ index' = [index EXCEPT ![d] = fSlotCounter]
            /\ kernel' = [kernel EXCEPT ![d] = k]
            /\ fSlotCounter' = fSlotCounter + 1
            /\ UNCHANGED trapped
       ELSE /\ trapped' = "outOfSlots"
            /\ UNCHANGED <<pc, index, kernel, fSlotCounter>>
  /\ UNCHANGED <<lists, fFreeCounter, tracks, held, host>>

(* NextSlot, second half: the read of fSlotList; the slot gets its track.  *)
NextSlotRead(d) ==
  /\ pc[d] = "allocating"
  /\ live' = live \cup {fSlotList[index[d]]}
  /\ Returns(d)
  /\ UNCHANGED <<lists, fSlotCounter, fFreeCounter, leaked, killed, host, trapped>>

(* MarkSlotForFreeing, first half: the transport kernel ends a live track, *)
(* the extraction kernel gives up a leaked one.                            *)
MarkFetch(d, k, s) ==
  /\ Starts(d, k)
  /\ \/ k = "transport" /\ s \in live
     \/ k = "extract" /\ s \in leaked
  /\ IF fFreeCounter < fFreeListSize
       THEN /\ pc' = [pc EXCEPT ![d] = "marking"]
            /\ index' = [index EXCEPT ![d] = fFreeCounter]
            /\ held' = [held EXCEPT ![d] = s]
            /\ kernel' = [kernel EXCEPT ![d] = k]
            /\ fFreeCounter' = fFreeCounter + 1
            /\ EndTrack(s)
            /\ UNCHANGED trapped
       ELSE /\ trapped' = "freeListFull"
            /\ UNCHANGED <<pc, index, held, kernel, fFreeCounter, live, leaked>>
  /\ UNCHANGED <<lists, fSlotCounter, killed, host>>

(* MarkSlotForFreeing, second half: the write into fToFreeList.            *)
MarkWrite(d) ==
  /\ pc[d] = "marking"
  /\ fToFreeList' = [fToFreeList EXCEPT ![index[d]] = held[d]]
  /\ Returns(d)
  /\ UNCHANGED <<fSlotList, fSlotCounter, fFreeCounter, tracks, host, trapped>>

(* survive(leak = true): the track moves to the leak queue with its slot.  *)
Leak(s) ==
  /\ "transport" \in running /\ s \in live
  /\ live' = live \ {s}
  /\ leaked' = leaked \cup {s}
  /\ UNCHANGED <<lists, fSlotCounter, fFreeCounter, killed, threads, host, trapped>>

(* A track over maxSteps, or a looper, is dropped by `continue`: it enters *)
(* no queue and its slot is not marked.                                    *)
Kill(s) ==
  /\ "transport" \in running /\ s \in live
  /\ live' = live \ {s}
  /\ killed' = killed \cup {s}
  /\ UNCHANGED <<lists, fSlotCounter, fFreeCounter, leaked, threads, host, trapped>>

-----------------------------------------------------------------------------
(* The host launches a kernel.  While a freeing is under way the streams   *)
(* wait for gpuState.stream, so the kernel starts after it.                *)
LaunchKernel(k) ==
  /\ k \notin running /\ freeing = "no"
  /\ running' = running \cup {k}
  /\ UNCHANGED <<lists, fSlotCounter, fFreeCounter, tracks, threads,
                 overHalf, freeing, trapped>>

(* A kernel ends when none of its threads is in the middle of anything.    *)
CompleteKernel(k) ==
  /\ k \in running
  /\ \A d \in Threads : pc[d] # "idle" => kernel[d] # k
  /\ running' = running \ {k}
  /\ UNCHANGED <<lists, fSlotCounter, fFreeCounter, tracks, threads,
                 overHalf, freeing, trapped>>

(* FinishIteration follows the transport kernels on gpuState.stream.       *)
FinishIteration ==
  /\ "transport" \notin running /\ freeing = "no"
  /\ overHalf' = (2 * fSlotCounter > fSlotListSize)
  /\ UNCHANGED <<lists, fSlotCounter, fFreeCounter, tracks, threads,
                 running, freeing, trapped>>

(* The host queues FreeSlots1 and FreeSlots2 when the fill level it knows, *)
(* which may be stale, is over one half and no injection creates slots.    *)
RequestFreeing ==
  /\ freeing = "no" /\ "inject" \notin running
  /\ overHalf
  /\ freeing' = "requested"
  /\ UNCHANGED <<lists, fSlotCounter, fFreeCounter, tracks, threads,
                 running, overHalf, trapped>>

(* FreeMarkedSlotsStage1: gpuState.stream has waited for the other streams *)
(* and the marked slots are copied to the top of the allocated part.       *)
FreeMarkedSlotsStage1 ==
  /\ freeing = "requested" /\ running = {}
  /\ IF fSlotCounter < fFreeCounter
       THEN /\ trapped' = "freedTooMany"
            /\ UNCHANGED <<fSlotList, freeing>>
       ELSE /\ fSlotList' = [i \in Slots |->
                              IF FreedFrom <= i /\ i < FreedFrom + fFreeCounter
                                THEN fToFreeList[i - FreedFrom]
                                ELSE fSlotList[i]]
            /\ freeing' = "copied"
            /\ UNCHANGED trapped
  /\ UNCHANGED <<fToFreeList, fSlotCounter, fFreeCounter, tracks, threads,
                 running, overHalf>>

(* Stage 2 without its first assignment.                                   *)
FreeMarkedSlotsStage2Mutant ==
  /\ freeing = "copied"
  /\ fFreeCounter' = 0
  /\ freeing' = "no"
  /\ UNCHANGED <<lists, fSlotCounter, tracks, threads, running, overHalf, trapped>>

(* FreeMarkedSlotsStage2: the counters step back over the freed slots.     *)
FreeMarkedSlotsStage2 ==
  /\ freeing = "copied"
  /\ fSlotCounter' = fSlotCounter - fFreeCounter
  /\ fFreeCounter' = 0
  /\ freeing' = "no"
  /\ UNCHANGED <<lists, tracks, threads, running, overHalf, trapped>>

(* InitSlotManagers at the start of a transport loop: no track is left.    *)
InitSlotManagers ==
  /\ running = {} /\ freeing = "no"
  /\ live = {} /\ leaked = {}
  /\ Cleared
  /\ killed' = {}
  /\ overHalf' = FALSE
  /\ UNCHANGED <<fToFreeList, live, leaked, threads, running, freeing, trapped>>

Next ==
  /\ trapped = "none"
  /\ \/ \E d \in Threads, k \in Kernels : NextSlotFetch(d, k)
     \/ \E d \in Threads : NextSlotRead(d)
     \/ \E d \in Threads, k \in Kernels, s \in Slots : MarkFetch(d, k, s)
     \/ \E d \in Threads : MarkWrite(d)
     \/ \E s \in Slots : Leak(s)
     \/ \E s \in Slots : Kill(s)
     \/ \E k \in Kernels : LaunchKernel(k)
     \/ \E k \in Kernels : CompleteKernel(k)
     \/ FinishIteration
     \/ RequestFreeing
     \/ FreeMarkedSlotsStage1
     \/ FreeMarkedSlotsStage2
     \/ InitSlotManagers

Spec == Init /\ [][Next]_vars

-----------------------------------------------------------------------------
(* Indices whose slot is free, or already claimed but not yet read.        *)
FreshIndices ==
  {i \in Slots : \/ i >= fSlotCounter
                \/ \E d \in Threads : pc[d] = "allocating" /\ index[d] = i}

(* Indices of the free list whose entry has been written.                  *)
Settled ==
  {i \in 0 .. fFreeListSize - 1 :
     i < fFreeCounter /\ \A d \in Threads : pc[d] = "marking" => index[d] # i}

Fresh   == {fSlotList[i] : i \in FreshIndices}
Marked  == {fToFreeList[i] : i \in Settled}
Marking == {held[d] : d \in {t \in Threads : pc[t] = "marking"}}
Owned   == live \cup leaked \cup killed

(* No slot is handed out while it holds a track, waits to be freed, or is  *)
(* about to be handed to somebody else: what NextSlot, MarkSlotForFreeing  *)
(* and the two freeing stages protect from each other.                     *)
NoSlotOwnedTwice ==
  /\ \A i, j \in FreshIndices : fSlotList[i] = fSlotList[j] => i = j
  /\ \A d, e \in Threads :
       pc[d] = "allocating" /\ pc[e] = "allocating" /\ index[d] = index[e] => d = e
  /\ \A i, j \in Settled : fToFreeList[i] = fToFreeList[j] => i = j
  /\ \A d, e \in Threads :
       pc[d] = "marking" /\ pc[e] = "marking" /\ held[d] = held[e] => d = e
  /\ Fresh \cap (Owned \cup Marked \cup Marking) = {}
  /\ Owned \cap (Marked \cup Marking) = {}
  /\ Marked \cap Marking = {}
  /\ live \cap leaked = {} /\ live \cap killed = {} /\ leaked \cap killed = {}

(* The free list never overflows and never outgrows what was allocated:    *)
(* the exceptions of MarkSlotForFreeing and FreeMarkedSlotsStage1 cannot   *)
(* be reached, only NextSlot's can.                                        *)
FreeingNeverOverdraws == trapped \in {"none", "outOfSlots"}

(* No slot drops out of the bookkeeping however allocations, markings and  *)
(* freeings alternate (a killed track's slot counts as its own).           *)
SlotsAreConserved == Slots = Fresh \cup Owned \cup Marked \cup Marking
=============================================================================
