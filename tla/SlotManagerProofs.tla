-------------------------- MODULE SlotManagerProofs --------------------------
(***************************************************************************)
(* Proofs about the slot manager, for every capacity and every set of      *)
(* device threads.                                                         *)
(*                                                                         *)
(* The invariant that is inductive ties the registers of the device        *)
(* threads to the two counters and to the running kernels, and says what   *)
(* the freeing has done so far.  NoSlotOwnedTwice and SlotsAreConserved    *)
(* are conjuncts of it.  That freeing never overdraws follows by counting: *)
(* a freeing that did would need more distinct slots than there are.       *)
(***************************************************************************)
EXTENDS SlotManager, FiniteSetTheorems, TLAPS

(* What the device threads hold agrees with the counters and the kernels.  *)
ThreadsAgree ==
  /\ \A d \in Threads : pc[d] = "allocating" => index[d] < fSlotCounter
  /\ \A d \in Threads : pc[d] = "marking" => index[d] < fFreeCounter
  /\ \A d, e \in Threads :
       pc[d] = "marking" /\ pc[e] = "marking" /\ index[d] = index[e] => d = e
  /\ \A d \in Threads : pc[d] # "idle" => kernel[d] \in running

(* Between the two stages the marked slots are already in the slot list.   *)
StageOneDone ==
  freeing = "copied" =>
    /\ running = {}
    /\ fFreeCounter <= fSlotCounter
    /\ \A i \in 0 .. fFreeCounter - 1 : fSlotList[FreedFrom + i] = fToFreeList[i]

IndInv == TypeOK /\ NoSlotOwnedTwice /\ SlotsAreConserved /\ ThreadsAgree /\ StageOneDone

-----------------------------------------------------------------------------
(* The initial state.                                                      *)
LEMMA InitIndInv == Init => IndInv
<1> SUFFICES ASSUME Init PROVE IndInv
  OBVIOUS
<1> USE SizeAssumption DEF Init, Slots
<1>1. fSlotList \in [Slots -> Slots] /\ fToFreeList \in [0 .. fFreeListSize - 1 -> Slots]
  OBVIOUS
<1>2. fSlotCounter \in 0 .. fSlotListSize /\ fFreeCounter \in 0 .. fFreeListSize
  OBVIOUS
<1>3. index \in [Threads -> Slots] /\ held \in [Threads -> Slots]
  OBVIOUS
<1>4. TypeOK
  BY <1>1, <1>2, <1>3 DEF TypeOK, Kernels, Traps
<1>5. FreshIndices = Slots /\ Settled = {} /\ Marked = {} /\ Marking = {} /\ Owned = {}
  BY DEF FreshIndices, Settled, Marked, Marking, Owned
<1>6. NoSlotOwnedTwice
  BY <1>5 DEF NoSlotOwnedTwice, Fresh
<1>7. SlotsAreConserved
  BY <1>5 DEF SlotsAreConserved, Fresh
<1>8. ThreadsAgree /\ StageOneDone
  BY DEF ThreadsAgree, StageOneDone
<1>9. QED
  BY <1>4, <1>6, <1>7, <1>8 DEF IndInv

(* A step that changes neither the lists nor their counters nor a register *)
(* leaves every set of slots as it is.                                     *)
LEMMA SameBookkeeping ==
  ASSUME UNCHANGED <<fSlotList, fToFreeList, fSlotCounter, fFreeCounter, pc, index, held>>
  PROVE  /\ FreshIndices' = FreshIndices /\ Settled' = Settled
         /\ Fresh' = Fresh /\ Marked' = Marked /\ Marking' = Marking
<1>1. FreshIndices' = FreshIndices
  BY DEF FreshIndices
<1>2. Settled' = Settled
  BY DEF Settled
<1>3. Marking' = Marking
  BY DEF Marking
<1>4. QED
  BY <1>1, <1>2, <1>3 DEF Fresh, Marked

(* A step that moves live tracks only between the sets of owned slots.     *)
LEMMA SameOwnership ==
  ASSUME NoSlotOwnedTwice, SlotsAreConserved, Owned' = Owned,
         (live \cap leaked = {} /\ live \cap killed = {} /\ leaked \cap killed = {})',
         UNCHANGED <<fSlotList, fToFreeList, fSlotCounter, fFreeCounter, pc, index, held>>
  PROVE  NoSlotOwnedTwice' /\ SlotsAreConserved'
<1>1. /\ FreshIndices' = FreshIndices /\ Settled' = Settled
      /\ Fresh' = Fresh /\ Marked' = Marked /\ Marking' = Marking
  BY SameBookkeeping
<1>2. NoSlotOwnedTwice'
  BY <1>1 DEF NoSlotOwnedTwice
<1>3. SlotsAreConserved'
  BY <1>1 DEF SlotsAreConserved
<1>4. QED
  BY <1>2, <1>3

(* A step that stops the device, or only launches, ends or observes.       *)
LEMMA SameLists ==
  ASSUME IndInv, UNCHANGED <<lists, fSlotCounter, fFreeCounter, tracks, threads>>,
         running' \in SUBSET Kernels, overHalf' \in BOOLEAN, trapped' \in Traps,
         freeing' \in {"no", "requested"} \/ UNCHANGED <<freeing, running>>,
         \A d \in Threads : pc[d] # "idle" => kernel[d] \in running'
  PROVE  IndInv'
<1>1. UNCHANGED <<fSlotList, fToFreeList, fSlotCounter, fFreeCounter, live, leaked, killed,
                  pc, index, held, kernel>>
  BY DEF lists, tracks, threads
<1>2. TypeOK'
  BY <1>1 DEF IndInv, TypeOK
<1>3. NoSlotOwnedTwice' /\ SlotsAreConserved'
  <2>1. Owned' = Owned
    BY <1>1 DEF Owned
  <2>2. QED
    BY <1>1, <2>1, SameOwnership DEF IndInv, NoSlotOwnedTwice
<1>4. ThreadsAgree'
  BY <1>1 DEF IndInv, ThreadsAgree
<1>5. StageOneDone'
  BY <1>1 DEF IndInv, StageOneDone, FreedFrom
<1>6. QED
  BY <1>2, <1>3, <1>4, <1>5 DEF IndInv

-----------------------------------------------------------------------------
(* NextSlot's atomicAdd: an index leaves the free part of the list and     *)
(* becomes the claim of one thread, so the same slots stay fresh.          *)
LEMMA NextSlotFetchStep ==
  ASSUME IndInv, NEW d \in Threads, NEW k \in Kernels, NextSlotFetch(d, k)
  PROVE  IndInv'
<1>1. TypeOK /\ ThreadsAgree /\ NoSlotOwnedTwice
  BY DEF IndInv
<1>2. CASE ~ SlotAvailable
  <2>1. /\ UNCHANGED <<lists, fSlotCounter, fFreeCounter, tracks, threads, running, overHalf, freeing>>
        /\ trapped' \in Traps
    BY <1>2 DEF NextSlotFetch, threads, host, Traps
  <2>2. QED
    BY <1>1, <2>1, SameLists DEF TypeOK, ThreadsAgree
<1>3. CASE SlotAvailable
  <2>1. /\ fSlotCounter < fSlotListSize /\ pc[d] = "idle" /\ k \in running
        /\ fSlotCounter' = fSlotCounter + 1
        /\ index' = [index EXCEPT ![d] = fSlotCounter]
        /\ pc' = [pc EXCEPT ![d] = "allocating"]
        /\ kernel' = [kernel EXCEPT ![d] = k]
        /\ UNCHANGED <<fSlotList, fToFreeList, fFreeCounter, live, leaked, killed, held,
                       running, overHalf, freeing, trapped>>
    BY <1>3 DEF NextSlotFetch, SlotAvailable, Starts, lists, tracks, host
  <2>2. /\ pc'[d] = "allocating" /\ index'[d] = fSlotCounter /\ kernel'[d] = k
        /\ \A e \in Threads : e # d =>
             pc'[e] = pc[e] /\ index'[e] = index[e] /\ kernel'[e] = kernel[e]
    BY <1>1, <2>1 DEF TypeOK
  <2>3. fSlotCounter \in Slots /\ fFreeCounter \in Int /\ \A e \in Threads : index[e] \in Int
    BY <1>1, <2>1, SizeAssumption DEF TypeOK, Slots
  <2>4. TypeOK'
    <3>1. fSlotCounter' \in 0 .. fSlotListSize
      BY <1>1, <2>1, SizeAssumption DEF TypeOK
    <3>2. /\ pc' \in [Threads -> {"idle", "allocating", "marking"}]
          /\ kernel' \in [Threads -> Kernels]
      BY <1>1, <2>1 DEF TypeOK
    <3>3. index' \in [Threads -> Slots]
      BY <1>1, <2>1, <2>3 DEF TypeOK
    <3>4. QED
      BY <1>1, <2>1, <3>1, <3>2, <3>3 DEF TypeOK
  <2>5. FreshIndices' = FreshIndices
    <3>1. ASSUME NEW i \in Slots
          PROVE  (\E e \in Threads : pc'[e] = "allocating" /\ index'[e] = i)
                   <=> i = fSlotCounter \/ \E e \in Threads : pc[e] = "allocating" /\ index[e] = i
      BY <2>1, <2>2
    <3>2. \A i \in Slots : i >= fSlotCounter <=> i = fSlotCounter \/ i >= fSlotCounter'
      BY <2>1, <2>3, SizeAssumption DEF Slots
    <3>3. QED
      BY <3>1, <3>2 DEF FreshIndices
  <2>6. Settled' = Settled
    BY <2>1, <2>2 DEF Settled
  <2>7. Marking' = Marking
    BY <2>1, <2>2 DEF Marking
  <2>8. Fresh' = Fresh /\ Marked' = Marked /\ Owned' = Owned
    BY <2>1, <2>5, <2>6 DEF Fresh, Marked, Owned
  <2>9. NoSlotOwnedTwice'
    <3>1. \A a, b \in Threads :
            pc'[a] = "allocating" /\ pc'[b] = "allocating" /\ index'[a] = index'[b] => a = b
      <4>1. \A a \in Threads : pc[a] = "allocating" => index[a] # fSlotCounter
        BY <1>1, <2>3, SizeAssumption DEF ThreadsAgree, Slots
      <4>2. \A a \in Threads : a # d /\ pc'[a] = "allocating" => index'[a] # index'[d]
        BY <2>2, <4>1
      <4>3. \A a, b \in Threads : a # d /\ b # d /\ pc'[a] = "allocating" /\ pc'[b] = "allocating"
                                   /\ index'[a] = index'[b] => a = b
        BY <1>1, <2>2 DEF NoSlotOwnedTwice
      <4>4. QED
        BY <4>2, <4>3
    <3>2. \A a, b \in Threads :
            pc'[a] = "marking" /\ pc'[b] = "marking" /\ held'[a] = held'[b] => a = b
      BY <1>1, <2>1, <2>2 DEF NoSlotOwnedTwice
    <3>3. QED
      BY <1>1, <2>1, <2>5, <2>6, <2>7, <2>8, <3>1, <3>2 DEF NoSlotOwnedTwice
  <2>10. SlotsAreConserved'
    BY <2>7, <2>8 DEF IndInv, SlotsAreConserved
  <2>11. ThreadsAgree'
    BY <1>1, <2>1, <2>2, <2>3, SizeAssumption DEF ThreadsAgree, Slots
  <2>12. StageOneDone'
    BY <1>1, <2>1 DEF IndInv, StageOneDone
  <2>13. QED
    BY <2>4, <2>9, <2>10, <2>11, <2>12 DEF IndInv
<1>4. QED
  BY <1>2, <1>3

(* The registers of an idle thread have their types.                       *)
LEMMA IdleRegisters ==
  ASSUME TypeOK, NEW d \in Threads
  PROVE  /\ [pc EXCEPT ![d] = "idle"] \in [Threads -> {"idle", "allocating", "marking"}]
         /\ [index EXCEPT ![d] = 0] \in [Threads -> Slots]
         /\ [held EXCEPT ![d] = 0] \in [Threads -> Slots]
         /\ [kernel EXCEPT ![d] = "transport"] \in [Threads -> Kernels]
<1>1. 0 \in Slots /\ "transport" \in Kernels
  BY SizeAssumption DEF Slots, Kernels
<1>2. QED
  BY <1>1 DEF TypeOK

(* NextSlot's read: the claimed slot stops being fresh and gets a track.   *)
LEMMA NextSlotReadStep ==
  ASSUME IndInv, NEW d \in Threads, NextSlotRead(d)
  PROVE  IndInv'
<1>1. TypeOK /\ ThreadsAgree /\ NoSlotOwnedTwice
  BY DEF IndInv
<1> DEFINE s == fSlotList[index[d]]
<1>2. /\ pc[d] = "allocating" /\ live' = live \cup {s}
      /\ pc' = [pc EXCEPT ![d] = "idle"]
      /\ index' = [index EXCEPT ![d] = 0]
      /\ held' = [held EXCEPT ![d] = 0]
      /\ kernel' = [kernel EXCEPT ![d] = "transport"]
      /\ UNCHANGED <<fSlotList, fToFreeList, fSlotCounter, fFreeCounter, leaked, killed,
                     running, overHalf, freeing, trapped>>
  BY DEF NextSlotRead, Returns, lists, host
<1>3. /\ pc'[d] = "idle"
      /\ \A e \in Threads : e # d =>
           pc'[e] = pc[e] /\ index'[e] = index[e] /\ held'[e] = held[e] /\ kernel'[e] = kernel[e]
  BY <1>1, <1>2 DEF TypeOK
<1>4. index[d] \in FreshIndices /\ s \in Fresh /\ s \in Slots
  BY <1>1, <1>2 DEF TypeOK, FreshIndices, Fresh
<1>5. TypeOK'
  BY <1>1, <1>2, <1>4, IdleRegisters DEF TypeOK
<1>6. FreshIndices' = FreshIndices \ {index[d]}
  <2>1. index[d] < fSlotCounter /\ fSlotCounter \in Int /\ index[d] \in Int
    BY <1>1, <1>2, SizeAssumption DEF ThreadsAgree, TypeOK, Slots
  <2>2. \A e \in Threads : pc[e] = "allocating" /\ e # d => index[e] # index[d]
    BY <1>1, <1>2 DEF NoSlotOwnedTwice
  <2>3. QED
    BY <1>2, <1>3, <2>1, <2>2 DEF FreshIndices
<1>7. Settled' = Settled
  BY <1>2, <1>3 DEF Settled
<1>8. Marking' = Marking
  BY <1>2, <1>3 DEF Marking
<1>9. Marked' = Marked /\ Owned' = Owned \cup {s}
  BY <1>2, <1>7 DEF Marked, Owned
<1>10. Fresh' = Fresh \ {s}
  <2>1. \A i \in FreshIndices : fSlotList[i] = s => i = index[d]
    BY <1>1, <1>4 DEF NoSlotOwnedTwice
  <2>2. Fresh' = {fSlotList[i] : i \in FreshIndices'}
    BY <1>2 DEF Fresh
  <2>3. QED
    BY <1>6, <2>1, <2>2 DEF Fresh
<1>11. NoSlotOwnedTwice'
  <2>1. \A a, b \in Threads :
          pc'[a] = "allocating" /\ pc'[b] = "allocating" /\ index'[a] = index'[b] => a = b
    BY <1>1, <1>3 DEF NoSlotOwnedTwice
  <2>2. \A a, b \in Threads :
          pc'[a] = "marking" /\ pc'[b] = "marking" /\ held'[a] = held'[b] => a = b
    BY <1>1, <1>3 DEF NoSlotOwnedTwice
  <2>3. (live \cap leaked = {} /\ live \cap killed = {} /\ leaked \cap killed = {})'
    BY <1>1, <1>2, <1>4 DEF NoSlotOwnedTwice, Owned
  <2>4. (Fresh \cap (Owned \cup Marked \cup Marking) = {} /\ Owned \cap (Marked \cup Marking) = {})'
    BY <1>1, <1>4, <1>8, <1>9, <1>10 DEF NoSlotOwnedTwice
  <2>5. QED
    BY <1>1, <1>2, <1>6, <1>7, <1>8, <1>9, <2>1, <2>2, <2>3, <2>4 DEF NoSlotOwnedTwice
<1>12. SlotsAreConserved'
  BY <1>4, <1>8, <1>9, <1>10 DEF IndInv, SlotsAreConserved
<1>13. ThreadsAgree'
  BY <1>1, <1>2, <1>3 DEF ThreadsAgree
<1>14. StageOneDone'
  BY <1>1, <1>2 DEF IndInv, StageOneDone, FreedFrom
<1>15. QED
  BY <1>5, <1>11, <1>12, <1>13, <1>14 DEF IndInv

-----------------------------------------------------------------------------
(* MarkSlotForFreeing's atomicAdd: the slot passes from its track to the   *)
(* thread that is going to write it down.                                  *)
LEMMA MarkFetchStep ==
  ASSUME IndInv, NEW d \in Threads, NEW k \in Kernels, NEW s \in Slots, MarkFetch(d, k, s)
  PROVE  IndInv'
<1>1. TypeOK /\ ThreadsAgree /\ NoSlotOwnedTwice
  BY DEF IndInv
<1>2. CASE ~ (fFreeCounter < fFreeListSize)
  <2>1. /\ UNCHANGED <<lists, fSlotCounter, fFreeCounter, tracks, threads, running, overHalf, freeing>>
        /\ trapped' \in Traps
    BY <1>2 DEF MarkFetch, threads, tracks, host, Traps
  <2>2. QED
    BY <1>1, <2>1, SameLists DEF TypeOK, ThreadsAgree
<1>3. CASE fFreeCounter < fFreeListSize
  <2>1. /\ pc[d] = "idle" /\ k \in running /\ s \in live \cup leaked
        /\ pc' = [pc EXCEPT ![d] = "marking"]
        /\ index' = [index EXCEPT ![d] = fFreeCounter]
        /\ held' = [held EXCEPT ![d] = s]
        /\ kernel' = [kernel EXCEPT ![d] = k]
        /\ fFreeCounter' = fFreeCounter + 1
        /\ live' = live \ {s} /\ leaked' = leaked \ {s}
        /\ UNCHANGED <<fSlotList, fToFreeList, fSlotCounter, killed,
                       running, overHalf, freeing, trapped>>
    BY <1>3 DEF MarkFetch, EndTrack, Starts, lists, host
  <2>2. /\ pc'[d] = "marking" /\ index'[d] = fFreeCounter /\ held'[d] = s /\ kernel'[d] = k
        /\ \A e \in Threads : e # d =>
             pc'[e] = pc[e] /\ index'[e] = index[e] /\ held'[e] = held[e] /\ kernel'[e] = kernel[e]
    BY <1>1, <2>1 DEF TypeOK
  <2>3. /\ fFreeCounter \in Slots /\ fFreeCounter \in Int /\ fSlotCounter \in Int
        /\ \A e \in Threads : index[e] \in Int
    BY <1>1, <1>3, SizeAssumption DEF TypeOK, Slots
  <2>4. TypeOK'
    <3>1. fFreeCounter' \in 0 .. fFreeListSize
      BY <1>1, <1>3, <2>1, SizeAssumption DEF TypeOK
    <3>2. /\ pc' \in [Threads -> {"idle", "allocating", "marking"}]
          /\ kernel' \in [Threads -> Kernels]
      BY <1>1, <2>1 DEF TypeOK
    <3>3. index' \in [Threads -> Slots] /\ held' \in [Threads -> Slots]
      BY <1>1, <2>1, <2>3 DEF TypeOK
    <3>4. QED
      BY <1>1, <2>1, <3>1, <3>2, <3>3 DEF TypeOK
  <2>5. FreshIndices' = FreshIndices
    BY <2>1, <2>2 DEF FreshIndices
  <2>6. Settled' = Settled
    <3>1. \A i \in 0 .. fFreeListSize - 1 :
            i < fFreeCounter' /\ i # fFreeCounter <=> i < fFreeCounter
      BY <2>1, <2>3, SizeAssumption
    <3>2. ASSUME NEW i
          PROVE  (\A e \in Threads : pc'[e] = "marking" => index'[e] # i)
                   <=> i # fFreeCounter /\ \A e \in Threads : pc[e] = "marking" => index[e] # i
      BY <2>1, <2>2
    <3>3. QED
      BY <3>1, <3>2 DEF Settled
  <2>7. Marking' = Marking \cup {s}
    BY <2>1, <2>2 DEF Marking
  <2>8. Fresh' = Fresh /\ Marked' = Marked
    BY <2>1, <2>5, <2>6 DEF Fresh, Marked
  <2>9. s \in Owned /\ Owned' = Owned \ {s}
    BY <1>1, <2>1 DEF Owned, NoSlotOwnedTwice
  <2>10. NoSlotOwnedTwice'
    <3>1. \A a, b \in Threads :
            pc'[a] = "allocating" /\ pc'[b] = "allocating" /\ index'[a] = index'[b] => a = b
      BY <1>1, <2>1, <2>2 DEF NoSlotOwnedTwice
    <3>2. \A a, b \in Threads :
            pc'[a] = "marking" /\ pc'[b] = "marking" /\ held'[a] = held'[b] => a = b
      <4>1. \A a \in Threads : pc[a] = "marking" => held[a] # s
        BY <1>1, <2>9 DEF NoSlotOwnedTwice, Marking
      <4>2. QED
        BY <1>1, <2>1, <2>2, <4>1 DEF NoSlotOwnedTwice
    <3>3. (live \cap leaked = {} /\ live \cap killed = {} /\ leaked \cap killed = {})'
      BY <1>1, <2>1 DEF NoSlotOwnedTwice
    <3>4. (/\ Fresh \cap (Owned \cup Marked \cup Marking) = {}
           /\ Owned \cap (Marked \cup Marking) = {} /\ Marked \cap Marking = {})'
      BY <1>1, <2>7, <2>8, <2>9 DEF NoSlotOwnedTwice
    <3>5. QED
      BY <1>1, <2>1, <2>5, <2>6, <3>1, <3>2, <3>3, <3>4 DEF NoSlotOwnedTwice
  <2>11. SlotsAreConserved'
    BY <2>7, <2>8, <2>9 DEF IndInv, SlotsAreConserved
  <2>12. ThreadsAgree'
    <3>1. \A e \in Threads : pc'[e] = "marking" => index'[e] < fFreeCounter'
      BY <1>1, <2>1, <2>2, <2>3 DEF ThreadsAgree
    <3>2. \A a, b \in Threads :
            pc'[a] = "marking" /\ pc'[b] = "marking" /\ index'[a] = index'[b] => a = b
      <4>1. \A a \in Threads : pc[a] = "marking" => index[a] # fFreeCounter
        BY <1>1, <2>3 DEF ThreadsAgree
      <4>2. \A a \in Threads : a # d /\ pc'[a] = "marking" => index'[a] # index'[d]
        BY <2>2, <4>1
      <4>3. \A a, b \in Threads : a # d /\ b # d /\ pc'[a] = "marking" /\ pc'[b] = "marking"
                                   /\ index'[a] = index'[b] => a = b
        BY <1>1, <2>2 DEF ThreadsAgree
      <4>4. QED
        BY <4>2, <4>3
    <3>3. QED
      BY <1>1, <2>1, <2>2, <3>1, <3>2 DEF ThreadsAgree
  <2>13. StageOneDone'
    BY <2>1 DEF IndInv, StageOneDone
  <2>14. QED
    BY <2>4, <2>10, <2>11, <2>12, <2>13 DEF IndInv
<1>4. QED
  BY <1>2, <1>3

(* MarkSlotForFreeing's write: the slot passes to the free list.           *)
LEMMA MarkWriteStep ==
  ASSUME IndInv, NEW d \in Threads, MarkWrite(d)
  PROVE  IndInv'
<1>1. TypeOK /\ ThreadsAgree /\ NoSlotOwnedTwice
  BY DEF IndInv
<1>2. /\ pc[d] = "marking"
      /\ fToFreeList' = [fToFreeList EXCEPT ![index[d]] = held[d]]
      /\ pc' = [pc EXCEPT ![d] = "idle"]
      /\ index' = [index EXCEPT ![d] = 0]
      /\ held' = [held EXCEPT ![d] = 0]
      /\ kernel' = [kernel EXCEPT ![d] = "transport"]
      /\ UNCHANGED <<fSlotList, fSlotCounter, fFreeCounter, live, leaked, killed,
                     running, overHalf, freeing, trapped>>
  BY DEF MarkWrite, Returns, tracks, host
<1>3. /\ pc'[d] = "idle"
      /\ \A e \in Threads : e # d =>
           pc'[e] = pc[e] /\ index'[e] = index[e] /\ held'[e] = held[e] /\ kernel'[e] = kernel[e]
  BY <1>1, <1>2 DEF TypeOK
<1>4. /\ held[d] \in Slots /\ held[d] \in Marking
      /\ index[d] \in 0 .. fFreeListSize - 1 /\ index[d] < fFreeCounter
  BY <1>1, <1>2, SizeAssumption DEF TypeOK, Slots, Marking, ThreadsAgree
<1>5. TypeOK'
  <2>1. fToFreeList' \in [0 .. fFreeListSize - 1 -> Slots]
    BY <1>1, <1>2, <1>4 DEF TypeOK
  <2>2. QED
    BY <1>1, <1>2, <2>1, IdleRegisters DEF TypeOK
<1>6. FreshIndices' = FreshIndices
  BY <1>2, <1>3 DEF FreshIndices
<1>7. Settled' = Settled \cup {index[d]} /\ index[d] \notin Settled
  <2>1. \A e \in Threads : pc[e] = "marking" /\ e # d => index[e] # index[d]
    BY <1>1, <1>2 DEF ThreadsAgree
  <2>2. ASSUME NEW i
        PROVE  (\A e \in Threads : pc'[e] = "marking" => index'[e] # i)
                 <=> i = index[d] \/ \A e \in Threads : pc[e] = "marking" => index[e] # i
    BY <1>2, <1>3, <2>1
  <2>3. QED
    BY <1>2, <1>4, <2>2 DEF Settled
<1>8. Marking' = Marking \ {held[d]}
  <2>1. \A e \in Threads : pc[e] = "marking" /\ e # d => held[e] # held[d]
    BY <1>1, <1>2 DEF NoSlotOwnedTwice
  <2>2. QED
    BY <1>2, <1>3, <2>1 DEF Marking
<1>9. fToFreeList'[index[d]] = held[d] /\ \A i \in Settled : fToFreeList'[i] = fToFreeList[i]
  BY <1>1, <1>2, <1>4, <1>7 DEF TypeOK, Settled
<1>10. Marked' = Marked \cup {held[d]}
  BY <1>7, <1>9 DEF Marked
<1>11. Fresh' = Fresh /\ Owned' = Owned
  BY <1>2, <1>6 DEF Fresh, Owned
<1>12. NoSlotOwnedTwice'
  <2>1. \A a, b \in Threads :
          pc'[a] = "allocating" /\ pc'[b] = "allocating" /\ index'[a] = index'[b] => a = b
    BY <1>1, <1>3 DEF NoSlotOwnedTwice
  <2>2. \A a, b \in Threads :
          pc'[a] = "marking" /\ pc'[b] = "marking" /\ held'[a] = held'[b] => a = b
    BY <1>1, <1>3 DEF NoSlotOwnedTwice
  <2>3. \A i, j \in Settled' : fToFreeList'[i] = fToFreeList'[j] => i = j
    <3>1. \A i \in Settled : fToFreeList[i] # held[d]
      BY <1>1, <1>4 DEF NoSlotOwnedTwice, Marked
    <3>2. QED
      BY <1>1, <1>7, <1>9, <3>1 DEF NoSlotOwnedTwice
  <2>4. (/\ Fresh \cap (Owned \cup Marked \cup Marking) = {}
         /\ Owned \cap (Marked \cup Marking) = {} /\ Marked \cap Marking = {})'
    BY <1>1, <1>4, <1>8, <1>10, <1>11 DEF NoSlotOwnedTwice
  <2>5. QED
    BY <1>1, <1>2, <1>6, <2>1, <2>2, <2>3, <2>4 DEF NoSlotOwnedTwice
<1>13. SlotsAreConserved'
  BY <1>4, <1>8, <1>10, <1>11 DEF IndInv, SlotsAreConserved
<1>14. ThreadsAgree'
  BY <1>1, <1>2, <1>3 DEF ThreadsAgree
<1>15. StageOneDone'
  <2>1. freeing # "copied"
    BY <1>1, <1>2 DEF IndInv, StageOneDone, ThreadsAgree
  <2>2. QED
    BY <1>2, <2>1 DEF StageOneDone
<1>16. QED
  BY <1>5, <1>12, <1>13, <1>14, <1>15 DEF IndInv

-----------------------------------------------------------------------------
(* Leaking and killing move a slot between the three sets of owned slots.  *)
LEMMA LeakStep ==
  ASSUME IndInv, NEW s \in Slots, Leak(s)
  PROVE  IndInv'
<1>1. /\ s \in live /\ live' = live \ {s} /\ leaked' = leaked \cup {s}
      /\ UNCHANGED <<fSlotList, fToFreeList, fSlotCounter, fFreeCounter, killed,
                     pc, index, held, kernel, running, overHalf, freeing, trapped>>
  BY DEF Leak, lists, threads, host
<1>2. TypeOK'
  BY <1>1 DEF IndInv, TypeOK
<1>3. Owned' = Owned /\ (live \cap leaked = {} /\ live \cap killed = {} /\ leaked \cap killed = {})'
  BY <1>1 DEF IndInv, NoSlotOwnedTwice, Owned
<1>4. NoSlotOwnedTwice' /\ SlotsAreConserved'
  BY <1>1, <1>3, SameOwnership DEF IndInv
<1>5. ThreadsAgree' /\ StageOneDone'
  BY <1>1 DEF IndInv, ThreadsAgree, StageOneDone, FreedFrom
<1>6. QED
  BY <1>2, <1>4, <1>5 DEF IndInv

LEMMA KillStep ==
  ASSUME IndInv, NEW s \in Slots, Kill(s)
  PROVE  IndInv'
<1>1. /\ s \in live /\ live' = live \ {s} /\ killed' = killed \cup {s}
      /\ UNCHANGED <<fSlotList, fToFreeList, fSlotCounter, fFreeCounter, leaked,
                     pc, index, held, kernel, running, overHalf, freeing, trapped>>
  BY DEF Kill, lists, threads, host
<1>2. TypeOK'
  BY <1>1 DEF IndInv, TypeOK
<1>3. Owned' = Owned /\ (live \cap leaked = {} /\ live \cap killed = {} /\ leaked \cap killed = {})'
  BY <1>1 DEF IndInv, NoSlotOwnedTwice, Owned
<1>4. NoSlotOwnedTwice' /\ SlotsAreConserved'
  BY <1>1, <1>3, SameOwnership DEF IndInv
<1>5. ThreadsAgree' /\ StageOneDone'
  BY <1>1 DEF IndInv, ThreadsAgree, StageOneDone, FreedFrom
<1>6. QED
  BY <1>2, <1>4, <1>5 DEF IndInv

(* The host's launches, completions and observations touch no list.        *)
LEMMA LaunchKernelStep ==
  ASSUME IndInv, NEW k \in Kernels, LaunchKernel(k)
  PROVE  IndInv'
<1>1. /\ UNCHANGED <<lists, fSlotCounter, fFreeCounter, tracks, threads>>
      /\ running' = running \cup {k} /\ overHalf' = overHalf /\ trapped' = trapped
      /\ freeing = "no" /\ freeing' = freeing
  BY DEF LaunchKernel
<1>2. running' \in SUBSET Kernels /\ \A d \in Threads : pc[d] # "idle" => kernel[d] \in running'
  BY <1>1 DEF IndInv, TypeOK, ThreadsAgree
<1>3. QED
  BY <1>1, <1>2, SameLists DEF IndInv, TypeOK

LEMMA CompleteKernelStep ==
  ASSUME IndInv, NEW k \in Kernels, CompleteKernel(k)
  PROVE  IndInv'
<1>1. /\ UNCHANGED <<lists, fSlotCounter, fFreeCounter, tracks, threads>>
      /\ running' = running \ {k} /\ overHalf' = overHalf /\ trapped' = trapped
      /\ k \in running /\ freeing' = freeing
  BY DEF CompleteKernel
<1>2. freeing' \in {"no", "requested"}
  BY <1>1 DEF IndInv, TypeOK, StageOneDone
<1>3. running' \in SUBSET Kernels /\ \A d \in Threads : pc[d] # "idle" => kernel[d] \in running'
  BY <1>1 DEF IndInv, TypeOK, ThreadsAgree, CompleteKernel
<1>4. QED
  BY <1>1, <1>2, <1>3, SameLists DEF IndInv, TypeOK

LEMMA FinishIterationStep ==
  ASSUME IndInv, FinishIteration
  PROVE  IndInv'
<1>1. /\ UNCHANGED <<lists, fSlotCounter, fFreeCounter, tracks, threads, running, freeing>>
      /\ overHalf' \in BOOLEAN /\ trapped' = trapped
  BY DEF FinishIteration
<1>2. QED
  BY <1>1, SameLists DEF IndInv, TypeOK, ThreadsAgree

LEMMA RequestFreeingStep ==
  ASSUME IndInv, RequestFreeing
  PROVE  IndInv'
<1>1. /\ UNCHANGED <<lists, fSlotCounter, fFreeCounter, tracks, threads, running, overHalf>>
      /\ freeing' = "requested" /\ trapped' = trapped
  BY DEF RequestFreeing
<1>2. QED
  BY <1>1, SameLists DEF IndInv, TypeOK, ThreadsAgree

-----------------------------------------------------------------------------
(* With no kernel running every device thread is idle.                     *)
LEMMA AllIdle ==
  ASSUME TypeOK, ThreadsAgree, running = {}
  PROVE  /\ \A d \in Threads : pc[d] = "idle"
         /\ FreshIndices = {i \in Slots : i >= fSlotCounter}
         /\ Settled = {i \in 0 .. fFreeListSize - 1 : i < fFreeCounter}
         /\ Marking = {}
<1>1. \A d \in Threads : pc[d] = "idle"
  BY DEF ThreadsAgree
<1>2. QED
  BY <1>1 DEF FreshIndices, Settled, Marking

(* FreeMarkedSlotsStage1 writes below the slot counter only, where no slot *)
(* is fresh: what is fresh does not change.                                *)
LEMMA Stage1Step ==
  ASSUME IndInv, FreeMarkedSlotsStage1
  PROVE  IndInv'
<1>1. TypeOK /\ ThreadsAgree /\ NoSlotOwnedTwice
  BY DEF IndInv
<1>2. CASE fSlotCounter < fFreeCounter
  <2>1. /\ UNCHANGED <<lists, fSlotCounter, fFreeCounter, tracks, threads, running, overHalf, freeing>>
        /\ trapped' \in Traps
    BY <1>2 DEF FreeMarkedSlotsStage1, lists, Traps
  <2>2. QED
    BY <1>1, <2>1, SameLists DEF TypeOK, ThreadsAgree
<1>3. CASE ~ (fSlotCounter < fFreeCounter)
  <2>1. /\ running = {} /\ freeing' = "copied"
        /\ fSlotList' = [i \in Slots |->
                           IF FreedFrom <= i /\ i < FreedFrom + fFreeCounter
                             THEN fToFreeList[i - FreedFrom]
                             ELSE fSlotList[i]]
        /\ UNCHANGED <<fToFreeList, fSlotCounter, fFreeCounter, live, leaked, killed,
                       pc, index, held, kernel, running, overHalf, trapped>>
    BY <1>3 DEF FreeMarkedSlotsStage1, tracks, threads
  <2>2. /\ fSlotCounter \in 0 .. fSlotListSize /\ fFreeCounter \in 0 .. fSlotListSize
        /\ fFreeCounter <= fSlotCounter /\ fSlotListSize \in Nat
    BY <1>1, <1>3, SizeAssumption DEF TypeOK
  <2>3. TypeOK'
    <3>1. \A i \in Slots : FreedFrom <= i /\ i < FreedFrom + fFreeCounter =>
            i - FreedFrom \in 0 .. fFreeListSize - 1
      BY <2>2, SizeAssumption DEF FreedFrom, Slots
    <3>2. fSlotList' \in [Slots -> Slots]
      BY <1>1, <2>1, <3>1 DEF TypeOK
    <3>3. QED
      BY <1>1, <2>1, <3>2 DEF TypeOK
  <2>4. FreshIndices' = FreshIndices /\ Settled' = Settled /\ Marking' = Marking
    BY <2>1 DEF FreshIndices, Settled, Marking
  <2>5. \A i \in FreshIndices : fSlotList'[i] = fSlotList[i]
    <3>1. \A i \in FreshIndices : i \in Slots /\ i >= fSlotCounter
      BY <1>1, <2>1, AllIdle
    <3>2. \A i \in FreshIndices : ~ (i < FreedFrom + fFreeCounter)
      BY <2>2, <3>1 DEF FreedFrom, Slots
    <3>3. QED
      BY <2>1, <3>1, <3>2
  <2>6. Fresh' = Fresh
    BY <2>4, <2>5 DEF Fresh
  <2>7. Marked' = Marked /\ Owned' = Owned
    BY <2>1, <2>4 DEF Marked, Owned
  <2>8. NoSlotOwnedTwice'
    BY <1>1, <2>1, <2>4, <2>5, <2>6, <2>7 DEF NoSlotOwnedTwice
  <2>9. SlotsAreConserved'
    BY <2>4, <2>6, <2>7 DEF IndInv, SlotsAreConserved
  <2>10. ThreadsAgree'
    BY <1>1, <2>1 DEF ThreadsAgree
  <2>11. StageOneDone'
    <3>1. FreedFrom' = FreedFrom
      BY <2>1 DEF FreedFrom
    <3>2. ASSUME NEW i \in 0 .. fFreeCounter - 1
          PROVE  fSlotList'[FreedFrom + i] = fToFreeList[i]
      <4>1. /\ FreedFrom + i \in Slots /\ FreedFrom <= FreedFrom + i
            /\ FreedFrom + i < FreedFrom + fFreeCounter /\ (FreedFrom + i) - FreedFrom = i
        BY <2>2 DEF FreedFrom, Slots
      <4>2. QED
        BY <2>1, <4>1
    <3>3. QED
      BY <2>1, <2>2, <3>1, <3>2 DEF StageOneDone
  <2>12. QED
    BY <2>3, <2>8, <2>9, <2>10, <2>11 DEF IndInv
<1>4. QED
  BY <1>2, <1>3

(* FreeMarkedSlotsStage2: the marked slots, all of them copied, become     *)
(* fresh and the free list is empty.                                       *)
LEMMA Stage2Step ==
  ASSUME IndInv, FreeMarkedSlotsStage2
  PROVE  IndInv'
<1>1. TypeOK /\ ThreadsAgree /\ NoSlotOwnedTwice /\ StageOneDone
  BY DEF IndInv
<1>2. /\ freeing = "copied" /\ freeing' = "no"
      /\ fSlotCounter' = fSlotCounter - fFreeCounter /\ fFreeCounter' = 0
      /\ UNCHANGED <<fSlotList, fToFreeList, live, leaked, killed,
                     pc, index, held, kernel, running, overHalf, trapped>>
  BY DEF FreeMarkedSlotsStage2, lists, tracks, threads
<1>3. /\ running = {} /\ fFreeCounter <= fSlotCounter
      /\ \A i \in 0 .. fFreeCounter - 1 : fSlotList[FreedFrom + i] = fToFreeList[i]
  BY <1>1, <1>2 DEF StageOneDone
<1>4. /\ fSlotCounter \in 0 .. fSlotListSize /\ fFreeCounter \in 0 .. fSlotListSize
      /\ fFreeListSize = fSlotListSize /\ fSlotListSize \in Nat
  BY <1>1, SizeAssumption DEF TypeOK
<1>5. TypeOK'
  <2>1. fSlotCounter' \in 0 .. fSlotListSize /\ fFreeCounter' \in 0 .. fFreeListSize
    BY <1>2, <1>3, <1>4
  <2>2. QED
    BY <1>1, <1>2, <2>1 DEF TypeOK
<1>6. /\ FreshIndices = {i \in Slots : i >= fSlotCounter}
      /\ Settled = 0 .. fFreeCounter - 1 /\ Marking = {}
  <2>1. {i \in 0 .. fFreeListSize - 1 : i < fFreeCounter} = 0 .. fFreeCounter - 1
    BY <1>4
  <2>2. QED
    BY <1>1, <1>3, <2>1, AllIdle
<1>7. ThreadsAgree'
  BY <1>1, <1>2, <1>3, AllIdle DEF ThreadsAgree
<1>8. FreshIndices' = {i \in Slots : i >= FreedFrom} /\ Settled' = {} /\ Marking' = {}
  <2>1. \A d \in Threads : pc'[d] = "idle"
    BY <1>1, <1>2, <1>3, AllIdle
  <2>2. {i \in 0 .. fFreeListSize - 1 : i < 0} = {}
    BY <1>4
  <2>3. QED
    BY <1>2, <2>1, <2>2 DEF FreshIndices, Settled, Marking, FreedFrom
<1>9. FreshIndices' = FreshIndices \cup {FreedFrom + i : i \in Settled}
  <2>1. \A j \in Slots : j >= FreedFrom /\ ~ (j >= fSlotCounter) =>
          j - FreedFrom \in 0 .. fFreeCounter - 1 /\ j = FreedFrom + (j - FreedFrom)
    BY <1>3, <1>4 DEF FreedFrom, Slots
  <2>2. \A i \in 0 .. fFreeCounter - 1 : FreedFrom + i \in Slots /\ FreedFrom + i >= FreedFrom
    BY <1>3, <1>4 DEF FreedFrom, Slots
  <2>3. \A j \in Slots : j >= fSlotCounter => j >= FreedFrom
    BY <1>3, <1>4 DEF FreedFrom, Slots
  <2>4. QED
    BY <1>6, <1>8, <2>1, <2>2, <2>3
<1>10. Fresh' = Fresh \cup Marked
  <2>1. \A i \in Settled : fSlotList[FreedFrom + i] = fToFreeList[i]
    BY <1>3, <1>6
  <2>2. Fresh' = {fSlotList[i] : i \in FreshIndices'}
    BY <1>2 DEF Fresh
  <2>3. QED
    <3>1. ASSUME NEW x \in Fresh' PROVE x \in Fresh \cup Marked
      BY <1>9, <2>1, <2>2 DEF Fresh, Marked
    <3>2. ASSUME NEW x \in Marked PROVE x \in Fresh'
      <4>1. PICK i \in Settled : x = fToFreeList[i]
        BY DEF Marked
      <4>2. FreedFrom + i \in FreshIndices' /\ x = fSlotList[FreedFrom + i]
        BY <1>9, <2>1, <4>1
      <4>3. QED
        BY <2>2, <4>2
    <3>3. Fresh \subseteq Fresh'
      BY <1>9, <2>2 DEF Fresh
    <3>4. QED
      BY <3>1, <3>2, <3>3
<1>11. Marked' = {} /\ Owned' = Owned
  BY <1>2, <1>8 DEF Marked, Owned
<1>12. NoSlotOwnedTwice'
  <2>1. \A i, j \in FreshIndices' : fSlotList[i] = fSlotList[j] => i = j
    <3>1. \A i \in Settled : fSlotList[FreedFrom + i] = fToFreeList[i] /\ fToFreeList[i] \in Marked
      BY <1>3, <1>6 DEF Marked
    <3>2. \A i \in FreshIndices : fSlotList[i] \in Fresh
      BY DEF Fresh
    <3>3. \A i, j \in Settled : fToFreeList[i] = fToFreeList[j] => i = j
      BY <1>1 DEF NoSlotOwnedTwice
    <3>4. \A i, j \in FreshIndices : fSlotList[i] = fSlotList[j] => i = j
      BY <1>1 DEF NoSlotOwnedTwice
    <3>5. Fresh \cap Marked = {}
      BY <1>1 DEF NoSlotOwnedTwice
    <3>6. QED
      BY <1>9, <3>1, <3>2, <3>3, <3>4, <3>5
  <2>2. (/\ Fresh \cap (Owned \cup Marked \cup Marking) = {}
         /\ Owned \cap (Marked \cup Marking) = {} /\ Marked \cap Marking = {})'
    BY <1>1, <1>8, <1>10, <1>11 DEF NoSlotOwnedTwice
  <2>3. QED
    BY <1>1, <1>2, <1>8, <2>1, <2>2 DEF NoSlotOwnedTwice
<1>13. SlotsAreConserved'
  BY <1>6, <1>8, <1>10, <1>11 DEF IndInv, SlotsAreConserved
<1>14. StageOneDone'
  BY <1>2 DEF StageOneDone
<1>15. QED
  BY <1>5, <1>7, <1>12, <1>13, <1>14 DEF IndInv

(* InitSlotManagers: with no track left every slot is fresh again.         *)
LEMMA InitSlotManagersStep ==
  ASSUME IndInv, InitSlotManagers
  PROVE  IndInv'
<1>1. TypeOK /\ ThreadsAgree /\ NoSlotOwnedTwice
  BY DEF IndInv
<1>2. /\ running = {} /\ freeing = "no" /\ live = {} /\ leaked = {}
      /\ fSlotList' = [i \in Slots |-> i] /\ fSlotCounter' = 0 /\ fFreeCounter' = 0
      /\ killed' = {} /\ overHalf' = FALSE
      /\ UNCHANGED <<fToFreeList, live, leaked, pc, index, held, kernel, running, freeing, trapped>>
  BY DEF InitSlotManagers, Cleared, threads
<1>3. TypeOK'
  <2>1. fSlotCounter' \in 0 .. fSlotListSize /\ fFreeCounter' \in 0 .. fFreeListSize
    BY <1>2, SizeAssumption
  <2>2. fSlotList' \in [Slots -> Slots]
    BY <1>2
  <2>3. QED
    BY <1>1, <1>2, <2>1, <2>2 DEF TypeOK
<1>4. \A d \in Threads : pc'[d] = "idle"
  BY <1>1, <1>2, AllIdle
<1>5. FreshIndices' = Slots /\ Settled' = {} /\ Marking' = {}
  <2>1. (\A i \in Slots : i >= 0) /\ {i \in 0 .. fFreeListSize - 1 : i < 0} = {}
    BY SizeAssumption DEF Slots
  <2>2. QED
    BY <1>2, <1>4, <2>1 DEF FreshIndices, Settled, Marking
<1>6. Fresh' = Slots /\ Marked' = {} /\ Owned' = {}
  BY <1>2, <1>5 DEF Fresh, Marked, Owned
<1>7. NoSlotOwnedTwice'
  BY <1>2, <1>4, <1>5, <1>6 DEF NoSlotOwnedTwice
<1>8. SlotsAreConserved'
  BY <1>5, <1>6 DEF SlotsAreConserved
<1>9. ThreadsAgree' /\ StageOneDone'
  BY <1>2, <1>4 DEF ThreadsAgree, StageOneDone
<1>10. QED
  BY <1>3, <1>7, <1>8, <1>9 DEF IndInv

-----------------------------------------------------------------------------
LEMMA Induction == IndInv /\ [Next]_vars => IndInv'
<1> SUFFICES ASSUME IndInv, [Next]_vars PROVE IndInv'
  OBVIOUS
<1>1. ASSUME NEW d \in Threads, NEW k \in Kernels, NextSlotFetch(d, k) PROVE IndInv'
  BY <1>1, NextSlotFetchStep
<1>2. ASSUME NEW d \in Threads, NextSlotRead(d) PROVE IndInv'
  BY <1>2, NextSlotReadStep
<1>3. ASSUME NEW d \in Threads, NEW k \in Kernels, NEW s \in Slots, MarkFetch(d, k, s) PROVE IndInv'
  BY <1>3, MarkFetchStep
<1>4. ASSUME NEW d \in Threads, MarkWrite(d) PROVE IndInv'
  BY <1>4, MarkWriteStep
<1>5. ASSUME NEW s \in Slots, Leak(s) \/ Kill(s) PROVE IndInv'
  BY <1>5, LeakStep, KillStep
<1>6. ASSUME NEW k \in Kernels, LaunchKernel(k) \/ CompleteKernel(k) PROVE IndInv'
  BY <1>6, LaunchKernelStep, CompleteKernelStep
<1>7. CASE FinishIteration \/ RequestFreeing
  BY <1>7, FinishIterationStep, RequestFreeingStep
<1>8. CASE FreeMarkedSlotsStage1 \/ FreeMarkedSlotsStage2 \/ InitSlotManagers
  BY <1>8, Stage1Step, Stage2Step, InitSlotManagersStep
<1>9. CASE UNCHANGED vars
  <2>1. UNCHANGED <<lists, fSlotCounter, fFreeCounter, tracks, threads, running, overHalf, freeing, trapped>>
    BY <1>9 DEF vars, host
  <2>2. QED
    BY <2>1, SameLists DEF IndInv, TypeOK, ThreadsAgree
<1>10. QED
  BY <1>1, <1>2, <1>3, <1>4, <1>5, <1>6, <1>7, <1>8, <1>9 DEF Next

THEOREM Invariance == Spec => []IndInv
<1>1. Init => IndInv
  BY InitIndInv
<1>2. IndInv /\ [Next]_vars => IndInv'
  BY Induction
<1>3. QED
  BY <1>1, <1>2, PTL DEF Spec

(* Every variable keeps its type.                                          *)
THEOREM TypeCorrectness == Spec => []TypeOK
<1>1. IndInv => TypeOK
  BY DEF IndInv
<1>2. QED
  BY <1>1, Invariance, PTL

(* A slot never has two owners, whatever the kernels interleave.           *)
THEOREM SlotsHaveOneOwner == Spec => []NoSlotOwnedTwice
<1>1. IndInv => NoSlotOwnedTwice
  BY DEF IndInv
<1>2. QED
  BY <1>1, Invariance, PTL

(* Allocation and freeing lose no slot.                                    *)
THEOREM SlotsStayAccountedFor == Spec => []SlotsAreConserved
<1>1. IndInv => SlotsAreConserved
  BY DEF IndInv
<1>2. QED
  BY <1>1, Invariance, PTL

-----------------------------------------------------------------------------
(* More indices than there are slots: two of them share a slot.            *)
LEMMA TooManyIndices ==
  ASSUME NEW n \in Nat, n >= fSlotListSize, NEW f \in [0 .. n -> Slots]
  PROVE  \E i, j \in 0 .. n : i # j /\ f[i] = f[j]
<1>1. IsFiniteSet(0 .. n) /\ Cardinality(0 .. n) = n + 1
  BY FS_Interval
<1>2. IsFiniteSet(Slots) /\ Cardinality(Slots) = fSlotListSize
  BY FS_Interval, SizeAssumption DEF Slots
<1>3. Cardinality(Slots) < Cardinality(0 .. n)
  BY <1>1, <1>2, SizeAssumption
<1>4. QED
  BY <1>1, <1>2, <1>3, FS_PigeonHole

(* While a track still owns a slot the free list has room: each entry in   *)
(* use stands for another slot.                                            *)
LEMMA FreeListHasRoom ==
  ASSUME IndInv, NEW s \in Owned
  PROVE  fFreeCounter < fFreeListSize
<1> SUFFICES ASSUME ~ (fFreeCounter < fFreeListSize) PROVE FALSE
  OBVIOUS
<1> DEFINE N == fSlotListSize
           marker(i) == CHOOSE d \in Threads : pc[d] = "marking" /\ index[d] = i
           f == [i \in 0 .. N |-> IF i = N THEN s
                                  ELSE IF i \in Settled THEN fToFreeList[i]
                                  ELSE held[marker(i)]]
<1>1. TypeOK /\ NoSlotOwnedTwice /\ ThreadsAgree
  BY DEF IndInv
<1>2. N \in Nat /\ fFreeListSize = N /\ fFreeCounter = N
  BY <1>1, SizeAssumption DEF TypeOK
<1>3. s \in Slots
  BY <1>1 DEF TypeOK, Owned
<1>4. ASSUME NEW i \in 0 .. N, i # N
      PROVE  \/ i \in Settled /\ f[i] = fToFreeList[i] /\ f[i] \in Marked /\ f[i] \in Slots
             \/ /\ i \notin Settled /\ marker(i) \in Threads /\ pc[marker(i)] = "marking"
                /\ index[marker(i)] = i /\ f[i] = held[marker(i)]
                /\ f[i] \in Marking /\ f[i] \in Slots
  <2>1. i \in 0 .. fFreeListSize - 1 /\ i < fFreeCounter
    BY <1>2, <1>4
  <2>2. CASE i \in Settled
    BY <1>1, <1>4, <2>1, <2>2 DEF TypeOK, Marked
  <2>3. CASE i \notin Settled
    <3>1. \E d \in Threads : pc[d] = "marking" /\ index[d] = i
      BY <2>1, <2>3 DEF Settled
    <3>2. marker(i) \in Threads /\ pc[marker(i)] = "marking" /\ index[marker(i)] = i
      BY <3>1
    <3>3. f[i] = held[marker(i)]
      BY <1>4, <2>3
    <3>4. QED
      BY <1>1, <2>3, <3>2, <3>3 DEF TypeOK, Marking
  <2>4. QED
    BY <2>2, <2>3
<1>5. f[N] = s
  BY <1>2
<1>6. f \in [0 .. N -> Slots]
  <2>1. \A i \in 0 .. N : f[i] \in Slots
    BY <1>3, <1>4, <1>5
  <2>2. QED
    BY <2>1
<1>7. \A i, j \in 0 .. N : f[i] = f[j] => i = j
  <2> SUFFICES ASSUME NEW i \in 0 .. N, NEW j \in 0 .. N, f[i] = f[j], i # j PROVE FALSE
    OBVIOUS
  <2>1. i # N /\ j # N
    BY <1>1, <1>4, <1>5 DEF NoSlotOwnedTwice
  <2> HIDE DEF f, marker
  <2>2. CASE i \in Settled /\ j \in Settled
    BY <1>1, <1>4, <2>1, <2>2 DEF NoSlotOwnedTwice
  <2>3. CASE i \notin Settled /\ j \notin Settled
    BY <1>1, <1>4, <2>1, <2>3 DEF NoSlotOwnedTwice
  <2>4. CASE (i \in Settled) # (j \in Settled)
    BY <1>1, <1>4, <2>1, <2>4 DEF NoSlotOwnedTwice
  <2>5. QED
    BY <2>2, <2>3, <2>4
<1> HIDE DEF f
<1>8. QED
  BY <1>2, <1>6, <1>7, TooManyIndices

(* With every kernel done, the marked slots and the fresh slots together   *)
(* are no more than all slots: no more are marked than were allocated.     *)
LEMMA NoMoreMarkedThanAllocated ==
  ASSUME IndInv, running = {}
  PROVE  fFreeCounter <= fSlotCounter
<1> SUFFICES ASSUME ~ (fFreeCounter <= fSlotCounter) PROVE FALSE
  OBVIOUS
<1> DEFINE n == fSlotListSize + (fFreeCounter - fSlotCounter) - 1
           f == [i \in 0 .. n |-> IF i < fFreeCounter THEN fToFreeList[i]
                                  ELSE fSlotList[fSlotCounter + (i - fFreeCounter)]]
<1>1. TypeOK /\ NoSlotOwnedTwice /\ ThreadsAgree
  BY DEF IndInv
<1>2. /\ fSlotListSize \in Nat /\ fFreeListSize = fSlotListSize
      /\ fSlotCounter \in 0 .. fSlotListSize /\ fFreeCounter \in 0 .. fSlotListSize
      /\ n \in Nat /\ n >= fSlotListSize
  BY <1>1, SizeAssumption DEF TypeOK
<1>3. /\ FreshIndices = {i \in Slots : i >= fSlotCounter}
      /\ Settled = {i \in 0 .. fFreeListSize - 1 : i < fFreeCounter}
  BY <1>1, AllIdle
<1>4. ASSUME NEW i \in 0 .. n, i < fFreeCounter
      PROVE  i \in Settled /\ f[i] = fToFreeList[i] /\ f[i] \in Marked /\ f[i] \in Slots
  <2>1. i \in Settled /\ i \in 0 .. fFreeListSize - 1
    BY <1>2, <1>3, <1>4
  <2>2. QED
    BY <1>1, <1>4, <2>1 DEF TypeOK, Marked
<1>5. ASSUME NEW i \in 0 .. n, ~ (i < fFreeCounter)
      PROVE  LET j == fSlotCounter + (i - fFreeCounter)
             IN  j \in FreshIndices /\ f[i] = fSlotList[j] /\ f[i] \in Fresh /\ f[i] \in Slots
  <2> DEFINE j == fSlotCounter + (i - fFreeCounter)
  <2>1. j \in Slots /\ j >= fSlotCounter
    BY <1>2, <1>5 DEF Slots
  <2>2. f[i] = fSlotList[j]
    BY <1>5
  <2>3. QED
    BY <1>1, <1>3, <2>1, <2>2 DEF TypeOK, Fresh
<1>6. f \in [0 .. n -> Slots]
  <2>1. \A i \in 0 .. n : f[i] \in Slots
    BY <1>4, <1>5
  <2>2. QED
    BY <2>1
<1>7. ASSUME NEW i \in 0 .. n, NEW j \in 0 .. n, f[i] = f[j] PROVE i = j
  <2> HIDE DEF f
  <2>1. CASE i < fFreeCounter /\ j < fFreeCounter
    BY <1>1, <1>4, <1>7, <2>1 DEF NoSlotOwnedTwice
  <2>2. CASE ~ (i < fFreeCounter) /\ ~ (j < fFreeCounter)
    <3>1. fSlotCounter + (i - fFreeCounter) = fSlotCounter + (j - fFreeCounter)
      BY <1>1, <1>5, <1>7, <2>2 DEF NoSlotOwnedTwice
    <3>2. QED
      BY <1>2, <3>1
  <2>3. CASE (i < fFreeCounter) # (j < fFreeCounter)
    BY <1>1, <1>4, <1>5, <1>7, <2>3 DEF NoSlotOwnedTwice
  <2>4. QED
    BY <2>1, <2>2, <2>3
<1> HIDE DEF f, n
<1>8. QED
  BY <1>2, <1>6, <1>7, TooManyIndices

(* Two of the three device exceptions cannot be reached: neither the free  *)
(* list nor the freeing itself can run over.                               *)
THEOREM FreeingStaysInBounds == Spec => []FreeingNeverOverdraws
<1>1. Init => FreeingNeverOverdraws
  BY DEF Init, FreeingNeverOverdraws
<1>2. FreeingNeverOverdraws /\ IndInv /\ [Next]_vars => FreeingNeverOverdraws'
  <2> SUFFICES ASSUME FreeingNeverOverdraws, IndInv, [Next]_vars PROVE FreeingNeverOverdraws'
    OBVIOUS
  <2>1. ASSUME NEW d \in Threads, NEW k \in Kernels, NextSlotFetch(d, k) PROVE FreeingNeverOverdraws'
    BY <2>1 DEF NextSlotFetch, FreeingNeverOverdraws
  <2>2. ASSUME NEW d \in Threads, NEW k \in Kernels, NEW s \in Slots, MarkFetch(d, k, s)
        PROVE  FreeingNeverOverdraws'
    <3>1. s \in Owned
      BY <2>2 DEF MarkFetch, Owned
    <3>2. fFreeCounter < fFreeListSize
      BY <3>1, FreeListHasRoom
    <3>3. QED
      BY <2>2, <3>2 DEF MarkFetch, FreeingNeverOverdraws
  <2>3. CASE FreeMarkedSlotsStage1
    <3>1. fFreeCounter <= fSlotCounter
      BY <2>3, NoMoreMarkedThanAllocated DEF FreeMarkedSlotsStage1
    <3>2. ~ (fSlotCounter < fFreeCounter)
      BY <3>1, SizeAssumption DEF IndInv, TypeOK
    <3>3. QED
      BY <2>3, <3>2 DEF FreeMarkedSlotsStage1, FreeingNeverOverdraws
  <2>4. CASE UNCHANGED trapped
    BY <2>4 DEF FreeingNeverOverdraws
  <2>5. QED
    BY <2>1, <2>2, <2>3, <2>4 DEF Next, NextSlotRead, MarkWrite, Leak, Kill, LaunchKernel,
       CompleteKernel, FinishIteration, RequestFreeing, FreeMarkedSlotsStage2, InitSlotManagers, vars
<1>3. QED
  BY <1>1, <1>2, Invariance, PTL DEF Spec
=============================================================================
