-------------------------- MODULE TrackManagerProofs --------------------------
(* The synchronous worker, for every capacity, threshold and bound.  First *)
(* its track managers: a new track gets a slot that no track is in, and    *)
(* compaction moves the tracks to room that none of them is in.  Then the  *)
(* seeds of a batch (SeedInv).  Then the homes of the tracks: WorkerInv    *)
(* says that every living track has one, and that the stack, the buffer,   *)
(* the queues and the slots hold exactly the tracks whose home they are.   *)
(* Then the hits of a shower (HitInv).                                     *)
EXTENDS TrackingManager, Counting, SequenceTheorems

(* The members of a manager whose tracks are in T.                         *)
Managers(T) ==
  [fStart : Nat, fNextStart : Nat, fInFlight : Nat, fNextFree : Nat,
   fActiveTracks : Seq(Slots), fNextTracks : Seq(Slots), fBuffer : [Slots -> T]]

(* The part of the ring that is used, from fStart to fNextFree.            *)
Used(m) == {i % fCapacity : i \in m.fStart .. m.fNextFree - 1}

(* No more slots are used than there are, and the next tracks are in them. *)
Ring(m) ==
  /\ m.fNextFree \in m.fStart .. m.fStart + fCapacity
  /\ \A i \in DOMAIN m.fNextTracks : m.fNextTracks[i] \in Used(m)

(* Division with remainder.                                                *)
LEMMA Division ==
  ASSUME NEW a \in Int, NEW c \in Int, c > 0
  PROVE  a \div c \in Int /\ a % c \in 0 .. c - 1 /\ a = c * (a \div c) + (a % c)
BY SMT

(* Less than c apart, only equal numbers have the same remainder.          *)
LEMMA SameRemainder ==
  ASSUME NEW a \in Int, NEW b \in Int, NEW c \in Int, c > 0,
         a % c = b % c, a - b < c, b - a < c
  PROVE  a = b
<1> DEFINE q == a \div c
           r == b \div c
<1>1. q \in Int /\ r \in Int /\ a = c * q + (a % c) /\ b = c * r + (b % c)
  BY Division
<1>2. a % c \in Int /\ b % c \in Int
  BY Division
<1> HIDE DEF q, r
<1>3. a - b = c * q - c * r
  BY <1>1, <1>2
<1>4. c * q - c * r = c * (q - r)
  BY <1>1
<1>5. CASE q - r >= 1
  <2>1. c * (q - r) >= c
    BY <1>1, <1>5
  <2> QED BY <1>1, <1>3, <1>4, <2>1
<1>6. CASE r - q >= 1
  <2>1. c * (q - r) <= -c
    BY <1>1, <1>6
  <2> QED BY <1>1, <1>3, <1>4, <2>1
<1>7. CASE q = r
  BY <1>1, <1>2, <1>7
<1> QED BY <1>1, <1>5, <1>6, <1>7

(* Adding to a remainder is adding to the number.                          *)
LEMMA SumOfRemainder ==
  ASSUME NEW a \in Int, NEW i \in Int, NEW c \in Int, c > 0
  PROVE  ((a % c) + i) % c = (a + i) % c
<1> DEFINE q == a \div c
           s == a % c
           t == s + i
           u == t \div c
<1>1. q \in Int /\ s \in Int /\ a = c * q + s
  BY Division
<1> HIDE DEF q, s
<1>2. t \in Int
  BY <1>1
<1>3. u \in Int /\ t % c \in 0 .. c - 1 /\ t = c * u + (t % c)
  BY <1>2, Division
<1> HIDE DEF t, u
<1>4. a + i = c * (q + u) + (t % c)
  <2>1. a + i = c * q + t
    BY <1>1 DEF t
  <2>2. c * (q + u) = c * q + c * u
    BY <1>1, <1>3
  <2> QED BY <1>1, <1>2, <1>3, <2>1, <2>2
<1>5. (a + i) % c = t % c
  <2> DEFINE p == q + u
             r == t % c
             b == a + i
  <2>1. p \in Int /\ r \in 0 .. c - 1 /\ b \in Int /\ b = c * p + r
    BY <1>1, <1>3, <1>4
  <2> HIDE DEF p, r, b
  <2>2. b % c = r
    BY <2>1
  <2> QED BY <2>2 DEF b, r
<1> QED BY <1>5 DEF t, s

-----------------------------------------------------------------------------
(* A number less than a turn ahead of the used part is not in it.          *)
LEMMA AheadIsUnused ==
  ASSUME NEW T, NEW m \in Managers(T), Ring(m),
         NEW n \in m.fNextFree .. m.fStart + fCapacity - 1
  PROVE  n % fCapacity \in Slots \ Used(m)
<1>1. fCapacity \in Nat \ {0} /\ m.fStart \in Nat /\ m.fNextFree \in Nat /\ n \in Nat
  BY TrackManagerAssumption DEF Managers, Ring
<1>2. n % fCapacity \in Slots
  BY <1>1, Division DEF Slots
<1>3. ASSUME NEW i \in m.fStart .. m.fNextFree - 1, i % fCapacity = n % fCapacity
      PROVE  FALSE
  <2>1. i \in Int /\ n - i < fCapacity /\ i - n < fCapacity /\ i # n
    BY <1>1
  <2> QED BY <1>1, <1>3, <2>1, SameRemainder
<1> QED BY <1>2, <1>3 DEF Used

(* NextTrack never hands out a slot that is in use, and disturbs no track: *)
(* whatever was in the used part stays there.                              *)
THEOREM NextTrackIsFresh ==
  ASSUME NEW T, NEW m \in Managers(T), Ring(m), NEW track \in T, NextSlot(m) # -1
  PROVE  /\ NextSlot(m) \in Slots \ Used(m)
         /\ Used(NextTrack(m, track)) = Used(m) \cup {NextSlot(m)}
         /\ NextTrack(m, track) \in Managers(T) /\ Ring(NextTrack(m, track))
         /\ \A slot \in Used(m) : NextTrack(m, track).fBuffer[slot] = m.fBuffer[slot]
<1> DEFINE slot == NextSlot(m)
           n == NextTrack(m, track)
<1>1. fCapacity \in Nat \ {0} /\ m.fStart \in Nat /\ m.fNextFree \in Nat
  BY TrackManagerAssumption DEF Managers
<1>2. slot = m.fNextFree % fCapacity /\ m.fNextFree - m.fStart < fCapacity
  BY <1>1 DEF NextSlot
<1>3. slot \in Slots \ Used(m)
  <2>1. m.fNextFree \in m.fNextFree .. m.fStart + fCapacity - 1
    BY <1>1, <1>2
  <2> QED BY <1>2, <2>1, AheadIsUnused
<1>4. n = [m EXCEPT !.fNextFree = m.fNextFree + 1, !.fNextTracks = Append(m.fNextTracks, slot),
                    !.fBuffer = [m.fBuffer EXCEPT ![slot] = track]]
  BY DEF NextTrack, Managers
<1> HIDE DEF slot, n
<1>5. /\ n.fStart = m.fStart /\ n.fNextFree = m.fNextFree + 1
      /\ n.fNextTracks = Append(m.fNextTracks, slot)
      /\ n.fBuffer = [m.fBuffer EXCEPT ![slot] = track]
  BY <1>4 DEF Managers
<1>6. n \in Managers(T)
  <2>1. m.fNextFree + 1 \in Nat /\ Append(m.fNextTracks, slot) \in Seq(Slots)
        /\ [m.fBuffer EXCEPT ![slot] = track] \in [Slots -> T]
    BY <1>1, <1>3 DEF Managers
  <2> QED BY <1>4, <2>1 DEF Managers
<1>7. Used(n) = Used(m) \cup {slot}
  <2>1. m.fStart .. m.fNextFree = (m.fStart .. m.fNextFree - 1) \cup {m.fNextFree}
    BY <1>1 DEF Ring
  <2>2. n.fStart .. n.fNextFree - 1 = m.fStart .. m.fNextFree
    BY <1>1, <1>5
  <2> QED BY <1>2, <2>1, <2>2 DEF Used
<1>8. Ring(n)
  <2>1. n.fNextFree \in n.fStart .. n.fStart + fCapacity
    BY <1>1, <1>2, <1>5 DEF Ring
  <2>2. ASSUME NEW i \in DOMAIN n.fNextTracks
        PROVE  n.fNextTracks[i] \in Used(n)
    <3>1. m.fNextTracks \in Seq(Slots)
      BY DEF Managers
    <3>2. CASE i = Len(m.fNextTracks) + 1
      BY <1>5, <1>7, <3>1, <3>2
    <3>3. CASE i # Len(m.fNextTracks) + 1
      <4>1. i \in DOMAIN m.fNextTracks /\ n.fNextTracks[i] = m.fNextTracks[i]
        BY <1>5, <3>1, <3>3
      <4> QED BY <1>7, <4>1 DEF Ring
    <3> QED BY <3>2, <3>3
  <2> QED BY <2>1, <2>2 DEF Ring
<1>9. \A s \in Used(m) : n.fBuffer[s] = m.fBuffer[s]
  <2>1. \A s \in Used(m) : s \in Slots
    BY <1>1, Division DEF Used, Slots
  <2> QED BY <1>3, <1>5, <2>1 DEF Managers
<1> QED BY <1>3, <1>6, <1>7, <1>8, <1>9 DEF slot, n

(* When SwapAndCompact moves the tracks, the room for them is free of all  *)
(* tracks of the iteration, and each goes to a slot of its own: no copy    *)
(* overwrites a track that another one has yet to read, in any order.      *)
THEOREM CompactionRoomIsFree ==
  ASSUME NEW T, NEW m \in Managers(T), Ring(m), m.fNextStart = m.fNextFree, can_compress(m),
         NEW i \in 1 .. m.fInFlight
  PROVE  /\ Target(m.fNextStart % fCapacity, i) \in Slots \ Used(m)
         /\ \A j \in DOMAIN m.fNextTracks :
               m.fNextTracks[j] # Target(m.fNextStart % fCapacity, i)
         /\ \A j \in 1 .. m.fInFlight :
               Target(m.fNextStart % fCapacity, j) = Target(m.fNextStart % fCapacity, i) => j = i
<1>1. fCapacity \in Nat \ {0} /\ m.fStart \in Nat /\ m.fNextFree \in Nat /\ m.fInFlight \in Nat
  BY TrackManagerAssumption DEF Managers
<1>2. m.fNextFree - m.fStart + m.fInFlight < fCapacity /\ m.fNextFree >= m.fStart
  BY <1>1 DEF can_compress, GetNused, Ring
<1>3. ASSUME NEW j \in 1 .. m.fInFlight
      PROVE  Target(m.fNextStart % fCapacity, j) = (m.fNextFree + (j - 1)) % fCapacity
  <2> DEFINE s == m.fNextFree % fCapacity
  <2>1. s \in Int /\ s + j - 1 = s + (j - 1)
    <3>1. s \in Int
      BY <1>1, Division
    <3> QED BY <3>1
  <2>2. (s + (j - 1)) % fCapacity = (m.fNextFree + (j - 1)) % fCapacity
    <3> DEFINE k == j - 1
    <3>1. k \in Int /\ fCapacity \in Int /\ fCapacity > 0 /\ m.fNextFree \in Int
      BY <1>1
    <3> HIDE DEF k
    <3>2. (s + k) % fCapacity = (m.fNextFree + k) % fCapacity
      BY <3>1, SumOfRemainder
    <3> QED BY <3>2 DEF k
  <2> HIDE DEF s
  <2>3. Target(s, j) = (s + (j - 1)) % fCapacity
    BY <2>1 DEF Target
  <2> QED BY <2>2, <2>3 DEF s
<1>4. Target(m.fNextStart % fCapacity, i) \in Slots \ Used(m)
  <2>1. m.fNextFree + (i - 1) \in m.fNextFree .. m.fStart + fCapacity - 1
    BY <1>1, <1>2
  <2> QED BY <1>3, <2>1, AheadIsUnused
<1>5. ASSUME NEW j \in 1 .. m.fInFlight,
             Target(m.fNextStart % fCapacity, j) = Target(m.fNextStart % fCapacity, i)
      PROVE  j = i
  <2> DEFINE a == m.fNextFree + (j - 1)
             b == m.fNextFree + (i - 1)
  <2>1. a % fCapacity = b % fCapacity
    BY <1>3, <1>5
  <2>2. a \in Int /\ b \in Int /\ a - b < fCapacity /\ b - a < fCapacity
    BY <1>1, <1>2
  <2>3. a = b => j = i
    BY <1>1
  <2> HIDE DEF a, b
  <2>4. a = b
    BY <1>1, <2>1, <2>2, SameRemainder
  <2> QED BY <2>3, <2>4
<1> QED BY <1>4, <1>5 DEF Ring

(* After the compaction the ring is as long as the tracks in flight, and   *)
(* holds just the slots they were moved to.                                *)
THEOREM CompactedRing ==
  ASSUME NEW T, NEW n \in Managers(T), NEW start \in Nat, NEW inFlight \in Nat,
         inFlight < fCapacity
  PROVE  /\ Used(adjust_indices(n, start, start + inFlight))
              = {Target(start, i) : i \in 1 .. inFlight}
         /\ Ring(adjust_indices(n, start, start + inFlight))
<1> DEFINE c == adjust_indices(n, start, start + inFlight)
<1>1. c.fStart = start /\ c.fNextFree = start + inFlight /\ c.fNextTracks = <<>>
  <2>1. c = [n EXCEPT !.fStart = start, !.fNextFree = start + inFlight, !.fNextTracks = <<>>]
    BY DEF adjust_indices
  <2> HIDE DEF c
  <2> QED BY <2>1 DEF Managers
<1> HIDE DEF c
<1>2. Used(c) = {Target(start, i) : i \in 1 .. inFlight}
  <2>1. ASSUME NEW i \in 1 .. inFlight
        PROVE  Target(start, i) \in Used(c)
    <3>1. start + i - 1 \in c.fStart .. c.fNextFree - 1
      BY <1>1
    <3> QED BY <3>1 DEF Used, Target
  <2>2. ASSUME NEW k \in c.fStart .. c.fNextFree - 1
        PROVE  k % fCapacity \in {Target(start, i) : i \in 1 .. inFlight}
    <3>1. k - start + 1 \in 1 .. inFlight /\ start + (k - start + 1) - 1 = k
      BY <1>1
    <3>2. Target(start, k - start + 1) = k % fCapacity
      BY <3>1 DEF Target
    <3> QED BY <3>1, <3>2
  <2> QED BY <2>1, <2>2 DEF Used
<1>3. Ring(c)
  BY <1>1, TrackManagerAssumption DEF Ring
<1> QED BY <1>2, <1>3 DEF c

(* The indices are in order from the start, and stay so at the end of an   *)
(* iteration that moves nothing; refreshed statistics know the ring's end, *)
(* as CompactionRoomIsFree needs it.                                       *)
THEOREM IterationKeepsRing ==
  ASSUME NEW T, Vacant \in T, NEW m \in Managers(T), Ring(m)
  PROVE  /\ NewManager \in Managers(T) /\ Ring(NewManager)
         /\ refresh_stats(m) \in Managers(T) /\ Ring(refresh_stats(m))
         /\ refresh_stats(m).fNextStart = refresh_stats(m).fNextFree
         /\ Ring(swap(refresh_stats(m)))
<1> DEFINE r == refresh_stats(m)
<1>1. NewManager \in Managers(T) /\ Ring(NewManager) /\ NewManager.fNextStart = NewManager.fNextFree
  BY TrackManagerAssumption DEF NewManager, Managers, Ring
<1>2. CASE m.fNextTracks = <<>>
  <2>1. r = NewManager
    BY <1>2 DEF refresh_stats, clear
  <2> HIDE DEF r
  <2>2. /\ r \in Managers(T) /\ r.fStart = 0 /\ r.fNextFree = 0
        /\ r.fNextTracks = <<>> /\ r.fActiveTracks = <<>>
    BY <1>1, <2>1 DEF NewManager
  <2>3. /\ swap(r).fStart = 0 /\ swap(r).fNextFree = 0 /\ swap(r).fNextTracks = <<>>
    BY <2>2 DEF swap, Managers
  <2>4. Ring(swap(r))
    BY <2>3, TrackManagerAssumption DEF Ring
  <2> QED BY <1>1, <2>1, <2>4 DEF r
<1>3. CASE m.fNextTracks # <<>>
  <2>1. r = [m EXCEPT !.fNextStart = m.fNextFree, !.fInFlight = Len(m.fNextTracks),
                      !.fActiveTracks = <<>>]
    BY <1>3 DEF refresh_stats
  <2> HIDE DEF r
  <2>2. Len(m.fNextTracks) \in Nat /\ <<>> \in Seq(Slots)
    BY DEF Managers
  <2>3. r \in Managers(T)
    BY <2>1, <2>2 DEF Managers
  <2>4. /\ r.fStart = m.fStart /\ r.fNextFree = m.fNextFree /\ r.fNextStart = m.fNextFree
        /\ r.fNextTracks = m.fNextTracks /\ r.fActiveTracks = <<>>
    BY <2>1 DEF Managers
  <2>5. Used(r) = Used(m) /\ Ring(r)
    BY <2>4 DEF Used, Ring
  <2>6. /\ swap(r).fStart = r.fStart /\ swap(r).fNextFree = r.fNextFree
        /\ swap(r).fNextTracks = <<>>
    BY <2>3, <2>4 DEF swap, Managers
  <2>7. Ring(swap(r))
    BY <2>5, <2>6 DEF Ring
  <2> QED BY <1>1, <2>3, <2>4, <2>5, <2>7 DEF r
<1> QED BY <1>2, <1>3

-----------------------------------------------------------------------------
(* The seeds of an event's batches of n tracks are below the next batch's; *)
(* a buffer that belongs to an earlier event has given none yet.           *)
SeedInv ==
  /\ event \in Int /\ bufferEvent \in Int /\ bufferEvent <= event /\ startTrack \in Nat
  /\ \E S : toDevice \in Seq(S)
  /\ IsFiniteSet(batches) /\ batches \subseteq Nat
  /\ bufferEvent # event => seeds = {} /\ batches = {}
  /\ \A n \in Nat : batches \subseteq {n} =>
       /\ \A a \in seeds : a.seed \in Int /\ a.seed < startTrack + n
       /\ \A a, b \in seeds : a.seed = b.seed => a.track = b.track

LEMMA SeedInvInit == Init => SeedInv
<1> SUFFICES ASSUME Init PROVE SeedInv
  OBVIOUS
<1>1. /\ event = -1 /\ bufferEvent = -1 /\ startTrack = 0 /\ toDevice = <<>>
      /\ seeds = {} /\ batches = {}
  BY DEF Init, SyncInit
<1>2. toDevice \in Seq({})
  BY <1>1
<1>3. IsFiniteSet({})
  BY FS_EmptySet
<1> QED BY <1>1, <1>2, <1>3 DEF SeedInv

(* A batch: its seeds begin where those of the last one end, if that was   *)
(* as large.                                                               *)
LEMMA SeedInvShower ==
  ASSUME SeedInv, Shower(event), event' = event
  PROVE  SeedInv'
<1> DEFINE l == Len(toDevice)
           new == {[seed |-> startTrack' + i - 1, track |-> toDevice[i]] : i \in DOMAIN toDevice}
<1>1. PICK S : toDevice \in Seq(S)
  BY DEF SeedInv
<1>2. l \in Nat /\ DOMAIN toDevice = 1 .. l /\ l # 0
  BY <1>1 DEF Shower
<1>3. /\ bufferEvent' = event /\ startTrack' = NextSeeds(event) /\ toDevice' = toDevice
      /\ seeds' = seeds \cup new /\ batches' = batches \cup {l}
  BY DEF Shower
<1>4. NextSeeds(event) = IF event # bufferEvent THEN 0 ELSE startTrack + l
  BY DEF NextSeeds
<1> HIDE DEF l
<1>5. startTrack' \in Nat
  BY <1>2, <1>3, <1>4 DEF SeedInv
<1>6. \A a \in new : \E i \in 1 .. l : a.seed = startTrack' + i - 1 /\ a.track = toDevice[i]
  BY <1>2
<1> HIDE DEF new
<1>7. IsFiniteSet(batches') /\ batches' \subseteq Nat
  BY <1>2, <1>3, FS_AddElement DEF SeedInv
<1>8. ASSUME NEW n \in Nat, batches' \subseteq {n}
      PROVE  /\ \A a \in seeds' : a.seed \in Int /\ a.seed < startTrack' + n
             /\ \A a, b \in seeds' : a.seed = b.seed => a.track = b.track
  <2>1. n = l /\ batches \subseteq {n}
    BY <1>3, <1>8
  <2>2. /\ \A a \in seeds : a.seed \in Int /\ a.seed < startTrack + n
        /\ \A a, b \in seeds : a.seed = b.seed => a.track = b.track
    BY <2>1 DEF SeedInv
  <2>3. \A a \in seeds : a.seed \in Int /\ a.seed < startTrack'
    <3>1. CASE event # bufferEvent
      BY <3>1 DEF SeedInv
    <3>2. CASE event = bufferEvent
      BY <1>3, <1>4, <2>1, <2>2, <3>2
    <3> QED BY <3>1, <3>2
  <2>4. \A a \in new : a.seed \in Int /\ startTrack' <= a.seed /\ a.seed < startTrack' + n
    BY <1>2, <1>5, <1>6, <2>1
  <2>5. \A a \in seeds' : a.seed \in Int /\ a.seed < startTrack' + n
    BY <1>2, <1>3, <1>5, <2>1, <2>3, <2>4
  <2>6. \A a, b \in new : a.seed = b.seed => a.track = b.track
    <3>0. SUFFICES ASSUME NEW a \in new, NEW b \in new, a.seed = b.seed
                   PROVE  a.track = b.track
      OBVIOUS
    <3>1. PICK i \in 1 .. l : a.seed = startTrack' + i - 1 /\ a.track = toDevice[i]
      BY <1>6
    <3>2. PICK j \in 1 .. l : b.seed = startTrack' + j - 1 /\ b.track = toDevice[j]
      BY <1>6
    <3>3. startTrack' + i - 1 = startTrack' + j - 1
      BY Zenon, <3>0, <3>1, <3>2
    <3>4. i = j
      <4>1. i \in Int /\ j \in Int /\ startTrack' \in Int
        BY <1>2, <1>5
      <4> QED BY ONLY <3>3, <4>1
    <3> QED BY Zenon, <3>1, <3>2, <3>4
  <2>7. \A a \in seeds, b \in new : a.seed # b.seed
    BY <1>5, <2>3, <2>4
  <2>8. \A a, b \in seeds' : a.seed = b.seed => a.track = b.track
    BY <1>3, <2>2, <2>6, <2>7
  <2> QED BY <2>5, <2>8
<1>9. event' \in Int /\ bufferEvent' \in Int /\ bufferEvent' <= event' /\ bufferEvent' = event'
  BY <1>3 DEF SeedInv
<1>10. \E T : toDevice' \in Seq(T)
  BY <1>1, <1>3
<1> QED BY <1>5, <1>7, <1>8, <1>9, <1>10 DEF SeedInv

LEMMA SeedInvNext == SeedInv /\ [Next]_vars => SeedInv'
<1> SUFFICES ASSUME SeedInv, [Next]_vars PROVE SeedInv'
  OBVIOUS
<1>1. ASSUME UNCHANGED <<event, bufferEvent, startTrack, seedVars>>, \E S : toDevice' \in Seq(S)
      PROVE  SeedInv'
  BY <1>1 DEF SeedInv, seedVars
<1>2. ASSUME UNCHANGED <<event, bufferVars, seedVars>>
      PROVE  SeedInv'
  BY <1>1, <1>2 DEF SeedInv, bufferVars
<1>3. CASE NewEvent
  <2>1. /\ event' = event + 1 /\ seeds' = {} /\ batches' = {}
        /\ UNCHANGED <<toDevice, bufferEvent, startTrack>>
    BY <1>3 DEF NewEvent, bufferVars
  <2>2. IsFiniteSet({})
    BY FS_EmptySet
  <2> QED BY <2>1, <2>2 DEF SeedInv
<1>4. CASE HandOverOneTrack
  BY <1>2, <1>4 DEF HandOverOneTrack
<1>5. CASE ProcessTrackOnGPU
  <2>1. /\ toDevice' = Append(toDevice, aTrack)
        /\ UNCHANGED <<event, bufferEvent, startTrack, seedVars>>
    BY <1>5 DEF ProcessTrackOnGPU, AddTrack
  <2>2. PICK S : toDevice \in Seq(S)
    BY DEF SeedInv
  <2>3. toDevice \in Seq(S \cup {aTrack})
    BY <2>2
  <2>4. toDevice' \in Seq(S \cup {aTrack})
    BY <2>1, <2>3
  <2> QED BY <1>1, <2>1, <2>4
<1>6. CASE ProcessTrackOnCPU
  BY <1>2, <1>6 DEF ProcessTrackOnCPU, syncVars
<1>7. ASSUME NEW r \in Regions, NEW name \in Kinds \cup {"none"}, NEW rest \in BOOLEAN,
             HepEmStep(r, name, rest)
      PROVE  SeedInv'
  BY <1>2, <1>7 DEF HepEmStep
<1>8. CASE EarlyExit
  BY <1>2, <1>8 DEF EarlyExit
<1>9. CASE FinishTrack
  BY <1>2, <1>9 DEF FinishTrack
<1>10. CASE FlushEvent
  BY <1>2, <1>10 DEF FlushEvent
<1>11. CASE EventFlushed
  BY <1>2, <1>11 DEF EventFlushed, syncVars
<1>12. CASE OnDevice
  <2>1. event' = event
    BY <1>12 DEF OnDevice
  <2>2. CASE Shower(event)
    BY <2>1, <2>2, SeedInvShower
  <2>3. CASE EmptyShower
    BY <1>2, <2>1, <2>3 DEF EmptyShower
  <2>4. ASSUME NEW k \in Kinds, NEW i \in DOMAIN todo[k], NEW effect \in StepEffects[k],
               Step(k, i, effect)
        PROVE  SeedInv'
    BY <1>2, <2>1, <2>4 DEF Step
  <2>5. CASE FinishIteration
    BY <1>2, <2>1, <2>5 DEF FinishIteration
  <2>6. CASE EndShower
    <3>1. toDevice' = <<>> /\ UNCHANGED <<bufferEvent, startTrack, seedVars>>
      BY <2>6 DEF EndShower
    <3>2. toDevice' \in Seq({})
      BY <3>1
    <3> QED BY <1>1, <2>1, <3>1, <3>2
  <2>7. CASE ShowerReturns
    BY <1>2, <2>1, <2>7 DEF ShowerReturns
  <2>8. CASE FullRingStops
    BY <1>2, <2>1, <2>8 DEF FullRingStops
  <2> QED BY <1>12, <2>2, <2>3, <2>4, <2>5, <2>6, <2>7, <2>8 DEF OnDevice, Transport
<1>13. CASE Over
  BY <1>2, <1>13 DEF Over, vars, cpuVars, syncVars
<1>14. CASE UNCHANGED vars
  BY <1>2, <1>14 DEF vars, cpuVars, syncVars
<1>15. CASE DeleteTrack
  BY <1>2, <1>15 DEF DeleteTrack, cpuVars
<1> QED BY <1>3, <1>4, <1>5, <1>6, <1>7, <1>8, <1>9, <1>10, <1>11, <1>12, <1>13, <1>14, <1>15
     DEF Next

(* No two tracks of an event get the same seed while its batches have the  *)
(* same size, whatever the sizes of the batches of other events were.      *)
THEOREM SeedsAreDistinctHolds == Spec => []SeedsAreDistinct
<1>1. SeedInv => SeedsAreDistinct
  <2> SUFFICES ASSUME SeedInv, Cardinality(batches) <= 1,
                      NEW a \in seeds, NEW b \in seeds, a.seed = b.seed
               PROVE  a.track = b.track
    BY DEF SeedsAreDistinct
  <2>1. PICK n \in Nat : batches \subseteq {n}
    <3>1. CASE batches = {}
      BY <3>1
    <3>2. CASE batches # {}
      <4>1. PICK m \in batches : TRUE
        BY <3>2
      <4>2. /\ IsFiniteSet(batches \ {m})
            /\ Cardinality(batches \ {m}) = Cardinality(batches) - 1
            /\ Cardinality(batches) \in Nat /\ Cardinality(batches \ {m}) \in Nat
        BY <4>1, FS_RemoveElement, FS_CardinalityType DEF SeedInv
      <4>3. Cardinality(batches \ {m}) = 0
        BY <4>2
      <4>4. batches \ {m} = {}
        BY <4>2, <4>3, FS_EmptySet
      <4> QED BY <4>1, <4>4 DEF SeedInv
    <3> QED BY <3>1, <3>2
  <2> QED BY <2>1 DEF SeedInv
<1> QED BY <1>1, SeedInvInit, SeedInvNext, PTL DEF Spec

-----------------------------------------------------------------------------
(* The sequence holds the members of the set, each once.                   *)
Holds(s, S) ==
  /\ s \in Seq(S)
  /\ \A t \in S : \E i \in 1 .. Len(s) : s[i] = t
  /\ \A i, j \in 1 .. Len(s) : s[i] = s[j] => i = j

LEMMA SeqOfMore ==
  ASSUME NEW S, NEW T, S \subseteq T, NEW s \in Seq(S)
  PROVE  s \in Seq(T)
OBVIOUS

LEMMA HoldsFacts ==
  ASSUME NEW S, NEW s, Holds(s, S)
  PROVE  s \in Seq(S) /\ Len(s) \in Nat /\ DOMAIN s = 1 .. Len(s) /\ Range(s) = S /\ IsInjective(s)
<1>1. s \in Seq(S) /\ Len(s) \in Nat /\ DOMAIN s = 1 .. Len(s)
  BY DEF Holds
<1>2. IsInjective(s)
  BY <1>1 DEF Holds, IsInjective
<1>3. \A i \in 1 .. Len(s) : s[i] \in S
  BY <1>1
<1>4. Range(s) = S
  BY <1>1, <1>3 DEF Holds, Range
<1> QED BY <1>1, <1>2, <1>4

LEMMA HoldsNothing ==
  ASSUME NEW s, NEW S
  PROVE  /\ Holds(<<>>, {})
         /\ Holds(s, {}) => s = <<>>
         /\ Holds(<<>>, S) => S = {}
<1>1. Holds(<<>>, {})
  BY DEF Holds
<1>2. Holds(s, {}) => s = <<>>
  BY DEF Holds
<1>3. Holds(<<>>, S) => S = {}
  BY DEF Holds
<1> QED BY <1>1, <1>2, <1>3

LEMMA HoldsAppend ==
  ASSUME NEW S, NEW s, Holds(s, S), NEW t, t \notin S
  PROVE  Holds(Append(s, t), S \cup {t})
<1> DEFINE n == Len(s)
           a == Append(s, t)
           T == S \cup {t}
<1>1. /\ s \in Seq(T) /\ t \in T /\ n \in Nat
      /\ \A i \in 1 .. n : s[i] \in S
      /\ \A i, j \in 1 .. n : s[i] = s[j] => i = j
      /\ \A u \in S : \E i \in 1 .. n : s[i] = u
  BY DEF Holds
<1>2. /\ a \in Seq(T) /\ Len(a) = n + 1
      /\ \A i \in 1 .. n : a[i] = s[i]
      /\ a[n + 1] = t
  BY <1>1, AppendProperties
<1> HIDE DEF a, n
<1>3. \A u \in T : \E i \in 1 .. n + 1 : a[i] = u
  <2>1. n + 1 \in 1 .. n + 1 /\ \A i \in 1 .. n : i \in 1 .. n + 1
    BY <1>1
  <2> QED BY <1>1, <1>2, <2>1
<1>4. \A i, j \in 1 .. n + 1 : a[i] = a[j] => i = j
  <2>1. \A i \in 1 .. n + 1 : i \in 1 .. n \/ i = n + 1
    BY <1>1
  <2>2. \A i \in 1 .. n : a[i] \in S
    BY <1>1, <1>2
  <2> QED BY <1>1, <1>2, <2>1, <2>2
<1> QED BY <1>2, <1>3, <1>4 DEF Holds, a

LEMMA HoldsFront ==
  ASSUME NEW S, NEW s, Holds(s, S), s # <<>>
  PROVE  Last(s) \in S /\ Holds(Front(s), S \ {Last(s)})
<1> DEFINE n == Len(s)
           f == Front(s)
           t == Last(s)
<1>1. /\ s \in Seq(S) /\ n \in Nat \ {0}
      /\ \A i \in 1 .. n : s[i] \in S
      /\ \A i, j \in 1 .. n : s[i] = s[j] => i = j
      /\ \A u \in S : \E i \in 1 .. n : s[i] = u
  BY DEF Holds
<1>2. t = s[n] /\ t \in S
  BY <1>1 DEF Last
<1>3. \A i \in 1 .. n - 1 : s[i] \in S \ {t}
  <2> HIDE DEF t, n
  <2>1. n \in 1 .. n /\ \A i \in 1 .. n - 1 : i \in 1 .. n /\ i # n
    BY <1>1
  <2> QED BY <1>1, <1>2, <2>1
<1>4. f = SubSeq(s, 1, n - 1)
  BY DEF Front
<1> HIDE DEF f, t, n
<1>5. f \in Seq(S \ {t}) /\ Len(f) = n - 1 /\ \A i \in 1 .. n - 1 : f[i] = s[i]
  <2>1. n - 1 \in Int /\ 1 \in Int /\ (n - 1) - 1 + 1 = n - 1
    BY <1>1
  <2>2. /\ f \in Seq(S \ {t}) /\ Len(f) = IF 1 <= n - 1 THEN (n - 1) - 1 + 1 ELSE 0
        /\ \A i \in 1 .. (n - 1) - 1 + 1 : f[i] = s[1 + i - 1]
    BY <1>3, <1>4, <2>1, SubSeqProperties
  <2>3. \A i \in 1 .. n - 1 : 1 + i - 1 = i
    BY <1>1
  <2> QED BY <1>1, <2>1, <2>2, <2>3
<1>6. \A u \in S \ {t} : \E i \in 1 .. n - 1 : f[i] = u
  <2> SUFFICES ASSUME NEW u \in S \ {t} PROVE \E i \in 1 .. n - 1 : f[i] = u
    OBVIOUS
  <2>1. PICK i \in 1 .. n : s[i] = u
    BY <1>1
  <2>2. i \in 1 .. n - 1
    BY <1>1, <1>2, <2>1
  <2> QED BY <1>5, <2>1, <2>2
<1>7. \A i, j \in 1 .. n - 1 : f[i] = f[j] => i = j
  BY <1>1, <1>5
<1>8. Holds(f, S \ {t})
  BY <1>5, <1>6, <1>7 DEF Holds
<1> QED BY <1>2, <1>8 DEF f, t

LEMMA HoldsConcat ==
  ASSUME NEW A, NEW B, NEW a, NEW b, Holds(a, A), Holds(b, B), A \cap B = {}
  PROVE  Holds(a \o b, A \cup B)
<1> DEFINE n == Len(a)
           m == Len(b)
           c == a \o b
           T == A \cup B
<1>1. /\ a \in Seq(T) /\ b \in Seq(T) /\ n \in Nat /\ m \in Nat
      /\ \A i \in 1 .. n : a[i] \in A
      /\ \A i \in 1 .. m : b[i] \in B
      /\ \A i, j \in 1 .. n : a[i] = a[j] => i = j
      /\ \A i, j \in 1 .. m : b[i] = b[j] => i = j
      /\ \A u \in A : \E i \in 1 .. n : a[i] = u
      /\ \A u \in B : \E i \in 1 .. m : b[i] = u
  BY DEF Holds
<1>2. /\ c \in Seq(T) /\ Len(c) = n + m
      /\ \A i \in 1 .. n + m : c[i] = IF i <= n THEN a[i] ELSE b[i - n]
  BY <1>1, ConcatProperties
<1> HIDE DEF c, n, m
<1>3. /\ \A i \in 1 .. n : i \in 1 .. n + m /\ c[i] = a[i]
      /\ \A i \in 1 .. m : n + i \in 1 .. n + m /\ c[n + i] = b[i]
  <2>1. \A i \in 1 .. n : i \in 1 .. n + m /\ i <= n
    BY <1>1
  <2>2. \A i \in 1 .. m : n + i \in 1 .. n + m /\ ~(n + i <= n) /\ n + i - n = i
    BY <1>1
  <2>3. \A i \in 1 .. n : c[i] = a[i]
    BY <1>2, <2>1
  <2>4. ASSUME NEW i \in 1 .. m PROVE c[n + i] = b[i]
    <3> DEFINE j == n + i
    <3>1. j \in 1 .. n + m /\ ~(j <= n) /\ j - n = i
      BY <1>1, <2>4
    <3> HIDE DEF j
    <3>2. c[j] = b[j - n]
      BY <1>2, <3>1
    <3>3. c[j] = b[i]
      BY Zenon, <3>1, <3>2
    <3> QED BY Zenon, <3>3 DEF j
  <2> QED BY <2>1, <2>2, <2>3, <2>4
<1>4. \A i \in 1 .. n + m : \/ i \in 1 .. n /\ c[i] = a[i] /\ c[i] \in A
                            \/ i - n \in 1 .. m /\ c[i] = b[i - n] /\ c[i] \in B
  <2> SUFFICES ASSUME NEW i \in 1 .. n + m
               PROVE  \/ i \in 1 .. n /\ c[i] = a[i] /\ c[i] \in A
                      \/ i - n \in 1 .. m /\ c[i] = b[i - n] /\ c[i] \in B
    OBVIOUS
  <2>1. CASE i <= n
    BY <1>1, <1>2, <2>1
  <2>2. CASE ~(i <= n)
    <3>1. i - n \in 1 .. m
      BY <1>1, <2>2
    <3> QED BY <1>1, <1>2, <2>2, <3>1
  <2> QED BY <2>1, <2>2
<1>5. \A u \in T : \E i \in 1 .. n + m : c[i] = u
  <2>1. \A u \in A : \E i \in 1 .. n + m : c[i] = u
    BY <1>1, <1>3
  <2>2. \A u \in B : \E i \in 1 .. n + m : c[i] = u
    <3> SUFFICES ASSUME NEW u \in B PROVE \E i \in 1 .. n + m : c[i] = u
      OBVIOUS
    <3>1. PICK i \in 1 .. m : b[i] = u
      BY <1>1
    <3>2. n + i \in 1 .. n + m /\ c[n + i] = u
      BY <1>3, <3>1
    <3> QED BY <3>2
  <2> QED BY <2>1, <2>2
<1>6. \A i, j \in 1 .. n + m : c[i] = c[j] => i = j
  <2> SUFFICES ASSUME NEW i \in 1 .. n + m, NEW j \in 1 .. n + m, c[i] = c[j]
               PROVE  i = j
    OBVIOUS
  <2> DEFINE x == i - n
             y == j - n
  <2>1. x = y => i = j
    BY <1>1
  <2>2. \/ i \in 1 .. n /\ c[i] = a[i] /\ c[i] \in A
        \/ x \in 1 .. m /\ c[i] = b[x] /\ c[i] \in B
    BY <1>4
  <2>3. \/ j \in 1 .. n /\ c[j] = a[j] /\ c[j] \in A
        \/ y \in 1 .. m /\ c[j] = b[y] /\ c[j] \in B
    BY <1>4
  <2> HIDE DEF x, y
  <2>4. i = j \/ x = y
    BY <1>1, <2>2, <2>3
  <2> QED BY <2>1, <2>4
<1> QED BY <1>2, <1>5, <1>6 DEF Holds, c

LEMMA HoldsRemoveAt ==
  ASSUME NEW S, NEW s, Holds(s, S), NEW k \in 1 .. Len(s)
  PROVE  s[k] \in S /\ Holds(RemoveAt(s, k), S \ {s[k]})
<1> DEFINE n == Len(s)
           t == s[k]
           a == SubSeq(s, 1, k - 1)
           b == SubSeq(s, k + 1, n)
<1>1. /\ s \in Seq(S) /\ n \in Nat /\ k \in 1 .. n
      /\ \A i \in 1 .. n : s[i] \in S
      /\ \A i, j \in 1 .. n : s[i] = s[j] => i = j
      /\ \A u \in S : \E i \in 1 .. n : s[i] = u
  BY DEF Holds
<1> DEFINE A == {s[i] : i \in 1 .. k - 1}
           B == {s[i] : i \in k + 1 .. n}
<1>2. RemoveAt(s, k) = a \o b
  BY DEF RemoveAt
<1> HIDE DEF n
<1>3. /\ a \in Seq(A) /\ Len(a) = k - 1 /\ \A i \in 1 .. k - 1 : a[i] = s[i]
  <2>1. \A i \in 1 .. k - 1 : s[i] \in A
    OBVIOUS
  <2>2. k - 1 \in Int /\ 1 \in Int
    BY <1>1
  <2> HIDE DEF A
  <2>3. /\ a \in Seq(A) /\ Len(a) = IF 1 <= k - 1 THEN (k - 1) - 1 + 1 ELSE 0
        /\ \A i \in 1 .. (k - 1) - 1 + 1 : a[i] = s[1 + i - 1]
    BY <2>1, <2>2, SubSeqProperties
  <2>4. \A i \in 1 .. k - 1 : 1 + i - 1 = i
    BY <1>1
  <2>5. (k - 1) - 1 + 1 = k - 1
    BY <1>1
  <2> QED BY <1>1, <2>3, <2>4, <2>5
<1>4. /\ b \in Seq(B) /\ Len(b) = n - k /\ \A i \in 1 .. n - k : b[i] = s[k + i]
  <2>1. \A i \in k + 1 .. n : s[i] \in B
    OBVIOUS
  <2>2. k + 1 \in Int /\ n \in Int
    BY <1>1
  <2> HIDE DEF B
  <2>3. /\ b \in Seq(B) /\ Len(b) = IF k + 1 <= n THEN n - (k + 1) + 1 ELSE 0
        /\ \A i \in 1 .. n - (k + 1) + 1 : b[i] = s[k + 1 + i - 1]
    BY <2>1, <2>2, SubSeqProperties
  <2>4. \A i \in 1 .. n - k : k + 1 + i - 1 = k + i
    BY <1>1
  <2>5. n - (k + 1) + 1 = n - k
    BY <1>1
  <2> QED BY <1>1, <2>3, <2>4, <2>5
<1> HIDE DEF a, b
<1>5. Holds(a, A)
  <2>1. \A u \in A : \E i \in 1 .. k - 1 : a[i] = u
    BY <1>3
  <2>2. \A i, j \in 1 .. k - 1 : a[i] = a[j] => i = j
    BY <1>1, <1>3
  <2> HIDE DEF A
  <2> QED BY <1>3, <2>1, <2>2 DEF Holds
<1>6. Holds(b, B)
  <2>1. \A u \in B : \E i \in 1 .. n - k : b[i] = u
    <3> SUFFICES ASSUME NEW h \in k + 1 .. n PROVE \E i \in 1 .. n - k : b[i] = s[h]
      OBVIOUS
    <3>1. h - k \in 1 .. n - k /\ k + (h - k) = h
      BY <1>1
    <3> QED BY <1>4, <3>1
  <2>2. \A i, j \in 1 .. n - k : b[i] = b[j] => i = j
    <3> SUFFICES ASSUME NEW i \in 1 .. n - k, NEW j \in 1 .. n - k, b[i] = b[j] PROVE i = j
      OBVIOUS
    <3>1. k + i \in 1 .. n /\ k + j \in 1 .. n /\ (k + i = k + j => i = j)
      BY <1>1
    <3>2. s[k + i] = s[k + j]
      BY <1>4
    <3>3. \A x, y \in 1 .. n : s[x] = s[y] => x = y
      BY <1>1
    <3>4. k + i = k + j
      BY <3>1, <3>2, <3>3, Zenon
    <3> QED BY <3>1, <3>4
  <2> HIDE DEF B
  <2> QED BY <1>4, <2>1, <2>2 DEF Holds
<1>7. A \cap B = {}
  <2> SUFFICES ASSUME NEW i \in 1 .. k - 1, NEW j \in k + 1 .. n, s[i] = s[j] PROVE FALSE
    OBVIOUS
  <2>1. i \in 1 .. n /\ j \in 1 .. n /\ i # j
    BY <1>1
  <2> QED BY <1>1, <2>1
<1>8. A \cup B = S \ {t}
  <2>1. \A i \in 1 .. k - 1 : i \in 1 .. n /\ i # k
    BY <1>1
  <2>2. \A i \in k + 1 .. n : i \in 1 .. n /\ i # k
    BY <1>1
  <2>3. \A i \in 1 .. n : i \in 1 .. k - 1 \/ i \in k + 1 .. n \/ i = k
    BY <1>1
  <2>4. A \cup B \subseteq S \ {t}
    BY <1>1, <2>1, <2>2
  <2>5. S \ {t} \subseteq A \cup B
    BY <1>1, <2>3
  <2> QED BY <2>4, <2>5
<1> HIDE DEF A, B
<1>9. Holds(a \o b, A \cup B)
  BY <1>5, <1>6, <1>7, HoldsConcat
<1> QED BY <1>1, <1>2, <1>8, <1>9

LEMMA HoldsIdentity ==
  ASSUME NEW n \in Nat
  PROVE  Holds([i \in 1 .. n |-> i], 1 .. n)
<1> DEFINE s == [i \in 1 .. n |-> i]
<1>1. s \in Seq(1 .. n) /\ Len(s) = n
  OBVIOUS
<1>2. \A i \in 1 .. n : s[i] = i
  OBVIOUS
<1> HIDE DEF s
<1>3. Holds(s, 1 .. n)
  BY <1>1, <1>2 DEF Holds
<1> QED BY <1>3 DEF s

(* Any order of the members of a set.                                      *)
LEMMA HoldsOrder ==
  ASSUME NEW S, IsFiniteSet(S), NEW s \in SetToSeqs(S)
  PROVE  Holds(s, S)
<1> DEFINE n == Cardinality(S)
           D == 1 .. n
<1>1. n \in Nat
  BY FS_CardinalityType
<1>2. s \in [D -> S] /\ \A i, j \in D : i # j => s[i] # s[j]
  BY DEF SetToSeqs
<1> HIDE DEF n
<1>3. s \in Seq(S) /\ Len(s) = n
  BY <1>1, <1>2
<1>4. s \in Injection(D, S)
  BY <1>2 DEF Injection, IsInjective
<1>5. IsFiniteSet(D) /\ Cardinality(D) = n
  <2>1. 1 \in Int /\ n \in Int
    BY <1>1
  <2>2. IsFiniteSet(D) /\ Cardinality(D) = IF 1 > n THEN 0 ELSE n - 1 + 1
    BY <2>1, FS_Interval
  <2> HIDE DEF D
  <2> QED BY <1>1, <2>2
<1>6. s \in Surjection(D, S)
  <2> HIDE DEF D
  <2> QED BY <1>4, <1>5, FS_Injection DEF n
<1> QED BY <1>2, <1>3, <1>6 DEF Holds, Surjection

LEMMA RemoveAtIs ==
  ASSUME NEW S, NEW s \in Seq(S), NEW k \in 1 .. Len(s)
  PROVE  /\ RemoveAt(s, k) \in Seq(S) /\ Len(RemoveAt(s, k)) = Len(s) - 1
         /\ \A i \in 1 .. Len(s) - 1 : RemoveAt(s, k)[i] = IF i < k THEN s[i] ELSE s[i + 1]
<1> DEFINE n == Len(s)
           a == SubSeq(s, 1, k - 1)
           b == SubSeq(s, k + 1, n)
<1>1. n \in Nat /\ k \in 1 .. n /\ \A i \in 1 .. n : s[i] \in S
  OBVIOUS
<1>2. RemoveAt(s, k) = a \o b
  BY DEF RemoveAt
<1> HIDE DEF n
<1>3. a \in Seq(S) /\ Len(a) = k - 1 /\ \A i \in 1 .. k - 1 : a[i] = s[i]
  <2>1. \A i \in 1 .. k - 1 : s[i] \in S
    BY <1>1
  <2>2. k - 1 \in Int /\ 1 \in Int
    BY <1>1
  <2>3. /\ a \in Seq(S) /\ Len(a) = IF 1 <= k - 1 THEN (k - 1) - 1 + 1 ELSE 0
        /\ \A i \in 1 .. (k - 1) - 1 + 1 : a[i] = s[1 + i - 1]
    BY <2>1, <2>2, SubSeqProperties
  <2>4. \A i \in 1 .. k - 1 : 1 + i - 1 = i
    BY <1>1
  <2>5. (k - 1) - 1 + 1 = k - 1
    BY <1>1
  <2> QED BY <1>1, <2>3, <2>4, <2>5
<1>4. b \in Seq(S) /\ Len(b) = n - k /\ \A i \in 1 .. n - k : b[i] = s[k + i]
  <2>1. \A i \in k + 1 .. n : s[i] \in S
    BY <1>1
  <2>2. k + 1 \in Int /\ n \in Int
    BY <1>1
  <2>3. /\ b \in Seq(S) /\ Len(b) = IF k + 1 <= n THEN n - (k + 1) + 1 ELSE 0
        /\ \A i \in 1 .. n - (k + 1) + 1 : b[i] = s[k + 1 + i - 1]
    BY <2>1, <2>2, SubSeqProperties
  <2>4. \A i \in 1 .. n - k : k + 1 + i - 1 = k + i
    BY <1>1
  <2>5. n - (k + 1) + 1 = n - k
    BY <1>1
  <2> QED BY <1>1, <2>3, <2>4, <2>5
<1> HIDE DEF a, b
<1>5. /\ a \o b \in Seq(S) /\ Len(a \o b) = (k - 1) + (n - k)
      /\ \A i \in 1 .. (k - 1) + (n - k) : (a \o b)[i] = IF i <= k - 1 THEN a[i] ELSE b[i - (k - 1)]
  <2> DEFINE la == k - 1
             lb == n - k
  <2>1. a \in Seq(S) /\ Len(a) = la /\ b \in Seq(S) /\ Len(b) = lb
    BY <1>3, <1>4
  <2> HIDE DEF la, lb
  <2>2. /\ a \o b \in Seq(S) /\ Len(a \o b) = Len(a) + Len(b)
        /\ \A i \in 1 .. Len(a) + Len(b) : (a \o b)[i] = IF i <= Len(a) THEN a[i] ELSE b[i - Len(a)]
    BY <2>1, ConcatProperties
  <2>3. /\ a \o b \in Seq(S) /\ Len(a \o b) = la + lb
        /\ \A i \in 1 .. la + lb : (a \o b)[i] = IF i <= la THEN a[i] ELSE b[i - la]
    BY <2>1, <2>2
  <2> QED BY <2>3 DEF la, lb
<1>6. (k - 1) + (n - k) = n - 1
  BY <1>1
<1>7. ASSUME NEW i \in 1 .. n - 1
      PROVE  (a \o b)[i] = IF i < k THEN s[i] ELSE s[i + 1]
  <2>1. CASE i < k
    <3>1. i \in 1 .. k - 1 /\ i <= k - 1 /\ i \in 1 .. (k - 1) + (n - k)
      BY <1>1, <2>1
    <3> QED BY <1>3, <1>5, <2>1, <3>1
  <2>2. CASE ~(i < k)
    <3> DEFINE j == i - (k - 1)
    <3>1. j \in 1 .. n - k /\ ~(i <= k - 1) /\ i \in 1 .. (k - 1) + (n - k) /\ k + j = i + 1
      BY <1>1, <2>2
    <3>2. (a \o b)[i] = b[j]
      BY <1>5, <3>1
    <3> HIDE DEF j
    <3>3. b[j] = s[k + j]
      BY <1>4, <3>1
    <3> QED BY <2>2, <3>1, <3>2, <3>3
  <2> QED BY <2>1, <2>2
<1> QED BY <1>2, <1>5, <1>6, <1>7 DEF n

-----------------------------------------------------------------------------
(* What the buffer has in a sequence of slots.                             *)
Contents(m, slots) == [i \in 1 .. Len(slots) |-> m.fBuffer[slots[i]]]

Room == Tracks \cup {Vacant}

LEMMA ContentsFacts ==
  ASSUME NEW m, NEW slots \in Seq(Slots)
  PROVE  /\ Len(Contents(m, slots)) = Len(slots) /\ Len(slots) \in Nat
         /\ DOMAIN Contents(m, slots) = 1 .. Len(slots)
         /\ \A i \in 1 .. Len(slots) : Contents(m, slots)[i] = m.fBuffer[slots[i]]
BY DEF Contents

LEMMA ContentsAreOfTheBuffer ==
  ASSUME NEW m, NEW n, NEW slots \in Seq(Slots),
         \A i \in 1 .. Len(slots) : m.fBuffer[slots[i]] = n.fBuffer[slots[i]]
  PROVE  Contents(m, slots) = Contents(n, slots)
BY DEF Contents

LEMMA ContentsAppend ==
  ASSUME NEW m, NEW slots \in Seq(Slots), NEW slot \in Slots
  PROVE  Contents(m, Append(slots, slot)) = Append(Contents(m, slots), m.fBuffer[slot])
<1> DEFINE n == Len(slots)
           c == Contents(m, slots)
           T == {m.fBuffer[x] : x \in Slots}
           a == Append(slots, slot)
           f == [i \in 1 .. n + 1 |-> m.fBuffer[a[i]]]
           g == Append(c, m.fBuffer[slot])
<1>1. n \in Nat /\ Len(a) = n + 1 /\ a[n + 1] = slot /\ \A i \in 1 .. n : a[i] = slots[i]
  BY AppendProperties
<1>2. \A i \in 1 .. n : slots[i] \in Slots
  OBVIOUS
<1>3. Contents(m, a) = f
  BY <1>1 DEF Contents
<1>4. c = [i \in 1 .. n |-> m.fBuffer[slots[i]]]
  BY DEF Contents
<1>5. \A x \in Slots : m.fBuffer[x] \in T
  OBVIOUS
<1> HIDE DEF n, c, a, T
<1>6. c \in Seq(T) /\ Len(c) = n
  BY <1>1, <1>2, <1>4, <1>5
<1>7. /\ g \in Seq(T) /\ Len(g) = n + 1 /\ g[n + 1] = m.fBuffer[slot]
      /\ \A i \in 1 .. n : g[i] = c[i]
  BY <1>1, <1>5, <1>6, AppendProperties
<1> HIDE DEF g
<1>8. g = [i \in 1 .. n + 1 |-> g[i]]
  BY <1>1, <1>7
<1>9. \A i \in 1 .. n + 1 : g[i] = m.fBuffer[a[i]]
  <2> SUFFICES ASSUME NEW i \in 1 .. n + 1 PROVE g[i] = m.fBuffer[a[i]]
    OBVIOUS
  <2>1. CASE i = n + 1
    BY <1>1, <1>7, <2>1
  <2>2. CASE i # n + 1
    <3>1. i \in 1 .. n
      BY <1>1, <2>2
    <3> QED BY <1>1, <1>4, <1>7, <3>1
  <2> QED BY <2>1, <2>2
<1>10. g = f
  BY <1>8, <1>9
<1> QED BY <1>3, <1>10 DEF g, c, a

LEMMA ContentsRemoveAt ==
  ASSUME NEW m, NEW slots \in Seq(Slots), NEW k \in 1 .. Len(slots)
  PROVE  Contents(m, RemoveAt(slots, k)) = RemoveAt(Contents(m, slots), k)
<1> DEFINE n == Len(slots)
           c == Contents(m, slots)
           T == {m.fBuffer[x] : x \in Slots}
           r == RemoveAt(slots, k)
           q == RemoveAt(c, k)
<1>1. /\ n \in Nat /\ k \in 1 .. n /\ Len(r) = n - 1
      /\ \A i \in 1 .. n - 1 : r[i] = IF i < k THEN slots[i] ELSE slots[i + 1]
  BY RemoveAtIs
<1>2. \A i \in 1 .. n : slots[i] \in Slots
  OBVIOUS
<1>3. Contents(m, r) = [i \in 1 .. n - 1 |-> m.fBuffer[r[i]]]
  BY <1>1 DEF Contents
<1>4. c = [i \in 1 .. n |-> m.fBuffer[slots[i]]]
  BY DEF Contents
<1>5. \A x \in Slots : m.fBuffer[x] \in T
  OBVIOUS
<1> HIDE DEF n, c, r, T
<1>6. c \in Seq(T) /\ Len(c) = n
  BY <1>1, <1>2, <1>4, <1>5
<1>7. /\ q \in Seq(T) /\ Len(q) = n - 1
      /\ \A i \in 1 .. n - 1 : q[i] = IF i < k THEN c[i] ELSE c[i + 1]
  BY <1>1, <1>6, RemoveAtIs
<1> HIDE DEF q
<1>8. q = [i \in 1 .. n - 1 |-> q[i]]
  BY <1>1, <1>7
<1>9. \A i \in 1 .. n - 1 : q[i] = m.fBuffer[r[i]]
  <2> SUFFICES ASSUME NEW i \in 1 .. n - 1 PROVE q[i] = m.fBuffer[r[i]]
    OBVIOUS
  <2>1. i \in 1 .. n /\ i + 1 \in 1 .. n
    BY <1>1
  <2>2. CASE i < k
    BY <1>1, <1>4, <1>7, <2>1, <2>2
  <2>3. CASE ~(i < k)
    BY <1>1, <1>4, <1>7, <2>1, <2>3
  <2> QED BY <2>2, <2>3
<1>10. q = [i \in 1 .. n - 1 |-> m.fBuffer[r[i]]]
  BY <1>8, <1>9
<1> QED BY <1>3, <1>10 DEF q, c, r

-----------------------------------------------------------------------------
(* A manager that carries the tracks of A in the slots that are to be      *)
(* processed, and those of B in its next slots, all in the used part.      *)
Carries(m, d, A, B) ==
  /\ m \in Managers(Room) /\ Ring(m)
  /\ d \in Seq(Slots) /\ \A i \in 1 .. Len(d) : d[i] \in Used(m)
  /\ Holds(Contents(m, d), A) /\ Holds(Contents(m, m.fNextTracks), B)

LEMMA CarriesFacts ==
  ASSUME NEW m, NEW d, NEW A, NEW B, Carries(m, d, A, B)
  PROVE  /\ m \in Managers(Room) /\ Ring(m) /\ d \in Seq(Slots) /\ Len(d) \in Nat
         /\ m.fNextTracks \in Seq(Slots) /\ Len(m.fNextTracks) \in Nat
         /\ \A i \in 1 .. Len(m.fNextTracks) : m.fNextTracks[i] \in Used(m)
         /\ m.fStart \in Nat /\ m.fNextFree \in Nat /\ m.fInFlight \in Nat
         /\ d = <<>> <=> A = {}
         /\ m.fNextTracks = <<>> <=> B = {}
<1>1. m \in Managers(Room) /\ Ring(m) /\ d \in Seq(Slots) /\ Len(d) \in Nat
  BY DEF Carries
<1>2. /\ m.fNextTracks \in Seq(Slots) /\ m.fStart \in Nat /\ m.fNextFree \in Nat
      /\ m.fInFlight \in Nat
  BY <1>1 DEF Managers
<1> DEFINE s == m.fNextTracks
<1> HIDE DEF s
<1>3. s \in Seq(Slots)
  BY <1>2 DEF s
<1>4. /\ Len(s) \in Nat /\ DOMAIN s = 1 .. Len(s)
  BY <1>3
<1>5. ASSUME NEW x \in Seq(Slots), NEW C, Holds(Contents(m, x), C)
      PROVE  x = <<>> <=> C = {}
  <2>1. Len(Contents(m, x)) = Len(x) /\ Len(x) \in Nat
    BY ContentsFacts
  <2>2. (\E i \in 1 .. Len(x) : TRUE) <=> (\E t \in C : TRUE)
    <3>1. \A i \in 1 .. Len(x) : Contents(m, x)[i] \in C
      BY <1>5, <2>1 DEF Holds
    <3>2. \A t \in C : \E i \in 1 .. Len(x) : Contents(m, x)[i] = t
      BY <1>5, <2>1 DEF Holds
    <3> QED BY <3>1, <3>2
  <2>3. x = <<>> <=> ~(\E i \in 1 .. Len(x) : TRUE)
    BY <2>1
  <2> QED BY <2>2, <2>3
<1>6. d = <<>> <=> A = {}
  BY <1>1, <1>5 DEF Carries
<1>7. s = <<>> <=> B = {}
  BY <1>3, <1>5 DEF Carries, s
<1>8. \A i \in 1 .. Len(s) : s[i] \in Used(m)
  BY <1>1, <1>4 DEF Ring, s
<1> QED BY <1>1, <1>2, <1>4, <1>6, <1>7, <1>8 DEF s

LEMMA NextTrackFields ==
  ASSUME NEW m \in Managers(Room), NEW t, NextSlot(m) \in Slots
  PROVE  /\ NextTrack(m, t).fStart = m.fStart /\ NextTrack(m, t).fInFlight = m.fInFlight
         /\ NextTrack(m, t).fNextFree = m.fNextFree + 1
         /\ NextTrack(m, t).fActiveTracks = m.fActiveTracks
         /\ NextTrack(m, t).fNextTracks = Append(m.fNextTracks, NextSlot(m))
         /\ NextTrack(m, t).fBuffer[NextSlot(m)] = t
<1> DEFINE slot == NextSlot(m)
           n == NextTrack(m, t)
<1>1. n = [m EXCEPT !.fNextFree = m.fNextFree + 1, !.fNextTracks = Append(m.fNextTracks, slot),
                    !.fBuffer = [m.fBuffer EXCEPT ![slot] = t]]
  BY DEF NextTrack, Managers
<1> HIDE DEF slot, n
<1>2. /\ n.fStart = m.fStart /\ n.fInFlight = m.fInFlight /\ n.fNextFree = m.fNextFree + 1
      /\ n.fActiveTracks = m.fActiveTracks
      /\ n.fNextTracks = Append(m.fNextTracks, slot)
      /\ n.fBuffer = [m.fBuffer EXCEPT ![slot] = t]
  BY <1>1 DEF Managers
<1>3. m.fBuffer \in [Slots -> Room] /\ slot \in Slots
  BY DEF Managers, slot
<1>4. n.fBuffer[slot] = t
  BY <1>2, <1>3
<1> QED BY <1>2, <1>4 DEF n, slot

(* A new track joins the next ones, and no other is disturbed.             *)
LEMMA CarriesNew ==
  ASSUME NEW m, NEW d, NEW A, NEW B, Carries(m, d, A, B),
         NextSlot(m) # -1, NEW t \in Tracks, t \notin B
  PROVE  Carries(NextTrack(m, t), d, A, B \cup {t})
<1> DEFINE slot == NextSlot(m)
           n == NextTrack(m, t)
           next == m.fNextTracks
<1>1. /\ m \in Managers(Room) /\ Ring(m) /\ d \in Seq(Slots) /\ next \in Seq(Slots)
      /\ \A i \in 1 .. Len(d) : d[i] \in Used(m)
      /\ \A i \in 1 .. Len(next) : next[i] \in Used(m)
  BY CarriesFacts DEF Carries
<1>2. t \in Room
  BY DEF Room
<1>3. /\ slot \in Slots \ Used(m) /\ Used(n) = Used(m) \cup {slot}
      /\ n \in Managers(Room) /\ Ring(n)
      /\ \A s \in Used(m) : n.fBuffer[s] = m.fBuffer[s]
  BY <1>1, <1>2, NextTrackIsFresh
<1>4. n.fNextTracks = Append(next, slot) /\ n.fBuffer[slot] = t
  BY <1>1, <1>3, NextTrackFields
<1>5. Holds(Contents(m, d), A) /\ Holds(Contents(m, next), B)
  BY DEF Carries
<1> HIDE DEF slot, n, next
<1>6. Contents(n, d) = Contents(m, d)
  <2>1. \A i \in 1 .. Len(d) : n.fBuffer[d[i]] = m.fBuffer[d[i]]
    BY <1>1, <1>3
  <2> QED BY <1>1, <2>1, ContentsAreOfTheBuffer
<1>7. Contents(n, next) = Contents(m, next)
  <2>1. \A i \in 1 .. Len(next) : n.fBuffer[next[i]] = m.fBuffer[next[i]]
    BY <1>1, <1>3
  <2> QED BY <1>1, <2>1, ContentsAreOfTheBuffer
<1>8. Contents(n, n.fNextTracks) = Append(Contents(m, next), t)
  BY <1>1, <1>3, <1>4, <1>7, ContentsAppend
<1>9. Holds(Contents(n, n.fNextTracks), B \cup {t})
  BY <1>5, <1>8, HoldsAppend
<1>10. \A i \in 1 .. Len(d) : d[i] \in Used(n)
  BY <1>1, <1>3
<1> QED BY <1>1, <1>3, <1>5, <1>6, <1>9, <1>10 DEF Carries, n

(* A processed track leaves its slot, or enqueues it for the next          *)
(* iteration.                                                              *)
LEMMA CarriesLess ==
  ASSUME NEW m, NEW d, NEW A, NEW B, Carries(m, d, A, B), NEW i \in 1 .. Len(d)
  PROVE  /\ m.fBuffer[d[i]] \in A
         /\ Carries(m, RemoveAt(d, i), A \ {m.fBuffer[d[i]]}, B)
<1> DEFINE r == RemoveAt(d, i)
           t == m.fBuffer[d[i]]
<1>1. m \in Managers(Room) /\ Ring(m) /\ d \in Seq(Slots) /\ Len(d) \in Nat
  BY CarriesFacts
<1>2. /\ r \in Seq(Slots) /\ Len(r) = Len(d) - 1
      /\ \A j \in 1 .. Len(d) - 1 : r[j] = IF j < i THEN d[j] ELSE d[j + 1]
  BY <1>1, RemoveAtIs
<1>3. \A j \in 1 .. Len(r) : r[j] \in Used(m)
  <2> SUFFICES ASSUME NEW j \in 1 .. Len(d) - 1 PROVE r[j] \in Used(m)
    BY <1>2
  <2> HIDE DEF r
  <2>1. j \in 1 .. Len(d) /\ j + 1 \in 1 .. Len(d)
    BY <1>1
  <2>2. d[j] \in Used(m) /\ d[j + 1] \in Used(m)
    BY <2>1 DEF Carries
  <2> QED BY <1>2, <2>2
<1> DEFINE c == Contents(m, d)
<1>4. Len(c) = Len(d) /\ c[i] = t
  BY <1>1, ContentsFacts
<1>5. Contents(m, r) = RemoveAt(c, i)
  BY <1>1, ContentsRemoveAt
<1>6. Holds(c, A) /\ Holds(Contents(m, m.fNextTracks), B)
  BY DEF Carries
<1> HIDE DEF c, r, t
<1>7. t \in A /\ Holds(Contents(m, r), A \ {t})
  BY <1>4, <1>5, <1>6, HoldsRemoveAt
<1> QED BY <1>1, <1>2, <1>3, <1>6, <1>7 DEF Carries, r, t

LEMMA CarriesSurvivor ==
  ASSUME NEW m, NEW d, NEW A, NEW B, Carries(m, d, A, B), NEW i \in 1 .. Len(d), A \cap B = {}
  PROVE  Carries([m EXCEPT !.fNextTracks = Append(@, d[i])], RemoveAt(d, i),
                 A \ {m.fBuffer[d[i]]}, B \cup {m.fBuffer[d[i]]})
<1> DEFINE r == RemoveAt(d, i)
           t == m.fBuffer[d[i]]
           next == m.fNextTracks
           n == [m EXCEPT !.fNextTracks = Append(next, d[i])]
<1>1. t \in A /\ Carries(m, r, A \ {t}, B)
  BY CarriesLess
<1>2. /\ m \in Managers(Room) /\ Ring(m) /\ d \in Seq(Slots) /\ next \in Seq(Slots)
      /\ r \in Seq(Slots) /\ Len(next) \in Nat
      /\ \A j \in 1 .. Len(next) : next[j] \in Used(m)
  BY <1>1, CarriesFacts
<1>3. d[i] \in Slots /\ d[i] \in Used(m)
  BY <1>2 DEF Carries
<1>4. /\ Append(next, d[i]) \in Seq(Slots) /\ Len(Append(next, d[i])) = Len(next) + 1
      /\ \A j \in 1 .. Len(next) : Append(next, d[i])[j] = next[j]
      /\ Append(next, d[i])[Len(next) + 1] = d[i]
  BY <1>2, <1>3, AppendProperties
<1> HIDE DEF next
<1>5. /\ n.fStart = m.fStart /\ n.fNextFree = m.fNextFree /\ n.fBuffer = m.fBuffer
      /\ n.fNextTracks = Append(next, d[i]) /\ n \in Managers(Room)
  BY <1>2, <1>4 DEF Managers
<1> HIDE DEF n, r, t
<1>6. Used(n) = Used(m)
  BY <1>5 DEF Used
<1>7. Ring(n)
  <2>1. \A j \in 1 .. Len(next) + 1 : Append(next, d[i])[j] \in Used(m)
    <3>1. \A j \in 1 .. Len(next) + 1 : j \in 1 .. Len(next) \/ j = Len(next) + 1
      BY <1>2
    <3> QED BY <1>2, <1>3, <1>4, <3>1
  <2>2. DOMAIN n.fNextTracks = 1 .. Len(next) + 1
    BY <1>4, <1>5
  <2> QED BY <1>2, <1>5, <1>6, <2>1, <2>2 DEF Ring
<1>8. Contents(n, r) = Contents(m, r)
  BY <1>2, <1>5, ContentsAreOfTheBuffer
<1>9. Contents(n, n.fNextTracks) = Append(Contents(m, next), t)
  <2>1. Contents(n, n.fNextTracks) = Append(Contents(n, next), n.fBuffer[d[i]])
    BY <1>2, <1>3, <1>5, ContentsAppend
  <2>2. Contents(n, next) = Contents(m, next)
    BY <1>2, <1>5, ContentsAreOfTheBuffer
  <2> QED BY <1>5, <2>1, <2>2 DEF t
<1>10. Holds(Contents(n, n.fNextTracks), B \cup {t})
  <2>1. Holds(Contents(m, next), B) /\ t \notin B
    BY <1>1 DEF Carries, next
  <2> QED BY <1>9, <2>1, HoldsAppend
<1>11. Holds(Contents(n, r), A \ {t}) /\ \A j \in 1 .. Len(r) : r[j] \in Used(n)
  BY <1>1, <1>6, <1>8 DEF Carries
<1>12. Carries(n, r, A \ {t}, B \cup {t})
  BY <1>2, <1>5, <1>7, <1>10, <1>11 DEF Carries
<1> QED BY <1>12 DEF n, r, t, next

-----------------------------------------------------------------------------
LEMMA Induction ==
  ASSUME NEW N \in Nat, NEW S \in SUBSET (0 .. N), 0 \in S,
         \A n \in 0 .. N - 1 : n \in S => n + 1 \in S
  PROVE  \A n \in 0 .. N : n \in S
<1> DEFINE Wrong == (0 .. N) \ S
<1>1. SUFFICES ASSUME Wrong # {} PROVE FALSE
  OBVIOUS
<1>2. Wrong \in SUBSET Nat
  OBVIOUS
<1>3. PICK m \in Wrong : \A y \in Wrong : m <= y
  <2> HIDE DEF Wrong
  <2> QED BY <1>1, <1>2, LeastNatural
<1>4. m \in 0 .. N /\ m # 0 /\ m \notin S
  BY <1>3
<1>5. m - 1 \in 0 .. N - 1 /\ m - 1 \in 0 .. N /\ ~(m <= m - 1) /\ m - 1 + 1 = m
  BY <1>4
<1>6. m - 1 \in S
  BY <1>3, <1>5
<1> QED BY <1>4, <1>5, <1>6

(* The recursion of Copied has a solution.                                 *)
LEMMA CopiesFollowEachOther ==
  ASSUME NEW m, NEW where, Len(m.fNextTracks) \in Nat
  PROVE  \E copied :
           /\ Copied(m, where) = copied[Len(m.fNextTracks)]
           /\ copied[0] = m.fBuffer
           /\ \A n \in 1 .. Len(m.fNextTracks) :
                LET i == Len(m.fNextTracks) - n + 1
                IN copied[n] = CopyTrack(copied[n - 1], m.fNextTracks[i], Target(where, i))
<1> DEFINE N == Len(m.fNextTracks)
           Turn(c, n) == CopyTrack(c, m.fNextTracks[N - n + 1], Target(where, N - n + 1))
           Turns(f, n) == [i \in 0 .. n |-> IF i = 0 THEN m.fBuffer ELSE Turn(f[i - 1], i)]
           S == {n \in 0 .. N : \E f : f = Turns(f, n)}
           copied == CHOOSE f : f = Turns(f, N)
<1>1. Copied(m, where) = copied[N]
  BY DEF Copied
<1>2. N \in Nat
  OBVIOUS
<1> HIDE DEF N, Turn
<1>3. 0 \in S
  <2> DEFINE f == [i \in 0 .. 0 |-> m.fBuffer]
  <2>1. f = Turns(f, 0)
    BY SMT
  <2> HIDE DEF f, Turns
  <2> QED BY <1>2, <2>1
<1>4. ASSUME NEW n \in 0 .. N - 1, n \in S
      PROVE  n + 1 \in S
  <2>1. PICK f : f = Turns(f, n)
    BY <1>4
  <2> DEFINE g == [i \in 0 .. n + 1 |-> IF i = n + 1 THEN Turn(f[n], n + 1) ELSE f[i]]
  <2>2. n \in Nat /\ n + 1 \in 0 .. N /\ n + 1 # 0 /\ n + 1 - 1 = n
    BY <1>2
  <2>3. \A i \in 0 .. n : i \in 0 .. n + 1 /\ i # n + 1
    BY <2>2
  <2>4. \A i \in 0 .. n : g[i] = f[i]
    BY <2>3
  <2>5. \A i \in 0 .. n : f[i] = IF i = 0 THEN m.fBuffer ELSE Turn(f[i - 1], i)
    BY <2>1
  <2>6. \A i \in 0 .. n + 1 : g[i] = IF i = 0 THEN m.fBuffer ELSE Turn(g[i - 1], i)
    <3> SUFFICES ASSUME NEW i \in 0 .. n + 1
                 PROVE  g[i] = IF i = 0 THEN m.fBuffer ELSE Turn(g[i - 1], i)
      OBVIOUS
    <3>1. CASE i = n + 1
      <4>1. g[i] = Turn(f[n], n + 1)
        BY <3>1
      <4>2. g[i - 1] = f[n]
        BY <2>2, <2>4, <3>1
      <4> HIDE DEF g
      <4> QED BY <2>2, <3>1, <4>1, <4>2
    <3>2. CASE i # n + 1
      <4>1. i \in 0 .. n
        BY <2>2, <3>2
      <4>2. g[i] = f[i] /\ (i # 0 => g[i - 1] = f[i - 1])
        <5>1. i # 0 => i - 1 \in 0 .. n
          BY <2>2, <4>1
        <5> HIDE DEF g
        <5> QED BY <2>4, <4>1, <5>1
      <4> HIDE DEF g
      <4> QED BY <2>5, <4>1, <4>2
    <3> QED BY <3>1, <3>2
  <2>7. g = Turns(g, n + 1)
    <3>1. g = [i \in 0 .. n + 1 |-> g[i]]
      OBVIOUS
    <3> HIDE DEF g
    <3> QED BY <2>6, <3>1
  <2> QED BY <2>2, <2>7
<1>5. N \in S
  <2>1. S \in SUBSET (0 .. N)
    OBVIOUS
  <2> HIDE DEF S
  <2>2. \A n \in 0 .. N : n \in S
    BY <1>2, <1>3, <1>4, <2>1, Induction
  <2> QED BY <1>2, <2>2
<1>6. copied = Turns(copied, N)
  <2>1. \E f : f = Turns(f, N)
    BY <1>5
  <2> HIDE DEF Turns
  <2> QED BY <2>1
<1> HIDE DEF copied
<1>7. \A n \in 0 .. N : copied[n] = IF n = 0 THEN m.fBuffer ELSE Turn(copied[n - 1], n)
  BY <1>6
<1>8. copied[0] = m.fBuffer
  BY <1>2, <1>7
<1>9. \A n \in 1 .. N : copied[n] = Turn(copied[n - 1], n)
  BY <1>2, <1>7
<1> QED BY <1>1, <1>8, <1>9 DEF N, Turn

(* The compaction leads the slots where it moves the tracks to the same    *)
(* tracks, however many there are: what a copy reads no earlier one wrote. *)
LEMMA CopiesAreComplete ==
  ASSUME NEW m \in Managers(Room), NEW where \in Nat,
         \A i \in 1 .. Len(m.fNextTracks) :
           /\ Target(where, i) \in Slots
           /\ \A j \in 1 .. Len(m.fNextTracks) :
                /\ m.fNextTracks[j] # Target(where, i)
                /\ Target(where, j) = Target(where, i) => j = i
  PROVE  /\ Copied(m, where) \in [Slots -> Room]
         /\ \A i \in 1 .. Len(m.fNextTracks) :
              Copied(m, where)[Target(where, i)] = m.fBuffer[m.fNextTracks[i]]
<1> DEFINE N == Len(m.fNextTracks)
           next == m.fNextTracks
           buffer == m.fBuffer
<1>1. /\ N \in Nat /\ \A i \in 1 .. N : next[i] \in Slots
      /\ buffer \in [Slots -> Room]
  BY DEF Managers
<1>2. PICK copied : /\ Copied(m, where) = copied[N]
                    /\ copied[0] = buffer
                    /\ \A n \in 1 .. N :
                         copied[n] = CopyTrack(copied[n - 1], next[N - n + 1], Target(where, N - n + 1))
  BY <1>1, CopiesFollowEachOther
<1>3. \A i \in 1 .. N :
        /\ Target(where, i) \in Slots
        /\ \A j \in 1 .. N : next[j] # Target(where, i) /\ (Target(where, j) = Target(where, i) => j = i)
  OBVIOUS
<1> HIDE DEF N, next, buffer
<1> DEFINE Moved(c, n) ==
             /\ c \in [Slots -> Room]
             /\ \A i \in N - n + 1 .. N : c[Target(where, i)] = buffer[next[i]]
             /\ \A i \in 1 .. N : c[next[i]] = buffer[next[i]]
           S == {n \in 0 .. N : Moved(copied[n], n)}
<1>4. 0 \in S
  <2>1. N - 0 + 1 .. N = {}
    BY <1>1
  <2> QED BY <1>1, <1>2, <2>1
<1>5. ASSUME NEW n \in 0 .. N - 1, n \in S
      PROVE  n + 1 \in S
  <2> DEFINE b == copied[n]
             c == copied[n + 1]
             k == N - n
             from == next[k]
             to == Target(where, k)
  <2>1. /\ n \in Nat /\ n + 1 \in 1 .. N /\ n + 1 \in 0 .. N /\ n + 1 - 1 = n
        /\ k \in 1 .. N /\ N - (n + 1) + 1 = k
    BY <1>1
  <2>2. c = CopyTrack(b, from, to)
    BY <1>2, <2>1
  <2>3. Moved(b, n)
    BY <1>5
  <2>4. from \in Slots /\ to \in Slots
    BY <1>1, <1>3, <2>1
  <2> HIDE DEF b, c, from, to
  <2>5. c = [b EXCEPT ![to] = b[from]] /\ b \in [Slots -> Room]
    BY <2>2, <2>3 DEF CopyTrack
  <2>6. c \in [Slots -> Room] /\ c[to] = b[from] /\ \A x \in Slots : x # to => c[x] = b[x]
    BY <2>4, <2>5
  <2>7. c[to] = buffer[next[k]]
    BY <2>1, <2>3, <2>6 DEF from
  <2>8. ASSUME NEW i \in 1 .. N PROVE c[next[i]] = buffer[next[i]]
    <3>1. next[i] # to /\ next[i] \in Slots
      BY <1>1, <1>3, <2>1 DEF to
    <3> QED BY <2>3, <2>6, <3>1
  <2>9. ASSUME NEW i \in k .. N PROVE c[Target(where, i)] = buffer[next[i]]
    <3>1. CASE i = k
      BY <2>7, <3>1 DEF to
    <3>2. CASE i # k
      <4>1. i \in 1 .. N /\ i \in N - n + 1 .. N
        BY <1>1, <2>1, <3>2
      <4>2. Target(where, i) # to /\ Target(where, i) \in Slots
        BY <1>3, <2>1, <3>2, <4>1 DEF to
      <4> QED BY <2>3, <2>6, <4>1, <4>2
    <3> QED BY <3>1, <3>2
  <2>10. Moved(c, n + 1)
    BY <2>1, <2>6, <2>8, <2>9
  <2> QED BY <2>1, <2>10 DEF c
<1>6. \A n \in 0 .. N : n \in S
  <2>1. S \in SUBSET (0 .. N)
    OBVIOUS
  <2> HIDE DEF S
  <2> QED BY <1>1, <1>4, <1>5, <2>1, Induction
<1>7. Moved(copied[N], N)
  BY <1>1, <1>6
<1>8. N - N + 1 = 1
  BY <1>1
<1> QED BY <1>2, <1>7, <1>8 DEF N, next, buffer

LEMMA Defragmented ==
  ASSUME NEW m \in Managers(Room), NEW where \in Nat, m.fActiveTracks = <<>>,
         \A i \in 1 .. Len(m.fNextTracks) :
           /\ Target(where, i) \in Slots
           /\ \A j \in 1 .. Len(m.fNextTracks) :
                /\ m.fNextTracks[j] # Target(where, i)
                /\ Target(where, j) = Target(where, i) => j = i
  PROVE  LET n == defragment_buffer(m, where)
         IN /\ n \in Managers(Room) /\ n.fInFlight = m.fInFlight
            /\ Len(n.fActiveTracks) = Len(m.fNextTracks)
            /\ \A i \in 1 .. Len(m.fNextTracks) :
                 /\ n.fActiveTracks[i] = Target(where, i)
                 /\ n.fBuffer[Target(where, i)] = m.fBuffer[m.fNextTracks[i]]
<1> DEFINE N == Len(m.fNextTracks)
           moved == [i \in 1 .. N |-> Target(where, i)]
           active == <<>> \o [i \in DOMAIN m.fNextTracks |-> Target(where, i)]
           buffer == Copied(m, where)
           n == [m EXCEPT !.fBuffer = buffer, !.fActiveTracks = active]
<1>1. N \in Nat /\ DOMAIN m.fNextTracks = 1 .. N
  BY DEF Managers
<1>2. \A i \in 1 .. N : Target(where, i) \in Slots
  OBVIOUS
<1>3. buffer \in [Slots -> Room]
  BY CopiesAreComplete
<1>4. \A i \in 1 .. N : buffer[Target(where, i)] = m.fBuffer[m.fNextTracks[i]]
  BY CopiesAreComplete
<1>5. defragment_buffer(m, where) = n
  BY DEF defragment_buffer, Managers
<1>6. moved \in Seq(Slots) /\ Len(moved) = N /\ \A i \in 1 .. N : moved[i] = Target(where, i)
  <2> DEFINE T(i) == Target(where, i)
  <2>1. \A i \in 1 .. N : T(i) \in Slots
    BY <1>2
  <2> HIDE DEF T, N
  <2>2. LET t == [i \in 1 .. N |-> T(i)]
        IN t \in Seq(Slots) /\ Len(t) = N /\ \A i \in 1 .. N : t[i] = T(i)
    BY <1>1, <2>1
  <2> QED BY <2>2 DEF T
<1>7. active = moved
  <2>1. active = <<>> \o moved
    BY <1>1
  <2> HIDE DEF moved, active
  <2>2. <<>> \o moved = moved
    BY <1>6, ConcatEmptySeq
  <2> QED BY <2>1, <2>2
<1> HIDE DEF buffer, active, moved
<1>8. /\ n \in Managers(Room) /\ n.fInFlight = m.fInFlight /\ n.fActiveTracks = active
      /\ n.fBuffer = buffer
  BY <1>3, <1>6, <1>7 DEF Managers
<1> HIDE DEF n
<1> QED BY <1>4, <1>5, <1>6, <1>7, <1>8 DEF N

(* The end of an iteration, with the old active slots all processed: the   *)
(* next tracks become the active ones, compacted or not.                   *)
LEMMA CarriesOn ==
  ASSUME NEW m, NEW A, NEW B, Carries(m, <<>>, A, B)
  PROVE  LET n == SwapAndCompact(refresh_stats(m))
         IN /\ Carries(n, n.fActiveTracks, B, {})
            /\ n.fInFlight = 0 => B = {} /\ n.fNextFree = n.fStart
<1> DEFINE r == refresh_stats(m)
           n == SwapAndCompact(r)
<1>1. /\ m \in Managers(Room) /\ Ring(m) /\ m.fNextTracks \in Seq(Slots)
      /\ Len(m.fNextTracks) \in Nat /\ (m.fNextTracks = <<>> <=> B = {})
      /\ Holds(Contents(m, m.fNextTracks), B)
  BY CarriesFacts DEF Carries
<1>2. Vacant \in Room
  BY DEF Room
<1>3. /\ r \in Managers(Room) /\ Ring(r) /\ r.fNextStart = r.fNextFree
      /\ Ring(swap(r))
  BY <1>1, <1>2, IterationKeepsRing
<1>4. /\ r.fNextTracks = m.fNextTracks /\ r.fInFlight = Len(r.fNextTracks)
      /\ r.fActiveTracks = <<>> /\ (B = {} => r.fNextFree = r.fStart)
      /\ \A i \in 1 .. Len(m.fNextTracks) : r.fBuffer[m.fNextTracks[i]] = m.fBuffer[m.fNextTracks[i]]
  <2>1. CASE m.fNextTracks = <<>>
    <3>1. r = NewManager
      BY <2>1 DEF refresh_stats, clear
    <3> HIDE DEF r
    <3>2. /\ r.fNextTracks = <<>> /\ r.fInFlight = 0 /\ r.fActiveTracks = <<>>
          /\ r.fNextFree = r.fStart
      BY <3>1 DEF NewManager
    <3>3. Len(m.fNextTracks) = 0 /\ \A i \in 1 .. 0 : FALSE
      BY <2>1
    <3> QED BY <2>1, <3>2, <3>3
  <2>2. CASE m.fNextTracks # <<>>
    <3>1. r = [m EXCEPT !.fNextStart = m.fNextFree, !.fInFlight = Len(m.fNextTracks),
                        !.fActiveTracks = <<>>]
      BY <2>2 DEF refresh_stats
    <3> HIDE DEF r
    <3> QED BY <1>1, <2>2, <3>1 DEF Managers
  <2> QED BY <2>1, <2>2
<1> HIDE DEF r
<1>5. Holds(Contents(r, r.fNextTracks), B)
  <2>1. Contents(r, r.fNextTracks) = Contents(m, m.fNextTracks)
    BY <1>1, <1>4, ContentsAreOfTheBuffer
  <2> QED BY <1>1, <2>1
<1> DEFINE next == r.fNextTracks
<1>6. next \in Seq(Slots) /\ Len(next) \in Nat /\ DOMAIN next = 1 .. Len(next)
  BY <1>1, <1>4
<1>7. r.fInFlight = 0 => B = {}
  BY <1>1, <1>4, <1>6
<1>8. \A i \in 1 .. Len(next) : next[i] \in Used(r)
  BY <1>3, <1>6 DEF Ring
<1>9. ASSUME NEW x PROVE Holds(Contents(x, <<>>), {})
  <2>1. Contents(x, <<>>) = <<>>
    BY DEF Contents
  <2> QED BY <2>1, HoldsNothing
<1> HIDE DEF next, n
<1>10. ASSUME n = swap(r)
       PROVE  Carries(n, n.fActiveTracks, B, {}) /\ (n.fInFlight = 0 => B = {} /\ n.fNextFree = n.fStart)
  <2> DEFINE s == swap(r)
  <2>1. s = [r EXCEPT !.fActiveTracks = next, !.fNextTracks = <<>>]
    BY <1>4 DEF swap, next
  <2> HIDE DEF s
  <2>2. /\ s \in Managers(Room) /\ s.fActiveTracks = next /\ s.fNextTracks = <<>>
        /\ s.fBuffer = r.fBuffer /\ s.fStart = r.fStart /\ s.fNextFree = r.fNextFree
        /\ s.fInFlight = r.fInFlight
    <3>1. <<>> \in Seq(Slots)
      OBVIOUS
    <3> QED BY <1>3, <1>6, <2>1, <3>1 DEF Managers
  <2>3. Used(s) = Used(r)
    BY <2>2 DEF Used
  <2>4. Contents(s, next) = Contents(r, next)
    BY <1>6, <2>2, ContentsAreOfTheBuffer
  <2>5. Holds(Contents(s, s.fActiveTracks), B) /\ Holds(Contents(s, s.fNextTracks), {})
    BY <1>5, <1>9, <2>2, <2>4 DEF next
  <2>6. Ring(s)
    BY <1>3 DEF s
  <2>7. Carries(s, s.fActiveTracks, B, {})
    BY <1>6, <1>8, <2>2, <2>3, <2>5, <2>6 DEF Carries
  <2>8. s.fInFlight = 0 => B = {} /\ s.fNextFree = s.fStart
    BY <1>4, <1>7, <2>2
  <2> QED BY <1>10, <2>7, <2>8 DEF s
<1>11. ASSUME n # swap(r)
       PROVE  Carries(n, n.fActiveTracks, B, {}) /\ (n.fInFlight = 0 => B = {} /\ n.fNextFree = n.fStart)
  <2> DEFINE where == r.fNextStart % fCapacity
             f == defragment_buffer(r, where)
             c == adjust_indices(f, where, where + r.fInFlight)
  <2>1. n = c /\ can_compress(r)
    BY <1>11 DEF SwapAndCompact, n
  <2>2. /\ fCapacity \in Nat \ {0} /\ r.fStart \in Nat /\ r.fNextStart \in Nat
        /\ r.fNextFree \in r.fStart .. r.fStart + fCapacity /\ r.fInFlight \in Nat
    BY <1>3, TrackManagerAssumption DEF Managers, Ring
  <2>3. where \in Nat /\ r.fInFlight < fCapacity
    <3>1. where \in 0 .. fCapacity - 1
      BY <2>2, Division
    <3> HIDE DEF where
    <3>2. r.fNextFree - r.fStart + r.fInFlight < fCapacity
      BY <1>3, <2>1 DEF can_compress, GetNused
    <3> QED BY <2>2, <3>1, <3>2
  <2>4. ASSUME NEW i \in 1 .. Len(next)
        PROVE  /\ Target(where, i) \in Slots
               /\ \A j \in 1 .. Len(next) : /\ next[j] # Target(where, i)
                                            /\ Target(where, j) = Target(where, i) => j = i
    <3>1. i \in 1 .. r.fInFlight
      BY <1>4 DEF next
    <3>2. /\ Target(where, i) \in Slots \ Used(r)
          /\ \A j \in DOMAIN r.fNextTracks : r.fNextTracks[j] # Target(where, i)
          /\ \A j \in 1 .. r.fInFlight : Target(where, j) = Target(where, i) => j = i
      BY <1>3, <2>1, <3>1, CompactionRoomIsFree
    <3> HIDE DEF where
    <3> QED BY <1>4, <1>6, <3>2 DEF next
  <2> HIDE DEF where
  <2>5. /\ f \in Managers(Room) /\ f.fInFlight = r.fInFlight /\ Len(f.fActiveTracks) = Len(next)
        /\ \A i \in 1 .. Len(next) : /\ f.fActiveTracks[i] = Target(where, i)
                                     /\ f.fBuffer[Target(where, i)] = r.fBuffer[next[i]]
    BY <1>3, <1>4, <2>3, <2>4, Defragmented DEF next
  <2> HIDE DEF f
  <2>6. Used(c) = {Target(where, i) : i \in 1 .. r.fInFlight} /\ Ring(c)
    BY <2>2, <2>3, <2>5, CompactedRing
  <2>7. c = [f EXCEPT !.fStart = where, !.fNextFree = where + r.fInFlight, !.fNextTracks = <<>>]
    BY DEF adjust_indices
  <2> HIDE DEF c
  <2>8. /\ c \in Managers(Room) /\ c.fActiveTracks = f.fActiveTracks /\ c.fNextTracks = <<>>
        /\ c.fBuffer = f.fBuffer /\ c.fInFlight = r.fInFlight
        /\ c.fStart = where /\ c.fNextFree = where + r.fInFlight
    <3>1. <<>> \in Seq(Slots) /\ where + r.fInFlight \in Nat
      BY <2>2, <2>3
    <3> QED BY <2>3, <2>5, <2>7, <3>1 DEF Managers
  <2> DEFINE a == c.fActiveTracks
  <2>9. a \in Seq(Slots) /\ Len(a) = Len(next)
    BY <2>5, <2>8 DEF Managers
  <2>10. \A i \in 1 .. Len(next) : a[i] \in Used(c) /\ c.fBuffer[a[i]] = r.fBuffer[next[i]]
    BY <1>4, <2>5, <2>6, <2>8 DEF next
  <2> HIDE DEF a
  <2>11. Contents(c, a) = Contents(r, next)
    BY <1>6, <2>9, <2>10 DEF Contents
  <2>12. Carries(c, c.fActiveTracks, B, {})
    BY <1>5, <1>9, <2>6, <2>8, <2>9, <2>10, <2>11 DEF Carries, a, next
  <2>13. c.fInFlight = 0 => c.fNextFree = c.fStart
    BY <2>3, <2>8
  <2>14. c.fInFlight = 0 => B = {}
    BY <1>7, <2>8
  <2> QED BY <2>1, <2>12, <2>13, <2>14
<1> QED BY <1>10, <1>11 DEF n, r

-----------------------------------------------------------------------------
(* The recursion of NewTracks has a solution.                              *)
LEMMA NewTracksFollowEachOther ==
  ASSUME NEW managers, NEW tracks, NEW kinds, Len(tracks) \in Nat
  PROVE  \E filled :
           /\ NewTracks(managers, tracks, kinds) = filled[Len(tracks)]
           /\ filled[0] = managers
           /\ \A n \in 1 .. Len(tracks) :
                filled[n] = WithTrack(filled[n - 1], kinds[n], tracks[n])
<1> DEFINE N == Len(tracks)
           Turn(c, n) == WithTrack(c, kinds[n], tracks[n])
           Turns(f, n) == [i \in 0 .. n |-> IF i = 0 THEN managers ELSE Turn(f[i - 1], i)]
           S == {n \in 0 .. N : \E f : f = Turns(f, n)}
           filled == CHOOSE f : f = Turns(f, N)
<1>1. NewTracks(managers, tracks, kinds) = filled[N]
  BY DEF NewTracks
<1>2. N \in Nat
  OBVIOUS
<1> HIDE DEF N, Turn
<1>3. 0 \in S
  <2> DEFINE f == [i \in 0 .. 0 |-> managers]
  <2>1. f = Turns(f, 0)
    BY SMT
  <2> HIDE DEF f, Turns
  <2> QED BY <1>2, <2>1
<1>4. ASSUME NEW n \in 0 .. N - 1, n \in S
      PROVE  n + 1 \in S
  <2>1. PICK f : f = Turns(f, n)
    BY <1>4
  <2> DEFINE g == [i \in 0 .. n + 1 |-> IF i = n + 1 THEN Turn(f[n], n + 1) ELSE f[i]]
  <2>2. n \in Nat /\ n + 1 \in 0 .. N /\ n + 1 # 0 /\ n + 1 - 1 = n
    BY <1>2
  <2>3. \A i \in 0 .. n : i \in 0 .. n + 1 /\ i # n + 1
    BY <2>2
  <2>4. \A i \in 0 .. n : g[i] = f[i]
    BY <2>3
  <2>5. \A i \in 0 .. n : f[i] = IF i = 0 THEN managers ELSE Turn(f[i - 1], i)
    BY <2>1
  <2>6. \A i \in 0 .. n + 1 : g[i] = IF i = 0 THEN managers ELSE Turn(g[i - 1], i)
    <3> SUFFICES ASSUME NEW i \in 0 .. n + 1
                 PROVE  g[i] = IF i = 0 THEN managers ELSE Turn(g[i - 1], i)
      OBVIOUS
    <3>1. CASE i = n + 1
      <4>1. g[i] = Turn(f[n], n + 1)
        BY <3>1
      <4>2. g[i - 1] = f[n]
        BY <2>2, <2>4, <3>1
      <4> HIDE DEF g
      <4> QED BY <2>2, <3>1, <4>1, <4>2
    <3>2. CASE i # n + 1
      <4>1. i \in 0 .. n
        BY <2>2, <3>2
      <4>2. g[i] = f[i] /\ (i # 0 => g[i - 1] = f[i - 1])
        <5>1. i # 0 => i - 1 \in 0 .. n
          BY <2>2, <4>1
        <5> HIDE DEF g
        <5> QED BY <2>4, <4>1, <5>1
      <4> HIDE DEF g
      <4> QED BY <2>5, <4>1, <4>2
    <3> QED BY <3>1, <3>2
  <2>7. g = Turns(g, n + 1)
    <3>1. g = [i \in 0 .. n + 1 |-> g[i]]
      OBVIOUS
    <3> HIDE DEF g
    <3> QED BY <2>6, <3>1
  <2> QED BY <2>2, <2>7
<1>5. N \in S
  <2>1. S \in SUBSET (0 .. N)
    OBVIOUS
  <2> HIDE DEF S
  <2>2. \A n \in 0 .. N : n \in S
    BY <1>2, <1>3, <1>4, <2>1, Induction
  <2> QED BY <1>2, <2>2
<1>6. filled = Turns(filled, N)
  <2>1. \E f : f = Turns(f, N)
    BY <1>5
  <2> HIDE DEF Turns
  <2> QED BY <2>1
<1> HIDE DEF filled
<1>7. \A n \in 0 .. N : filled[n] = IF n = 0 THEN managers ELSE Turn(filled[n - 1], n)
  BY <1>6
<1>8. filled[0] = managers
  BY <1>2, <1>7
<1>9. \A n \in 1 .. N : filled[n] = Turn(filled[n - 1], n)
  BY <1>2, <1>7
<1> QED BY <1>1, <1>8, <1>9 DEF N, Turn

(* The indices of the tracks of a kind among the first n.                  *)
Indices(kinds, n, k) == {i \in 1 .. n : kinds[i] = k}

LEMMA IndexOfAnother ==
  ASSUME NEW kinds, NEW n \in Nat, NEW k, kinds[n + 1] # k
  PROVE  Indices(kinds, n + 1, k) = Indices(kinds, n, k)
<1>1. \A i \in 1 .. n + 1 : i \in 1 .. n \/ i = n + 1
  OBVIOUS
<1>2. \A i \in 1 .. n : i \in 1 .. n + 1
  OBVIOUS
<1> QED BY <1>1, <1>2 DEF Indices

LEMMA OneIndexMore ==
  ASSUME NEW kinds, NEW N \in Nat, NEW n \in 0 .. N - 1, NEW k, kinds[n + 1] = k
  PROVE  /\ Indices(kinds, n + 1, k) = Indices(kinds, n, k) \cup {n + 1}
         /\ Cardinality(Indices(kinds, n + 1, k)) = Cardinality(Indices(kinds, n, k)) + 1
         /\ Cardinality(Indices(kinds, n + 1, k)) <= Cardinality(Indices(kinds, N, k))
         /\ Cardinality(Indices(kinds, n, k)) \in Nat /\ Cardinality(Indices(kinds, N, k)) \in Nat
<1> DEFINE I(m) == Indices(kinds, m, k)
<1>1. \A m \in Nat : IsFiniteSet(I(m)) /\ Cardinality(I(m)) \in Nat
  <2> SUFFICES ASSUME NEW m \in Nat PROVE IsFiniteSet(I(m)) /\ Cardinality(I(m)) \in Nat
    OBVIOUS
  <2>1. IsFiniteSet(1 .. m)
    BY FS_Interval
  <2>2. I(m) \in SUBSET (1 .. m)
    BY DEF Indices
  <2>3. IsFiniteSet(I(m))
    BY <2>1, <2>2, FS_Subset
  <2> QED BY <2>3, FS_CardinalityType
<1>2. n \in Nat /\ n + 1 \in Nat /\ n + 1 \notin 1 .. n
  OBVIOUS
<1>5. I(n + 1) = I(n) \cup {n + 1}
  <2>1. \A i \in 1 .. n + 1 : i \in 1 .. n \/ i = n + 1
    OBVIOUS
  <2>2. n + 1 \in 1 .. n + 1 /\ \A i \in 1 .. n : i \in 1 .. n + 1
    OBVIOUS
  <2> QED BY <2>1, <2>2 DEF Indices
<1>6. n + 1 \notin I(n)
  BY <1>2 DEF Indices
<1>7. I(n + 1) \in SUBSET I(N)
  <2>1. \A i \in 1 .. n + 1 : i \in 1 .. N
    OBVIOUS
  <2> QED BY <2>1 DEF Indices
<1> HIDE DEF I
<1>8. Cardinality(I(n + 1)) = Cardinality(I(n)) + 1
  BY <1>1, <1>2, <1>5, <1>6, FS_AddElement
<1>9. Cardinality(I(n + 1)) <= Cardinality(I(N))
  BY <1>1, <1>7, FS_Subset
<1> QED BY <1>1, <1>2, <1>5, <1>8, <1>9 DEF I

(* The next tracks of a kind when more tracks join them.                   *)
Joined(B, tracks, kinds, k) == B[k] \cup {tracks[i] : i \in Indices(kinds, Len(tracks), k)}

(* New tracks join the next ones of their kinds, if there is room.         *)
LEMMA CarriesNewTracks ==
  ASSUME NEW managers \in [Kinds -> Managers(Room)], NEW d, NEW A, NEW B,
         NEW tracks \in Seq(Tracks), NEW kinds,
         \A i \in 1 .. Len(tracks) : kinds[i] \in Kinds,
         \A i, j \in 1 .. Len(tracks) : tracks[i] = tracks[j] => i = j,
         \A k \in Kinds : Carries(managers[k], d[k], A[k], B[k]),
         \A k \in Kinds : managers[k].fNextFree - managers[k].fStart
                            + Cardinality(Indices(kinds, Len(tracks), k)) <= fCapacity,
         \A i \in 1 .. Len(tracks), k \in Kinds : tracks[i] \notin B[k]
  PROVE  /\ NewTracks(managers, tracks, kinds) \in [Kinds -> Managers(Room)]
         /\ \A k \in Kinds :
              Carries(NewTracks(managers, tracks, kinds)[k], d[k], A[k],
                      Joined(B, tracks, kinds, k))
<1> DEFINE N == Len(tracks)
           C(n, k) == B[k] \cup {tracks[i] : i \in Indices(kinds, n, k)}
<1>1. N \in Nat /\ \A i \in 1 .. N : tracks[i] \in Tracks /\ kinds[i] \in Kinds
  OBVIOUS
<1>2. PICK filled : /\ NewTracks(managers, tracks, kinds) = filled[N]
                    /\ filled[0] = managers
                    /\ \A n \in 1 .. N :
                         filled[n] = WithTrack(filled[n - 1], kinds[n], tracks[n])
  BY <1>1, NewTracksFollowEachOther
<1>3. \A i, j \in 1 .. N : tracks[i] = tracks[j] => i = j
  OBVIOUS
<1>4. \A k \in Kinds : managers[k].fNextFree - managers[k].fStart
                         + Cardinality(Indices(kinds, N, k)) <= fCapacity
  OBVIOUS
<1>5. \A i \in 1 .. N, k \in Kinds : tracks[i] \notin B[k]
  OBVIOUS
<1>6. fCapacity \in Nat \ {0}
  BY TrackManagerAssumption
<1>7. \A k \in Kinds : managers[k].fNextFree \in Nat /\ managers[k].fStart \in Nat
  BY DEF Managers
<1> HIDE DEF N
<1> DEFINE Good(f, n) ==
             /\ f \in [Kinds -> Managers(Room)]
             /\ \A k \in Kinds :
                  /\ Carries(f[k], d[k], A[k], C(n, k))
                  /\ f[k].fStart = managers[k].fStart
                  /\ f[k].fNextFree = managers[k].fNextFree + Cardinality(Indices(kinds, n, k))
           S == {n \in 0 .. N : Good(filled[n], n)}
<1>8. 0 \in S
  <2>1. \A k \in Kinds : C(0, k) = B[k]
    BY DEF Indices
  <2>2. \A k : Cardinality(Indices(kinds, 0, k)) = 0
    <3>1. \A k : Indices(kinds, 0, k) = {}
      BY DEF Indices
    <3> QED BY <3>1, FS_EmptySet
  <2> HIDE DEF C
  <2>3. Good(managers, 0)
    BY <1>7, <2>1, <2>2
  <2> QED BY <1>1, <1>2, <2>3
<1>9. ASSUME NEW n \in 0 .. N - 1, n \in S
      PROVE  n + 1 \in S
  <2> DEFINE f == filled[n]
             g == filled[n + 1]
             k0 == kinds[n + 1]
             t == tracks[n + 1]
  <2>1. n \in Nat /\ n + 1 \in 1 .. N /\ n + 1 \in 0 .. N /\ n + 1 - 1 = n
    BY <1>1
  <2>2. k0 \in Kinds /\ t \in Tracks
    BY <1>1, <2>1
  <2>3. g = [f EXCEPT ![k0] = NextTrack(f[k0], t)]
    <3>1. g = WithTrack(f, k0, t)
      BY <1>2, <2>1
    <3> QED BY Zenon, <3>1 DEF WithTrack
  <2>4. Good(f, n)
    BY <1>9
  <2> HIDE DEF f, g, C
  <2>5. /\ Indices(kinds, n + 1, k0) = Indices(kinds, n, k0) \cup {n + 1}
        /\ Cardinality(Indices(kinds, n + 1, k0)) = Cardinality(Indices(kinds, n, k0)) + 1
        /\ Cardinality(Indices(kinds, n + 1, k0)) <= Cardinality(Indices(kinds, N, k0))
        /\ Cardinality(Indices(kinds, n, k0)) \in Nat /\ Cardinality(Indices(kinds, N, k0)) \in Nat
    BY <1>1, OneIndexMore
  <2>6. C(n + 1, k0) = C(n, k0) \cup {t}
    BY <2>5 DEF C
  <2>7. t \notin C(n, k0)
    <3>1. t \notin B[k0]
      BY <1>5, <2>1, <2>2
    <3>2. \A i \in 1 .. n : tracks[i] # t
      <4>1. \A i \in 1 .. n : i \in 1 .. N /\ i # n + 1
        BY <1>1, <2>1
      <4> QED BY <1>3, <2>1, <4>1
    <3> QED BY <3>1, <3>2 DEF C, Indices
  <2> DEFINE m == f[k0]
  <2>8. /\ m \in Managers(Room) /\ Carries(m, d[k0], A[k0], C(n, k0))
        /\ m.fStart = managers[k0].fStart
        /\ m.fNextFree = managers[k0].fNextFree + Cardinality(Indices(kinds, n, k0))
    BY <2>2, <2>4
  <2> HIDE DEF m, k0, t, Good
  <2>9. NextSlot(m) # -1 /\ NextSlot(m) \in Slots
    <3>1. m.fNextFree - m.fStart < fCapacity /\ m.fNextFree \in Nat
      <4> DEFINE c == Cardinality(Indices(kinds, n, k0))
                 e == Cardinality(Indices(kinds, N, k0))
                 a == managers[k0].fNextFree
                 b == managers[k0].fStart
      <4>1. c \in Nat /\ e \in Nat /\ c + 1 <= e /\ a \in Nat /\ b \in Nat /\ a - b + e <= fCapacity
        BY <1>4, <1>7, <2>2, <2>5
      <4>2. m.fNextFree = a + c /\ m.fStart = b
        BY <2>8
      <4> HIDE DEF a, b, c, e
      <4> QED BY <1>6, <4>1, <4>2
    <3>2. m.fStart \in Nat
      BY <2>8 DEF Managers
    <3>3. NextSlot(m) = m.fNextFree % fCapacity
      BY <1>6, <3>1, <3>2 DEF NextSlot
    <3>4. m.fNextFree % fCapacity \in 0 .. fCapacity - 1
      BY <1>6, <3>1, Division
    <3> HIDE DEF NextSlot
    <3> QED BY <1>6, <3>3, <3>4 DEF Slots
  <2> DEFINE q == NextTrack(m, t)
  <2>10. Carries(q, d[k0], A[k0], C(n + 1, k0))
    BY <2>2, <2>6, <2>7, <2>8, <2>9, CarriesNew
  <2>11. q.fStart = m.fStart /\ q.fNextFree = m.fNextFree + 1 /\ q \in Managers(Room)
    BY <2>8, <2>9, <2>10, NextTrackFields, CarriesFacts
  <2> HIDE DEF q
  <2>12. f \in [Kinds -> Managers(Room)] /\ g = [f EXCEPT ![k0] = q]
    BY <2>3, <2>4 DEF q, m, Good
  <2>13. g \in [Kinds -> Managers(Room)] /\ g[k0] = q /\ \A k \in Kinds \ {k0} : g[k] = f[k]
    BY <2>2, <2>11, <2>12
  <2>14. /\ g[k0].fStart = managers[k0].fStart
         /\ g[k0].fNextFree = managers[k0].fNextFree + Cardinality(Indices(kinds, n + 1, k0))
    <3>1. m.fNextFree + 1 = managers[k0].fNextFree + (Cardinality(Indices(kinds, n, k0)) + 1)
      BY <1>7, <2>2, <2>5, <2>8
    <3> QED BY <2>5, <2>8, <2>11, <2>13, <3>1
  <2>15. ASSUME NEW k \in Kinds, k # k0
         PROVE  Carries(g[k], d[k], A[k], C(n + 1, k)) /\ g[k].fStart = managers[k].fStart
                /\ g[k].fNextFree = managers[k].fNextFree + Cardinality(Indices(kinds, n + 1, k))
    <3>1. Indices(kinds, n + 1, k) = Indices(kinds, n, k)
      BY <2>1, <2>15, IndexOfAnother DEF k0
    <3>2. C(n + 1, k) = C(n, k)
      BY <3>1 DEF C
    <3> QED BY <2>4, <2>13, <2>15, <3>1, <3>2 DEF Good
  <2>16. Good(g, n + 1)
    <3> SUFFICES ASSUME NEW k \in Kinds
                 PROVE  /\ Carries(g[k], d[k], A[k], C(n + 1, k))
                        /\ g[k].fStart = managers[k].fStart
                        /\ g[k].fNextFree = managers[k].fNextFree + Cardinality(Indices(kinds, n + 1, k))
      BY <2>13 DEF Good
    <3>1. CASE k = k0
      BY <2>10, <2>13, <2>14, <3>1
    <3>2. CASE k # k0
      BY <2>15, <3>2
    <3> QED BY <3>1, <3>2
  <2> QED BY <2>1, <2>16 DEF g
<1>10. \A n \in 0 .. N : n \in S
  <2>1. S \in SUBSET (0 .. N)
    OBVIOUS
  <2> HIDE DEF S
  <2> QED BY <1>1, <1>8, <1>9, <2>1, Induction
<1>11. Good(filled[N], N)
  <2> HIDE DEF Good
  <2>1. N \in 0 .. N
    BY <1>1
  <2> QED BY <1>10, <2>1
<1> QED BY <1>2, <1>11 DEF N, Joined

-----------------------------------------------------------------------------
(* The invariant of a worker.  Every track that lives has one home, and    *)
(* the sequences of the program hold the tracks whose home they are.       *)
At(home, p) == {t \in Tracks : home[t] = p}
OfKind(home, p, k) == {t \in Tracks : home[t] = p /\ kind[t] = k}

Active(k) == IF spc = "finish" THEN mgr[k].fActiveTracks ELSE todo[k]
Buffered == IF spc \in {"idle", "shower"} THEN toDevice ELSE <<>>

HostHomes(home) ==
  /\ home \in [Tracks -> {"nowhere", "stack", "secondaries", "worker", "toDevice",
                          "active", "next", "leaked"}]
  /\ \A t \in Tracks : home[t] = "nowhere" <=> kind[t] \notin Kinds
  /\ \A t \in Tracks : home[t] = "worker" <=> t = aTrack
  /\ Holds(stack, At(home, "stack"))
  /\ Holds(secondaries, At(home, "secondaries"))
  /\ Holds(Buffered, At(home, "toDevice"))
  /\ \A t \in At(home, "toDevice") : region[t] \in fGPUregion

DeviceHomes(home) ==
  \A k \in Kinds :
    /\ Carries(mgr[k], Active(k), OfKind(home, "active", k), OfKind(home, "next", k))
    /\ Holds(leakedTracks[k], OfKind(home, "leaked", k))

Homes == \E home : HostHomes(home) /\ DeviceHomes(home)

Typed ==
  /\ kind \in [Tracks -> Kinds \cup {"unborn", "ended"}]
  /\ aTrack \in Tracks \cup {0} /\ region \in [Tracks -> Regions]
  /\ mgr \in [Kinds -> Managers(Room)]
  /\ todo \in [Kinds -> Seq(Slots)] /\ leakedTracks \in [Kinds -> Seq(Tracks)]
  /\ \A t \in killed : t \in Tracks /\ kind[t] = "ended"
  /\ \E u \in 0 .. MaxTracks : Unborn = u + 1 .. MaxTracks

(* Where the worker and its shower are.                                    *)
Control ==
  /\ spc \in {"idle", "shower", "transport", "finish", "answered", "failed"}
  /\ tpc \in {"over", "event", "processing", "stepping", "exiting", "flushing"}
  /\ tpc \in {"processing", "stepping", "exiting"} => spc = "idle" /\ aTrack # 0
  /\ tpc \in {"over", "event", "flushing"} => aTrack = 0
  /\ tpc \in {"over", "event", "flushing", "processing"} => secondaries = <<>>
  /\ tpc = "over" => spc = "idle" /\ stack = <<>> /\ toDevice = <<>>
  /\ tpc = "flushing" /\ spc = "idle" => toDevice = <<>>
  /\ spc = "answered" => toDevice = <<>>

Configured ==
  /\ fGPUregion \subseteq Regions /\ fGPURegions \subseteq fGPUregion
  /\ trackInAllRegions => fGPUregion = Regions
  /\ ~trackInAllRegions => fGPUregion \cap fCPURegionNames = {}

(* Between showers the device is empty; after the last iteration of one    *)
(* only the active slots are left, none if no track was counted.           *)
Between == {"idle", "shower", "answered"}

EmptyManager(m) == m.fNextTracks = <<>> /\ m.fInFlight = 0 /\ m.fNextFree = m.fStart
Quiet ==
  /\ spc \in Between => \A k \in Kinds : todo[k] = <<>> /\ leakedTracks[k] = <<>> /\ EmptyManager(mgr[k])
  /\ spc = "finish" => \A k \in Kinds :
       /\ todo[k] = <<>>
       /\ mgr[k].fNextTracks = <<>>
       /\ mgr[k].fInFlight = 0 => mgr[k].fActiveTracks = <<>> /\ mgr[k].fNextFree = mgr[k].fStart

Placed == Typed /\ Quiet /\ Homes
WorkerInv == Control /\ Configured /\ (spc # "failed" => Placed)

LEMMA TracksAreNumbers ==
  /\ MaxTracks \in Nat /\ \A t \in Tracks : t \in Nat \ {0} /\ t # Vacant
  /\ Tracks = 1 .. MaxTracks
BY SyncTransportAssumption DEF Tracks, Vacant

(* The device's part between showers.                                      *)
LEMMA NoneOnDevice ==
  ASSUME Quiet, spc \in Between, NEW home, DeviceHomes(home), Typed, HostHomes(home)
  PROVE  \A t \in Tracks : home[t] \notin {"active", "next", "leaked"}
<1> SUFFICES ASSUME NEW t \in Tracks, home[t] \in {"active", "next", "leaked"} PROVE FALSE
  OBVIOUS
<1>1. kind[t] \in Kinds
  BY DEF HostHomes
<1> DEFINE k == kind[t]
<1>2. /\ todo[k] = <<>> /\ leakedTracks[k] = <<>> /\ mgr[k].fNextTracks = <<>>
  BY <1>1 DEF Quiet, EmptyManager
<1>3. Active(k) = <<>>
  BY <1>2 DEF Active, Between
<1>4. /\ Carries(mgr[k], Active(k), OfKind(home, "active", k), OfKind(home, "next", k))
      /\ Holds(leakedTracks[k], OfKind(home, "leaked", k))
  BY <1>1 DEF DeviceHomes
<1>5. t \in OfKind(home, home[t], k)
  BY DEF OfKind
<1>6. OfKind(home, "active", k) = {} /\ OfKind(home, "next", k) = {}
  BY <1>2, <1>3, <1>4, CarriesFacts
<1>7. OfKind(home, "leaked", k) = {}
  BY <1>2, <1>4, HoldsNothing
<1> QED BY <1>5, <1>6, <1>7

LEMMA EmptyDevice ==
  ASSUME Quiet, spc \in Between, spc' \in Between, NEW home, DeviceHomes(home), Typed,
         HostHomes(home), UNCHANGED deviceVars,
         NEW home2, \A t \in Tracks : home2[t] \notin {"active", "next", "leaked"}
  PROVE  Quiet' /\ DeviceHomes(home2)'
<1>1. UNCHANGED <<mgr, todo, leakedTracks>>
  BY DEF deviceVars
<1>2. Quiet'
  BY <1>1 DEF Quiet, EmptyManager, Between
<1>3. ASSUME NEW k \in Kinds
      PROVE  /\ Carries(mgr'[k], Active(k)', OfKind(home2, "active", k)', OfKind(home2, "next", k)')
             /\ Holds(leakedTracks'[k], OfKind(home2, "leaked", k)')
  <2>1. /\ OfKind(home2, "active", k)' = {} /\ OfKind(home2, "next", k)' = {}
        /\ OfKind(home2, "leaked", k)' = {}
    BY DEF OfKind
  <2>2. /\ OfKind(home, "active", k) = {} /\ OfKind(home, "next", k) = {}
        /\ OfKind(home, "leaked", k) = {}
    BY NoneOnDevice DEF OfKind
  <2>3. Active(k) = todo[k] /\ Active(k)' = todo[k]
    BY <1>1 DEF Active, Between
  <2> QED BY <1>1, <2>1, <2>2, <2>3 DEF DeviceHomes
<1> QED BY <1>2, <1>3 DEF DeviceHomes
(* A step of Geant4 between showers: only the host's part is to be shown.  *)
LEMMA HostStep ==
  ASSUME Typed, Quiet, NEW home, HostHomes(home), DeviceHomes(home),
         spc \in Between, spc' \in Between, UNCHANGED deviceVars,
         Control', Configured', Typed', NEW home2, HostHomes(home2)',
         \A t \in Tracks : home2[t] \notin {"active", "next", "leaked"}
  PROVE  WorkerInv'
<1>1. Quiet' /\ DeviceHomes(home2)'
  BY EmptyDevice
<1> QED BY <1>1 DEF WorkerInv, Placed, Homes

LEMMA NewManagerIsEmpty ==
  /\ NewManager \in Managers(Room) /\ EmptyManager(NewManager)
  /\ Carries(NewManager, <<>>, {}, {})
<1>1. /\ NewManager \in Managers(Room) /\ Ring(NewManager)
      /\ NewManager.fNextTracks = <<>> /\ NewManager.fInFlight = 0
      /\ NewManager.fNextFree = NewManager.fStart
  <2>1. Slots # {} /\ 0 \in Nat /\ <<>> \in Seq(Slots) /\ [slot \in Slots |-> Vacant] \in [Slots -> Room]
    BY TrackManagerAssumption DEF Slots, Room
  <2> QED BY <2>1, TrackManagerAssumption DEF NewManager, Managers, Ring
<1>2. Contents(NewManager, <<>>) = <<>> /\ Holds(<<>>, {})
  BY HoldsNothing DEF Contents
<1>3. <<>> \in Seq(Slots) /\ Len(<<>>) = 0
  OBVIOUS
<1> QED BY <1>1, <1>2, <1>3 DEF Carries, EmptyManager

LEMMA WorkerInvInit == Init => WorkerInv
<1> SUFFICES ASSUME Init PROVE WorkerInv
  OBVIOUS
<1>1. /\ kind = [t \in Tracks |-> "unborn"] /\ mgr = [k \in Kinds |-> NewManager]
      /\ todo = [k \in Kinds |-> <<>>] /\ leakedTracks = [k \in Kinds |-> <<>>]
      /\ toDevice = <<>> /\ spc = "idle" /\ stack = <<>> /\ killed = {} /\ tpc = "over"
      /\ aTrack = 0 /\ secondaries = <<>>
      /\ region = [t \in Tracks |-> CHOOSE r \in Regions : TRUE]
  BY DEF Init, SyncInit
<1>2. Control
  BY <1>1 DEF Control
<1>3. Configured
  <2>1. PICK macro \in Macros : InitializeAdePT(Configure(macro))
    BY DEF Init
  <2> DEFINE c == Configure(macro)
             listed == Range(c.GPURegionNames)
             removed == Range(c.CPURegionNames)
  <2>2. /\ (IF c.TrackInAllRegions THEN removed ELSE listed) \subseteq Regions
        /\ c.TrackInAllRegions \/ listed \cap removed = {}
        /\ trackInAllRegions = c.TrackInAllRegions /\ fCPURegionNames = removed
        /\ fGPURegions = IF ~c.TrackInAllRegions THEN listed
                         ELSE IF removed = {} THEN {} ELSE Regions \ removed
        /\ fGPUregion = IF trackInAllRegions THEN Regions ELSE listed
    BY <2>1, Zenon DEF InitializeAdePT, Accepted, InitVolAuxData
  <2> HIDE DEF c, listed, removed
  <2>3. CASE c.TrackInAllRegions
    BY <2>2, <2>3 DEF Configured
  <2>4. CASE ~c.TrackInAllRegions
    BY <2>2, <2>4 DEF Configured
  <2> QED BY <2>3, <2>4
<1>4. NewManager \in Managers(Room) /\ EmptyManager(NewManager)
  BY NewManagerIsEmpty
<1>5. Typed
  <2>1. Unborn = 0 + 1 .. MaxTracks /\ 0 \in 0 .. MaxTracks
    BY <1>1, TracksAreNumbers DEF Unborn
  <2>2. (CHOOSE r \in Regions : TRUE) \in Regions
    BY SyncTransportAssumption
  <2>3. <<>> \in Seq(Slots) /\ <<>> \in Seq(Tracks)
    OBVIOUS
  <2>4. /\ kind \in [Tracks -> Kinds \cup {"unborn", "ended"}]
        /\ region \in [Tracks -> Regions]
        /\ mgr \in [Kinds -> Managers(Room)]
        /\ todo \in [Kinds -> Seq(Slots)] /\ leakedTracks \in [Kinds -> Seq(Tracks)]
    BY <1>1, <1>4, <2>2, <2>3
  <2> QED BY <1>1, <2>1, <2>4 DEF Typed
<1>6. Quiet
  BY <1>1, <1>4 DEF Quiet, EmptyManager, Between
<1> DEFINE home == [t \in Tracks |-> "nowhere"]
<1>7. \A p : p # "nowhere" => At(home, p) = {} /\ \A k \in Kinds : OfKind(home, p, k) = {}
  BY DEF At, OfKind
<1>8. HostHomes(home)
  <2>1. At(home, "stack") = {} /\ At(home, "secondaries") = {} /\ At(home, "toDevice") = {}
    BY <1>7
  <2>2. Buffered = <<>>
    BY <1>1 DEF Buffered
  <2>3. Holds(<<>>, {})
    BY HoldsNothing
  <2>4. \A t \in Tracks : home[t] = "nowhere" /\ kind[t] \notin Kinds /\ t # aTrack
    BY <1>1, TracksAreNumbers DEF Kinds, Vacant
  <2>5. home \in [Tracks -> {"nowhere", "stack", "secondaries", "worker", "toDevice",
                             "active", "next", "leaked"}]
    OBVIOUS
  <2> HIDE DEF home
  <2> QED BY <1>1, <2>1, <2>2, <2>3, <2>4, <2>5 DEF HostHomes
<1>9. DeviceHomes(home)
  <2> SUFFICES ASSUME NEW k \in Kinds
               PROVE  /\ Carries(mgr[k], Active(k), OfKind(home, "active", k), OfKind(home, "next", k))
                      /\ Holds(leakedTracks[k], OfKind(home, "leaked", k))
    BY DEF DeviceHomes
  <2>1. /\ OfKind(home, "active", k) = {} /\ OfKind(home, "next", k) = {}
        /\ OfKind(home, "leaked", k) = {}
    BY <1>7
  <2>2. Active(k) = <<>> /\ mgr[k] = NewManager /\ leakedTracks[k] = <<>>
    BY <1>1 DEF Active
  <2> HIDE DEF home
  <2> QED BY <2>1, <2>2, NewManagerIsEmpty, HoldsNothing
<1> QED BY <1>2, <1>3, <1>5, <1>6, <1>8, <1>9 DEF WorkerInv, Placed, Homes

LEMMA PlacedByNewEvent ==
  ASSUME WorkerInv, spc # "failed", NewEvent
  PROVE  WorkerInv'
<1>1. /\ tpc = "over" /\ spc = "idle" /\ stack = <<>> /\ toDevice = <<>> /\ aTrack = 0
      /\ secondaries = <<>>
  BY DEF WorkerInv, Control, NewEvent
<1>2. PICK n \in 1 .. MaxPrimaries :
        /\ stack' = [i \in 1 .. n |-> i]
        /\ \E names \in [1 .. n -> Kinds] :
             kind' = [t \in Tracks |-> IF t <= n THEN names[t] ELSE "unborn"]
        /\ \E places \in [1 .. n -> Regions] :
             region' = [t \in Tracks |-> IF t <= n THEN places[t] ELSE CHOOSE r \in Regions : TRUE]
  BY DEF NewEvent
<1>3. PICK names \in [1 .. n -> Kinds] :
        kind' = [t \in Tracks |-> IF t <= n THEN names[t] ELSE "unborn"]
  BY <1>2
<1>4. PICK places \in [1 .. n -> Regions] :
        region' = [t \in Tracks |-> IF t <= n THEN places[t] ELSE CHOOSE r \in Regions : TRUE]
  BY <1>2
<1>5. /\ tpc' = "event" /\ killed' = {}
      /\ UNCHANGED <<fGPUregion, deviceVars, toDevice, spc, configuration, aTrack, secondaries>>
  BY DEF NewEvent, bufferVars
<1>6. n \in Nat /\ n <= MaxTracks /\ 1 .. n \subseteq Tracks /\ \A t \in Tracks : t <= n <=> t \in 1 .. n
  BY TrackingManagerAssumption, TracksAreNumbers
<1>7. PICK home : HostHomes(home) /\ DeviceHomes(home)
  BY DEF WorkerInv, Placed, Homes
<1>8. Typed /\ Quiet /\ spc \in Between /\ spc' \in Between
  BY <1>1, <1>5 DEF WorkerInv, Placed, Between
<1>9. Control'
  BY <1>1, <1>5 DEF Control
<1>10. Configured'
  BY <1>5 DEF Configured, configuration, WorkerInv
<1>11. \A t \in Tracks : /\ kind'[t] = IF t \in 1 .. n THEN names[t] ELSE "unborn"
                         /\ kind'[t] \in Kinds <=> t \in 1 .. n
                         /\ region'[t] \in Regions
  <2>1. (CHOOSE r \in Regions : TRUE) \in Regions
    BY SyncTransportAssumption
  <2>2. "unborn" \notin Kinds
    BY DEF Kinds
  <2> QED BY <1>3, <1>4, <1>6, <2>1, <2>2
<1>12. Typed'
  <2>1. kind' \in [Tracks -> Kinds \cup {"unborn", "ended"}] /\ region' \in [Tracks -> Regions]
    BY <1>3, <1>4, <1>11
  <2>2. Unborn' = n + 1 .. MaxTracks /\ n \in 0 .. MaxTracks
    <3>1. \A t \in Tracks : kind'[t] = "unborn" <=> t \notin 1 .. n
      BY <1>11 DEF Kinds
    <3> QED BY <1>6, <3>1, TracksAreNumbers DEF Unborn
  <2> QED BY <1>5, <1>8, <2>1, <2>2 DEF Typed, deviceVars
<1> DEFINE home2 == [t \in Tracks |-> IF t \in 1 .. n THEN "stack" ELSE "nowhere"]
<1>13. HostHomes(home2)'
  <2>1. \A t \in Tracks : home2[t] = IF t \in 1 .. n THEN "stack" ELSE "nowhere"
    OBVIOUS
  <2>2. home2 \in [Tracks -> {"nowhere", "stack", "secondaries", "worker", "toDevice",
                              "active", "next", "leaked"}]
    OBVIOUS
  <2> HIDE DEF home2
  <2>3. /\ At(home2, "stack")' = 1 .. n /\ At(home2, "secondaries")' = {}
        /\ At(home2, "toDevice")' = {}
    BY <1>6, <2>1 DEF At
  <2>4. Buffered' = <<>>
    BY <1>1, <1>5 DEF Buffered
  <2>5. Holds(stack', 1 .. n) /\ Holds(<<>>, {})
    BY <1>2, <1>6, HoldsIdentity, HoldsNothing
  <2>6. \A t \in Tracks : home2[t] # "worker" /\ t # aTrack'
    BY <1>1, <1>5, <2>1, TracksAreNumbers
  <2>7. secondaries' = <<>>
    BY <1>1, <1>5
  <2> QED BY <1>11, <2>1, <2>2, <2>3, <2>4, <2>5, <2>6, <2>7 DEF HostHomes
<1>14. \A t \in Tracks : home2[t] \notin {"active", "next", "leaked"}
  OBVIOUS
<1> HIDE DEF home2
<1> QED BY <1>5, <1>7, <1>8, <1>9, <1>10, <1>12, <1>13, <1>14, HostStep

LEMMA PlacedByHandOver ==
  ASSUME WorkerInv, spc # "failed", HandOverOneTrack
  PROVE  WorkerInv'
<1>1. /\ tpc = "event" /\ spc = "idle" /\ aTrack = 0 /\ stack # <<>> /\ secondaries = <<>>
  BY DEF WorkerInv, Control, HandOverOneTrack
<1>2. /\ aTrack' = Last(stack) /\ stack' = Front(stack) /\ tpc' \in {"stepping", "processing"}
      /\ UNCHANGED <<fGPUregion, kind, deviceVars, toDevice, spc, killed, configuration, region,
                     secondaries>>
  BY DEF HandOverOneTrack, bufferVars
<1>3. PICK home : HostHomes(home) /\ DeviceHomes(home)
  BY DEF WorkerInv, Placed, Homes
<1>4. Typed /\ Quiet /\ spc \in Between /\ spc' \in Between
  BY <1>1, <1>2 DEF WorkerInv, Placed, Between
<1>0. PICK t0 : t0 = Last(stack)
  OBVIOUS
<1>5. /\ t0 \in At(home, "stack") /\ Holds(Front(stack), At(home, "stack") \ {t0})
  BY <1>0, <1>1, <1>3, HoldsFront DEF HostHomes
<1> DEFINE home2 == [home EXCEPT ![t0] = "worker"]
<1>6. t0 \in Tracks /\ home[t0] = "stack" /\ t0 # 0
  BY <1>5, TracksAreNumbers DEF At, Vacant
<1>7. /\ home \in [Tracks -> {"nowhere", "stack", "secondaries", "worker", "toDevice",
                              "active", "next", "leaked"}]
      /\ \A t \in Tracks : home[t] # "worker" /\ t # aTrack
  BY <1>1, <1>3, TracksAreNumbers DEF HostHomes, Vacant
<1>8. \A t \in Tracks : home2[t] = IF t = t0 THEN "worker" ELSE home[t]
  BY <1>7
<1>9. home2 \in [Tracks -> {"nowhere", "stack", "secondaries", "worker", "toDevice",
                            "active", "next", "leaked"}]
  BY <1>7
<1> HIDE DEF home2
<1>10. HostHomes(home2)'
  <2>1. /\ At(home2, "stack")' = At(home, "stack") \ {t0}
        /\ At(home2, "secondaries")' = At(home, "secondaries")
        /\ At(home2, "toDevice")' = At(home, "toDevice")
    BY <1>6, <1>7, <1>8 DEF At
  <2>2. Buffered' = Buffered
    BY <1>2 DEF Buffered
  <2>3. \A t \in Tracks : home2[t] = "nowhere" <=> kind'[t] \notin Kinds
    BY <1>2, <1>3, <1>6, <1>8 DEF HostHomes
  <2>4. \A t \in Tracks : home2[t] = "worker" <=> t = aTrack'
    BY <1>0, <1>2, <1>7, <1>8
  <2>5. Holds(stack', At(home2, "stack")') /\ Holds(secondaries', At(home2, "secondaries")')
        /\ Holds(Buffered', At(home2, "toDevice")')
    BY <1>2, <1>3, <1>5, <2>1, <2>2 DEF HostHomes
  <2>6. \A t \in At(home2, "toDevice")' : region'[t] \in fGPUregion'
    BY <1>2, <1>3, <2>1 DEF HostHomes
  <2> QED BY <1>9, <2>3, <2>4, <2>5, <2>6 DEF HostHomes
<1>11. \A t \in Tracks : home2[t] \notin {"active", "next", "leaked"}
  BY <1>3, <1>4, <1>8, NoneOnDevice
<1>12. Control'
  BY <1>0, <1>1, <1>2, <1>6 DEF Control
<1>13. Configured'
  BY <1>2 DEF Configured, configuration, WorkerInv
<1>14. Typed'
  BY <1>0, <1>2, <1>4, <1>6 DEF Typed, deviceVars, Unborn
<1> QED BY <1>2, <1>3, <1>4, <1>10, <1>11, <1>12, <1>13, <1>14, HostStep

(* A track that is deleted has no home any more.                           *)
LEMMA PlacedByDeleteTrack ==
  ASSUME WorkerInv, spc # "failed", DeleteTrack
  PROVE  WorkerInv'
<1>1. /\ tpc = "event" /\ spc = "idle" /\ aTrack = 0 /\ stack # <<>> /\ secondaries = <<>>
  BY DEF WorkerInv, Control, DeleteTrack
<1>0. PICK t0 : t0 = Last(stack)
  OBVIOUS
<1>2. /\ stack' = Front(stack) /\ kind' = [kind EXCEPT ![t0] = "ended"]
      /\ UNCHANGED <<fGPUregion, deviceVars, toDevice, spc, killed, configuration, region,
                     secondaries, aTrack, tpc>>
  BY <1>0 DEF DeleteTrack, bufferVars, cpuVars
<1>3. PICK home : HostHomes(home) /\ DeviceHomes(home)
  BY <1>1 DEF WorkerInv, Placed, Homes
<1>4. Typed /\ Quiet /\ spc \in Between /\ spc' \in Between
  BY <1>1, <1>2 DEF WorkerInv, Placed, Between
<1>5. /\ t0 \in At(home, "stack") /\ Holds(Front(stack), At(home, "stack") \ {t0})
  BY <1>0, <1>1, <1>3, HoldsFront DEF HostHomes
<1> DEFINE home2 == [home EXCEPT ![t0] = "nowhere"]
<1>6. t0 \in Tracks /\ home[t0] = "stack"
  BY <1>5 DEF At
<1>7. home \in [Tracks -> {"nowhere", "stack", "secondaries", "worker", "toDevice",
                           "active", "next", "leaked"}]
  BY <1>3 DEF HostHomes
<1>8. \A t \in Tracks : home2[t] = IF t = t0 THEN "nowhere" ELSE home[t]
  BY <1>7
<1>9. home2 \in [Tracks -> {"nowhere", "stack", "secondaries", "worker", "toDevice",
                            "active", "next", "leaked"}]
  BY <1>7
<1> HIDE DEF home2
<1>10. /\ kind' \in [Tracks -> Kinds \cup {"unborn", "ended"}]
       /\ \A t \in Tracks : kind'[t] = IF t = t0 THEN "ended" ELSE kind[t]
  BY <1>2, <1>4, <1>6 DEF Typed
<1>11. "ended" \notin Kinds /\ "unborn" \notin Kinds /\ kind[t0] \in Kinds
  BY <1>3, <1>6 DEF Kinds, HostHomes
<1>12. HostHomes(home2)'
  <2>1. /\ At(home2, "stack")' = At(home, "stack") \ {t0}
        /\ At(home2, "secondaries")' = At(home, "secondaries")
        /\ At(home2, "toDevice")' = At(home, "toDevice")
    BY <1>6, <1>8 DEF At
  <2>2. Buffered' = Buffered
    BY <1>2 DEF Buffered
  <2>3. \A t \in Tracks : home2[t] = "nowhere" <=> kind'[t] \notin Kinds
    BY <1>3, <1>8, <1>10, <1>11 DEF HostHomes
  <2>4. \A t \in Tracks : home2[t] = "worker" <=> t = aTrack'
    BY <1>2, <1>3, <1>6, <1>8 DEF HostHomes
  <2>5. Holds(stack', At(home2, "stack")') /\ Holds(secondaries', At(home2, "secondaries")')
        /\ Holds(Buffered', At(home2, "toDevice")')
    BY <1>2, <1>3, <1>5, <2>1, <2>2 DEF HostHomes
  <2>6. \A t \in At(home2, "toDevice")' : region'[t] \in fGPUregion'
    BY <1>2, <1>3, <2>1 DEF HostHomes
  <2> QED BY <1>9, <2>3, <2>4, <2>5, <2>6 DEF HostHomes
<1>13. \A t \in Tracks : home2[t] \notin {"active", "next", "leaked"}
  BY <1>3, <1>4, <1>8, NoneOnDevice
<1>14. Control' /\ Configured'
  BY <1>1, <1>2 DEF Control, Configured, configuration, WorkerInv
<1>15. Typed'
  <2>1. Unborn' = Unborn
    BY <1>10, <1>11 DEF Unborn, Kinds
  <2>2. \A t \in killed : t \in Tracks /\ kind'[t] = "ended"
    BY <1>4, <1>10 DEF Typed
  <2> QED BY <1>2, <1>4, <1>10, <2>1, <2>2 DEF Typed, deviceVars
<1> QED BY <1>1, <1>2, <1>3, <1>4, <1>11, <1>12, <1>13, <1>14, <1>15, HostStep

LEMMA PlacedByProcessTrackOnGPU ==
  ASSUME WorkerInv, spc # "failed", ProcessTrackOnGPU
  PROVE  WorkerInv'
<1>1. /\ tpc = "processing" /\ spc = "idle" /\ aTrack # 0 /\ secondaries = <<>>
  BY DEF WorkerInv, Control, ProcessTrackOnGPU
<1>2. /\ toDevice' = Append(toDevice, aTrack) /\ aTrack' = 0 /\ tpc' = "event"
      /\ spc' \in {"shower", "idle"} /\ isGPURegion
      /\ UNCHANGED <<fGPUregion, kind, deviceVars, stack, killed, configuration, region,
                     secondaries>>
  BY DEF ProcessTrackOnGPU, AddTrack
<1>3. PICK home : HostHomes(home) /\ DeviceHomes(home)
  BY DEF WorkerInv, Placed, Homes
<1>4. Typed /\ Quiet /\ spc \in Between /\ spc' \in Between
  BY <1>1, <1>2 DEF WorkerInv, Placed, Between
<1>0. PICK t0 : t0 = aTrack
  OBVIOUS
<1>5. t0 \in Tracks /\ home[t0] = "worker"
  BY <1>0, <1>1, <1>3, <1>4 DEF Typed, HostHomes
<1> DEFINE home2 == [home EXCEPT ![t0] = "toDevice"]
<1>6. /\ home \in [Tracks -> {"nowhere", "stack", "secondaries", "worker", "toDevice",
                              "active", "next", "leaked"}]
      /\ \A t \in Tracks : home[t] = "worker" <=> t = t0
  BY <1>0, <1>3 DEF HostHomes
<1>7. \A t \in Tracks : home2[t] = IF t = t0 THEN "toDevice" ELSE home[t]
  BY <1>6
<1>8. home2 \in [Tracks -> {"nowhere", "stack", "secondaries", "worker", "toDevice",
                            "active", "next", "leaked"}]
  BY <1>6
<1> HIDE DEF home2
<1>9. HostHomes(home2)'
  <2>1. /\ At(home2, "stack")' = At(home, "stack")
        /\ At(home2, "secondaries")' = At(home, "secondaries")
        /\ At(home2, "toDevice")' = At(home, "toDevice") \cup {t0}
        /\ t0 \notin At(home, "toDevice")
    BY <1>5, <1>6, <1>7 DEF At
  <2>2. Buffered = toDevice /\ Buffered' = toDevice'
    BY <1>1, <1>2 DEF Buffered
  <2>3. \A t \in Tracks : home2[t] = "nowhere" <=> kind'[t] \notin Kinds
    BY <1>2, <1>3, <1>5, <1>7 DEF HostHomes
  <2>4. \A t \in Tracks : home2[t] = "worker" <=> t = aTrack'
    BY <1>2, <1>6, <1>7, TracksAreNumbers DEF Vacant
  <2>5. Holds(toDevice', At(home2, "toDevice")')
    <3>1. Holds(toDevice, At(home, "toDevice"))
      BY <1>3, <2>2 DEF HostHomes
    <3> QED BY <1>0, <1>2, <2>1, <3>1, HoldsAppend
  <2>6. Holds(stack', At(home2, "stack")') /\ Holds(secondaries', At(home2, "secondaries")')
    BY <1>2, <1>3, <2>1 DEF HostHomes
  <2>7. \A t \in At(home2, "toDevice")' : region'[t] \in fGPUregion'
    <3>1. region[t0] \in fGPUregion
      BY <1>0, <1>2, <1>4, <1>5 DEF isGPURegion, WorkerInv, Configured, Typed
    <3> QED BY <1>2, <1>3, <2>1, <3>1 DEF HostHomes
  <2> QED BY <1>8, <2>2, <2>3, <2>4, <2>5, <2>6, <2>7 DEF HostHomes
<1>10. \A t \in Tracks : home2[t] \notin {"active", "next", "leaked"}
  BY <1>3, <1>4, <1>7, NoneOnDevice
<1>11. Control'
  BY <1>1, <1>2 DEF Control
<1>12. Configured'
  BY <1>2 DEF Configured, configuration, WorkerInv
<1>13. Typed'
  BY <1>2, <1>4 DEF Typed, deviceVars, Unborn
<1> QED BY <1>2, <1>3, <1>4, <1>9, <1>10, <1>11, <1>12, <1>13, HostStep

(* Steps that move no track.                                               *)
LEMMA HostStays ==
  ASSUME WorkerInv, spc \in Between, spc' \in Between, Buffered' = Buffered, Control',
         UNCHANGED <<fGPUregion, kind, deviceVars, stack, killed, configuration, region, aTrack,
                     secondaries>>
  PROVE  WorkerInv'
<1>1. PICK home : HostHomes(home) /\ DeviceHomes(home)
  BY DEF WorkerInv, Placed, Homes, Between
<1>2. Typed /\ Quiet
  BY DEF WorkerInv, Placed, Between
<1>3. Typed' /\ Configured'
  BY <1>2 DEF Typed, deviceVars, Unborn, Configured, configuration, WorkerInv
<1>4. HostHomes(home)'
  BY <1>1 DEF HostHomes, At
<1>5. \A t \in Tracks : home[t] \notin {"active", "next", "leaked"}
  BY <1>1, <1>2, NoneOnDevice
<1> QED BY <1>1, <1>2, <1>3, <1>4, <1>5, HostStep

LEMMA PlacedByStayingSteps ==
  ASSUME WorkerInv, spc # "failed",
         \/ ProcessTrackOnCPU \/ FlushEvent \/ EventFlushed
         \/ EmptyShower /\ UNCHANGED <<region, configuration, aTrack, secondaries, tpc>>
         \/ ShowerReturns /\ UNCHANGED <<region, configuration, aTrack, secondaries, tpc>>
  PROVE  WorkerInv'
<1>0. Control
  BY DEF WorkerInv
<1>1. CASE ProcessTrackOnCPU
  <2>1. /\ tpc = "processing" /\ tpc' = "stepping" /\ UNCHANGED <<toDevice, spc>>
        /\ UNCHANGED <<fGPUregion, kind, deviceVars, stack, killed, configuration, region, aTrack,
                       secondaries>>
    BY <1>1 DEF ProcessTrackOnCPU, syncVars, bufferVars
  <2>2. spc = "idle" /\ Buffered' = Buffered /\ Control'
    BY <1>0, <2>1 DEF Control, Buffered
  <2>3. spc \in Between /\ spc' \in Between
    BY <2>1, <2>2 DEF Between
  <2> QED BY <2>1, <2>2, <2>3, HostStays
<1>2. CASE FlushEvent
  <2>1. /\ tpc = "event" /\ spc = "idle" /\ stack = <<>> /\ tpc' = "flushing" /\ spc' = "shower"
        /\ UNCHANGED toDevice
        /\ UNCHANGED <<fGPUregion, kind, deviceVars, stack, killed, configuration, region, aTrack,
                       secondaries>>
    BY <1>2 DEF FlushEvent, bufferVars
  <2>2. Buffered' = Buffered /\ Control'
    BY <1>0, <2>1 DEF Control, Buffered
  <2>3. spc \in Between /\ spc' \in Between
    BY <2>1 DEF Between
  <2> QED BY <2>1, <2>2, <2>3, HostStays
<1>3. CASE EventFlushed
  <2>1. /\ tpc = "flushing" /\ spc = "idle" /\ tpc' \in {"over", "event"}
        /\ (tpc' = "over" => stack = <<>>) /\ UNCHANGED <<toDevice, spc>>
        /\ UNCHANGED <<fGPUregion, kind, deviceVars, stack, killed, configuration, region, aTrack,
                       secondaries>>
    BY <1>3 DEF EventFlushed, syncVars, bufferVars
  <2>2. Buffered' = Buffered /\ Control'
    BY <1>0, <2>1 DEF Control, Buffered
  <2>3. spc \in Between /\ spc' \in Between
    BY <2>1 DEF Between
  <2> QED BY <2>1, <2>2, <2>3, HostStays
<1>4. CASE EmptyShower /\ UNCHANGED <<region, configuration, aTrack, secondaries, tpc>>
  <2>1. /\ spc = "shower" /\ toDevice = <<>> /\ spc' = "idle" /\ UNCHANGED <<toDevice, tpc>>
        /\ UNCHANGED <<fGPUregion, kind, deviceVars, stack, killed, configuration, region, aTrack,
                       secondaries>>
    BY <1>4 DEF EmptyShower, bufferVars
  <2>2. Buffered' = Buffered /\ Control'
    BY <1>0, <2>1 DEF Control, Buffered
  <2>3. spc \in Between /\ spc' \in Between
    BY <2>1 DEF Between
  <2> QED BY <2>1, <2>2, <2>3, HostStays
<1>5. CASE ShowerReturns /\ UNCHANGED <<region, configuration, aTrack, secondaries, tpc>>
  <2>1. /\ spc = "answered" /\ spc' = "idle" /\ UNCHANGED <<toDevice, tpc>>
        /\ UNCHANGED <<fGPUregion, kind, deviceVars, stack, killed, configuration, region, aTrack,
                       secondaries>>
    BY <1>5 DEF ShowerReturns, bufferVars
  <2>2. Buffered' = Buffered /\ Control'
    BY <1>0, <2>1 DEF Control, Buffered
  <2>3. spc \in Between /\ spc' \in Between
    BY <2>1 DEF Between
  <2> QED BY <2>1, <2>2, <2>3, HostStays
<1> QED BY <1>1, <1>2, <1>3, <1>4, <1>5
(* The first of the tracks that are not born.                              *)
LEMMA FirstUnborn ==
  ASSUME NEW u \in 0 .. MaxTracks, Unborn = u + 1 .. MaxTracks, Unborn # {}
  PROVE  /\ Min(Unborn) = u + 1 /\ u + 1 \in Tracks /\ kind[u + 1] = "unborn"
         /\ Unborn \ {u + 1} = u + 1 + 1 .. MaxTracks /\ u + 1 \in 0 .. MaxTracks
<1>1. MaxTracks \in Nat /\ u \in Nat
  BY TracksAreNumbers
<1>2. u + 1 \in u + 1 .. MaxTracks /\ u < MaxTracks
  BY <1>1
<1>3. u + 1 \in Unborn /\ \A y \in Unborn : u + 1 <= y
  BY <1>1, <1>2
<1>4. \A x \in Unborn : (\A y \in Unborn : x <= y) => x = u + 1
  BY <1>1, <1>3
<1>5. Min(Unborn) = u + 1
  <2> HIDE DEF Unborn
  <2> QED BY Zenon, <1>3, <1>4 DEF Min
<1>6. Unborn \ {u + 1} = u + 1 + 1 .. MaxTracks /\ u + 1 \in 0 .. MaxTracks
  BY <1>1, <1>2
<1> QED BY <1>3, <1>5, <1>6 DEF Unborn

LEMMA PlacedByHepEmStep ==
  ASSUME WorkerInv, spc # "failed", NEW r \in Regions, NEW name \in Kinds \cup {"none"},
         NEW rest \in BOOLEAN, HepEmStep(r, name, rest)
  PROVE  WorkerInv'
<1>1. tpc = "stepping" /\ spc = "idle" /\ aTrack # 0
  BY DEF WorkerInv, Control, HepEmStep
<1>2. /\ region' = [region EXCEPT ![aTrack] = r] /\ tpc' \in {"exiting", "stepping"}
      /\ UNCHANGED <<fGPUregion, deviceVars, toDevice, spc, stack, killed, configuration, aTrack>>
      /\ name = "none" => UNCHANGED <<kind, secondaries>>
      /\ name # "none" => /\ Unborn # {}
                          /\ kind' = [kind EXCEPT ![Min(Unborn)] = name]
                          /\ secondaries' = Append(secondaries, Min(Unborn))
  BY DEF HepEmStep, bufferVars
<1>3. PICK home : HostHomes(home) /\ DeviceHomes(home)
  BY DEF WorkerInv, Placed, Homes
<1>4. Typed /\ Quiet /\ spc \in Between /\ spc' \in Between
  BY <1>1, <1>2 DEF WorkerInv, Placed, Between
<1>5. aTrack \in Tracks /\ home[aTrack] = "worker"
  BY <1>1, <1>3, <1>4 DEF Typed, HostHomes
<1>6. Control'
  BY <1>1, <1>2 DEF Control
<1>7. Configured'
  BY <1>2 DEF Configured, configuration, WorkerInv
<1>8. /\ region' \in [Tracks -> Regions]
      /\ \A t \in Tracks : t # aTrack => region'[t] = region[t]
  BY <1>2, <1>4, <1>5 DEF Typed
<1>9. Buffered' = Buffered
  BY <1>2 DEF Buffered
<1>10. \A t \in At(home, "toDevice") : region'[t] \in fGPUregion'
  BY <1>2, <1>3, <1>5, <1>8 DEF HostHomes, At
<1>11. CASE name = "none"
  <2>1. HostHomes(home)'
    BY <1>2, <1>3, <1>9, <1>10, <1>11 DEF HostHomes, At
  <2>2. Typed'
    BY <1>2, <1>4, <1>8, <1>11 DEF Typed, deviceVars, Unborn
  <2>3. \A t \in Tracks : home[t] \notin {"active", "next", "leaked"}
    BY <1>3, <1>4, NoneOnDevice
  <2> QED BY <1>2, <1>3, <1>4, <1>6, <1>7, <2>1, <2>2, <2>3, HostStep
<1>12. CASE name # "none"
  <2>1. PICK u \in 0 .. MaxTracks : Unborn = u + 1 .. MaxTracks
    BY <1>4 DEF Typed
  <2>2. PICK b : b = u + 1
    OBVIOUS
  <2>3. /\ b \in Tracks /\ kind[b] = "unborn" /\ kind' = [kind EXCEPT ![b] = name]
        /\ secondaries' = Append(secondaries, b) /\ name \in Kinds
        /\ Unborn \ {b} = b + 1 .. MaxTracks /\ b \in 0 .. MaxTracks
    BY <1>2, <1>12, <2>1, <2>2, FirstUnborn
  <2>4. home[b] = "nowhere"
    BY <1>3, <2>3 DEF HostHomes, Kinds
  <2> DEFINE home2 == [home EXCEPT ![b] = "secondaries"]
  <2>5. home \in [Tracks -> {"nowhere", "stack", "secondaries", "worker", "toDevice",
                             "active", "next", "leaked"}]
    BY <1>3 DEF HostHomes
  <2>6. \A t \in Tracks : home2[t] = IF t = b THEN "secondaries" ELSE home[t]
    BY <2>5
  <2>7. home2 \in [Tracks -> {"nowhere", "stack", "secondaries", "worker", "toDevice",
                              "active", "next", "leaked"}]
    BY <2>5
  <2> HIDE DEF home2
  <2>8. /\ kind' \in [Tracks -> Kinds \cup {"unborn", "ended"}] /\ kind'[b] = name
        /\ \A t \in Tracks : t # b => kind'[t] = kind[t]
    BY <1>4, <2>3 DEF Typed
  <2>9. HostHomes(home2)'
    <3>1. /\ At(home2, "stack")' = At(home, "stack")
          /\ At(home2, "secondaries")' = At(home, "secondaries") \cup {b}
          /\ At(home2, "toDevice")' = At(home, "toDevice")
          /\ b \notin At(home, "secondaries")
      BY <2>3, <2>4, <2>6 DEF At
    <3>2. \A t \in Tracks : home2[t] = "nowhere" <=> kind'[t] \notin Kinds
      BY <1>3, <2>3, <2>6, <2>8 DEF HostHomes
    <3>3. \A t \in Tracks : home2[t] = "worker" <=> t = aTrack'
      BY <1>2, <1>3, <2>4, <2>6 DEF HostHomes
    <3>4. Holds(secondaries', At(home2, "secondaries")')
      <4>1. Holds(secondaries, At(home, "secondaries"))
        BY <1>3 DEF HostHomes
      <4> QED BY <2>3, <3>1, <4>1, HoldsAppend
    <3>5. Holds(stack', At(home2, "stack")') /\ Holds(Buffered', At(home2, "toDevice")')
      BY <1>2, <1>3, <1>9, <3>1 DEF HostHomes
    <3> QED BY <1>10, <2>7, <3>1, <3>2, <3>3, <3>4, <3>5 DEF HostHomes
  <2>10. Typed'
    <3>1. Unborn' = Unborn \ {b}
      <4>1. "unborn" \notin Kinds
        BY DEF Kinds
      <4> QED BY <2>3, <2>8, <4>1 DEF Unborn
    <3>2. \A t \in killed : t \in Tracks /\ kind'[t] = "ended"
      BY <1>4, <2>3, <2>8 DEF Typed
    <3> QED BY <1>2, <1>4, <1>8, <2>3, <2>8, <3>1, <3>2 DEF Typed, deviceVars
  <2>11. \A t \in Tracks : home2[t] \notin {"active", "next", "leaked"}
    BY <1>3, <1>4, <2>6, NoneOnDevice
  <2> QED BY <1>2, <1>3, <1>4, <1>6, <1>7, <2>9, <2>10, <2>11, HostStep
<1> QED BY <1>11, <1>12

(* The secondaries join the stack, with their parent or after its end.     *)
LEMMA PlacedByStackTracks ==
  ASSUME WorkerInv, spc # "failed", EarlyExit \/ FinishTrack
  PROVE  WorkerInv'
<1>1. tpc \in {"exiting", "stepping"} /\ spc = "idle" /\ aTrack # 0
  BY DEF WorkerInv, Control, EarlyExit, FinishTrack
<1>2. /\ stack' = stack \o secondaries /\ secondaries' = <<>>
      /\ region' = [t \in Tracks |-> IF t \in Range(secondaries) THEN region[aTrack] ELSE region[t]]
      /\ UNCHANGED <<fGPUregion, deviceVars, toDevice, spc, killed, configuration>>
      /\ \/ tpc' = "processing" /\ UNCHANGED <<kind, aTrack>>
         \/ tpc' = "event" /\ kind' = [kind EXCEPT ![aTrack] = "ended"] /\ aTrack' = 0
  BY DEF EarlyExit, FinishTrack, StackTracks, bufferVars
<1>3. PICK home : HostHomes(home) /\ DeviceHomes(home)
  BY DEF WorkerInv, Placed, Homes
<1>4. Typed /\ Quiet /\ spc \in Between /\ spc' \in Between
  BY <1>1, <1>2 DEF WorkerInv, Placed, Between
<1>0. PICK t0, over : t0 = aTrack /\ over = (tpc' = "event")
  OBVIOUS
<1>5. t0 \in Tracks /\ home[t0] = "worker" /\ kind[t0] \in Kinds
  BY <1>0, <1>1, <1>3, <1>4 DEF Typed, HostHomes
<1>6. Control'
  BY <1>1, <1>2 DEF Control
<1>7. Configured'
  BY <1>2 DEF Configured, configuration, WorkerInv
<1>8. Holds(stack, At(home, "stack")) /\ Holds(secondaries, At(home, "secondaries"))
  BY <1>3 DEF HostHomes
<1>9. Range(secondaries) = At(home, "secondaries")
  BY <1>8, HoldsFacts
<1>10. /\ region' \in [Tracks -> Regions]
       /\ \A t \in Tracks : home[t] = "toDevice" => region'[t] = region[t]
  <2>1. region[aTrack] \in Regions /\ region \in [Tracks -> Regions]
    BY <1>0, <1>4, <1>5 DEF Typed
  <2> QED BY <1>2, <1>9, <2>1 DEF At
<1> DEFINE home2 == [t \in Tracks |-> IF home[t] = "secondaries" THEN "stack"
                                      ELSE IF t = t0 /\ over THEN "nowhere" ELSE home[t]]
<1>11. home \in [Tracks -> {"nowhere", "stack", "secondaries", "worker", "toDevice",
                            "active", "next", "leaked"}]
  BY <1>3 DEF HostHomes
<1>12. \A t \in Tracks : home2[t] = IF home[t] = "secondaries" THEN "stack"
                                    ELSE IF t = t0 /\ over THEN "nowhere" ELSE home[t]
  OBVIOUS
<1>13. home2 \in [Tracks -> {"nowhere", "stack", "secondaries", "worker", "toDevice",
                             "active", "next", "leaked"}]
  BY <1>11
<1> HIDE DEF home2
<1>14. /\ kind' \in [Tracks -> Kinds \cup {"unborn", "ended"}]
       /\ \A t \in Tracks : kind'[t] = IF t = t0 /\ over THEN "ended" ELSE kind[t]
       /\ aTrack' = IF over THEN 0 ELSE t0
  BY <1>0, <1>2, <1>4, <1>5 DEF Typed
<1>15. HostHomes(home2)'
  <2>1. /\ At(home2, "stack")' = At(home, "stack") \cup At(home, "secondaries")
        /\ At(home2, "secondaries")' = {}
        /\ At(home2, "toDevice")' = At(home, "toDevice")
        /\ At(home, "stack") \cap At(home, "secondaries") = {}
    BY <1>5, <1>12 DEF At
  <2>2. \A t \in Tracks : home2[t] = "nowhere" <=> kind'[t] \notin Kinds
    <3>1. \A t \in Tracks : home[t] = "nowhere" <=> kind[t] \notin Kinds
      BY <1>3 DEF HostHomes
    <3>2. "ended" \notin Kinds
      BY DEF Kinds
    <3> QED BY <1>5, <1>12, <1>14, <3>1, <3>2
  <2>3. \A t \in Tracks : home2[t] = "worker" <=> t = aTrack'
    <3>1. \A t \in Tracks : home[t] = "worker" <=> t = t0
      BY <1>0, <1>3 DEF HostHomes
    <3>2. \A t \in Tracks : t # 0
      BY TracksAreNumbers DEF Vacant
    <3> QED BY <1>5, <1>12, <1>14, <3>1, <3>2
  <2>4. Holds(stack', At(home2, "stack")')
    BY <1>2, <1>8, <2>1, HoldsConcat
  <2>5. Holds(secondaries', At(home2, "secondaries")')
    BY <1>2, <2>1, HoldsNothing
  <2>6. Holds(Buffered', At(home2, "toDevice")')
    <3>1. Buffered' = Buffered
      BY <1>2 DEF Buffered
    <3> QED BY <1>3, <2>1, <3>1 DEF HostHomes
  <2>7. \A t \in At(home2, "toDevice")' : region'[t] \in fGPUregion'
    BY <1>2, <1>3, <1>10, <2>1 DEF HostHomes, At
  <2> QED BY <1>13, <2>2, <2>3, <2>4, <2>5, <2>6, <2>7 DEF HostHomes
<1>16. Typed'
  <2>1. Unborn' = Unborn
    BY <1>5, <1>14 DEF Unborn, Kinds
  <2>2. \A t \in killed : t \in Tracks /\ kind'[t] = "ended"
    BY <1>4, <1>14 DEF Typed
  <2>3. aTrack' \in Tracks \cup {0}
    BY <1>5, <1>14
  <2> QED BY <1>2, <1>4, <1>10, <1>14, <2>1, <2>2, <2>3 DEF Typed, deviceVars
<1>17. \A t \in Tracks : home2[t] \notin {"active", "next", "leaked"}
  <2>1. \A t \in Tracks : home[t] \notin {"active", "next", "leaked"}
    BY <1>3, <1>4, NoneOnDevice
  <2> QED BY <1>12, <2>1
<1> QED BY <1>2, <1>3, <1>4, <1>6, <1>7, <1>15, <1>16, <1>17, HostStep

-----------------------------------------------------------------------------
(* A container that is full stops the program.                             *)
LEMMA Stopped ==
  ASSUME WorkerInv, spc \in {"shower", "transport"}, spc' = "failed",
         UNCHANGED <<fGPUregion, configuration, aTrack, secondaries, tpc>>
  PROVE  WorkerInv'
<1>1. Control'
  BY DEF WorkerInv, Control
<1>2. Configured'
  BY DEF WorkerInv, Configured, configuration
<1> QED BY <1>1, <1>2 DEF WorkerInv

(* The tracks of the buffer become the next ones of the device.            *)
LEMMA PlacedByShower ==
  ASSUME WorkerInv, Shower(event),
         UNCHANGED <<region, configuration, aTrack, secondaries, tpc>>
  PROVE  WorkerInv'
<1>1. /\ spc = "shower" /\ tpc \in {"event", "flushing"} /\ aTrack = 0 /\ secondaries = <<>>
  BY DEF WorkerInv, Control, Shower
<1> DEFINE kinds == KindsOf(toDevice)
           n == Len(toDevice)
<1>2. /\ UNCHANGED <<fGPUregion, kind, todo, leakedTracks, toDevice, stack, killed>>
      /\ \/ spc' = "failed"
         \/ /\ spc' = "transport" /\ mgr' = NewTracks(mgr, toDevice, kinds)
            /\ \A k \in Kinds : ~NoSlotFor(k, NumberOf(k, toDevice))
  BY DEF Shower, InitTracks
<1>3. CASE spc' = "failed"
  BY <1>1, <1>2, <1>3, Stopped
<1>4. CASE spc' # "failed"
  <2>1. /\ spc' = "transport" /\ mgr' = NewTracks(mgr, toDevice, kinds)
        /\ \A k \in Kinds : ~NoSlotFor(k, NumberOf(k, toDevice))
    BY <1>2, <1>4
  <2>2. PICK home : HostHomes(home) /\ DeviceHomes(home)
    BY <1>1 DEF WorkerInv, Placed, Homes
  <2>3. Typed /\ Quiet /\ spc \in Between
    BY <1>1 DEF WorkerInv, Placed, Between
  <2>4. \A t \in Tracks : home[t] \notin {"active", "next", "leaked"}
    BY <2>2, <2>3, NoneOnDevice
  <2>5. Holds(toDevice, At(home, "toDevice"))
    BY <1>1, <2>2 DEF HostHomes, Buffered
  <2>6. /\ n \in Nat /\ DOMAIN toDevice = 1 .. n /\ toDevice \in Seq(Tracks)
        /\ \A i \in 1 .. n : toDevice[i] \in At(home, "toDevice")
        /\ \A t \in At(home, "toDevice") : \E i \in 1 .. n : toDevice[i] = t
        /\ \A i, j \in 1 .. n : toDevice[i] = toDevice[j] => i = j
    <3>1. At(home, "toDevice") \subseteq Tracks
      BY DEF At
    <3> QED BY <2>5, <3>1, SeqOfMore DEF Holds
  <2>7. \A i \in 1 .. n : kinds[i] = kind[toDevice[i]] /\ kinds[i] \in Kinds
    <3>1. \A i \in 1 .. n : kinds[i] = kind[toDevice[i]]
      BY <2>6 DEF KindsOf
    <3>2. \A t \in At(home, "toDevice") : kind[t] \in Kinds
      BY <2>2 DEF HostHomes, At
    <3> QED BY <2>6, <3>1, <3>2
  <2>8. \A k \in Kinds : todo[k] = <<>> /\ leakedTracks[k] = <<>> /\ mgr[k].fNextTracks = <<>>
    BY <2>3 DEF Quiet, EmptyManager
  <2> DEFINE Nobody == [k \in Kinds |-> {}]
             None == [k \in Kinds |-> <<>>]
  <2>9. \A k \in Kinds : Carries(mgr[k], None[k], Nobody[k], Nobody[k])
    <3> SUFFICES ASSUME NEW k \in Kinds PROVE Carries(mgr[k], <<>>, {}, {})
      BY Zenon
    <3>1. OfKind(home, "active", k) = {} /\ OfKind(home, "next", k) = {}
      BY <2>4 DEF OfKind
    <3>2. Active(k) = <<>>
      BY <1>1, <2>8 DEF Active
    <3> QED BY <2>2, <3>1, <3>2 DEF DeviceHomes
  <2>10. \A k \in Kinds : mgr[k].fNextFree - mgr[k].fStart + Cardinality(Indices(kinds, n, k)) <= fCapacity
    <3> SUFFICES ASSUME NEW k \in Kinds
                 PROVE  mgr[k].fNextFree - mgr[k].fStart + Cardinality(Indices(kinds, n, k)) <= fCapacity
      OBVIOUS
    <3>1. {i \in DOMAIN toDevice : kind[toDevice[i]] = k} = Indices(kinds, n, k)
      BY <2>6, <2>7 DEF Indices
    <3>2. NumberOf(k, toDevice) = Cardinality(Indices(kinds, n, k))
      BY <3>1 DEF NumberOf
    <3>3. Cardinality(Indices(kinds, n, k)) \in Nat
      <4>1. IsFiniteSet(1 .. n)
        BY <2>6, FS_Interval
      <4>2. Indices(kinds, n, k) \subseteq 1 .. n
        BY DEF Indices
      <4> QED BY <4>1, <4>2, FS_Subset, FS_CardinalityType
    <3>4. mgr[k].fNextFree \in Nat /\ mgr[k].fStart \in Nat /\ fCapacity \in Nat
      BY <2>3, TrackManagerAssumption DEF Typed, Managers
    <3>5. ~(mgr[k].fNextFree - mgr[k].fStart + NumberOf(k, toDevice) > fCapacity)
      BY <2>1 DEF NoSlotFor
    <3> DEFINE a == mgr[k].fNextFree
               b == mgr[k].fStart
               c == Cardinality(Indices(kinds, n, k))
    <3>6. a \in Nat /\ b \in Nat /\ c \in Nat /\ ~(a - b + c > fCapacity)
      BY <3>2, <3>3, <3>4, <3>5
    <3> HIDE DEF a, b, c
    <3>7. a - b + c <= fCapacity
      BY <3>4, <3>6
    <3> QED BY <3>7 DEF a, b, c
  <2>11. \A i \in 1 .. n, k \in Kinds : toDevice[i] \notin Nobody[k]
    OBVIOUS
  <2> HIDE DEF Nobody, None, kinds
  <2>12. /\ mgr' \in [Kinds -> Managers(Room)]
         /\ \A k \in Kinds : Carries(mgr'[k], None[k], Nobody[k],
                                     Joined(Nobody, toDevice, kinds, k))
    <3>1. mgr \in [Kinds -> Managers(Room)]
      BY <2>3 DEF Typed
    <3>2. \A i \in 1 .. n : kinds[i] \in Kinds
      BY <2>7
    <3>3. toDevice \in Seq(Tracks) /\ \A i, j \in 1 .. n : toDevice[i] = toDevice[j] => i = j
      BY <2>6
    <3> QED BY <2>1, <2>9, <2>10, <2>11, <3>1, <3>2, <3>3, CarriesNewTracks
  <2>13. \A k \in Kinds : Carries(mgr'[k], <<>>, {}, {toDevice[i] : i \in Indices(kinds, n, k)})
    BY <2>12 DEF Nobody, None, Joined
  <2> DEFINE home2 == [t \in Tracks |-> IF home[t] = "toDevice" THEN "next" ELSE home[t]]
  <2>14. home \in [Tracks -> {"nowhere", "stack", "secondaries", "worker", "toDevice",
                              "active", "next", "leaked"}]
    BY <2>2 DEF HostHomes
  <2>15. \A t \in Tracks : home2[t] = IF home[t] = "toDevice" THEN "next" ELSE home[t]
    OBVIOUS
  <2>16. home2 \in [Tracks -> {"nowhere", "stack", "secondaries", "worker", "toDevice",
                               "active", "next", "leaked"}]
    BY <2>14
  <2> HIDE DEF home2, n
  <2>17. HostHomes(home2)'
    <3>1. /\ At(home2, "stack")' = At(home, "stack")
          /\ At(home2, "secondaries")' = At(home, "secondaries")
          /\ At(home2, "toDevice")' = {}
      BY <2>15 DEF At
    <3>2. Buffered' = <<>>
      BY <2>1 DEF Buffered
    <3>3. Holds(Buffered', At(home2, "toDevice")')
      BY <3>1, <3>2, HoldsNothing
    <3>4. Holds(stack', At(home2, "stack")') /\ Holds(secondaries', At(home2, "secondaries")')
      BY <1>2, <2>2, <3>1 DEF HostHomes
    <3>5. \A t \in Tracks : /\ home2[t] = "nowhere" <=> kind'[t] \notin Kinds
                            /\ home2[t] = "worker" <=> t = aTrack'
      BY <1>2, <2>2, <2>15 DEF HostHomes
    <3> QED BY <2>16, <3>1, <3>3, <3>4, <3>5 DEF HostHomes
  <2>18. DeviceHomes(home2)'
    <3> SUFFICES ASSUME NEW k \in Kinds
                 PROVE  /\ Carries(mgr'[k], Active(k)', OfKind(home2, "active", k)',
                                   OfKind(home2, "next", k)')
                        /\ Holds(leakedTracks'[k], OfKind(home2, "leaked", k)')
      BY DEF DeviceHomes
    <3>1. /\ OfKind(home2, "active", k)' = {} /\ OfKind(home2, "leaked", k)' = {}
      BY <2>4, <2>15 DEF OfKind
    <3>2. OfKind(home2, "next", k)' = {t \in Tracks : home[t] = "toDevice" /\ kind[t] = k}
      BY <1>2, <2>4, <2>15 DEF OfKind
    <3>3. {t \in Tracks : home[t] = "toDevice" /\ kind[t] = k}
            = {toDevice[i] : i \in Indices(kinds, n, k)}
      BY <2>6, <2>7 DEF At, Indices
    <3>4. Active(k)' = <<>>
      BY <1>2, <2>1, <2>8 DEF Active
    <3>5. Holds(leakedTracks'[k], {})
      BY <1>2, <2>8, HoldsNothing
    <3> QED BY <2>13, <3>1, <3>2, <3>3, <3>4, <3>5
  <2>19. Typed'
    BY <1>2, <2>3, <2>12 DEF Typed, Unborn
  <2>20. Quiet'
    BY <2>1 DEF Quiet, Between
  <2>21. Control'
    BY <1>1, <1>2, <2>1 DEF Control
  <2>22. Configured'
    BY <1>2 DEF Configured, configuration, WorkerInv
  <2> QED BY <2>17, <2>18, <2>19, <2>20, <2>21, <2>22 DEF WorkerInv, Placed, Homes
<1> QED BY <1>3, <1>4
(* The tracks that a step brings are the next ones without a number.       *)
LEMMA NextNumbers ==
  ASSUME NEW u \in 0 .. MaxTracks, Unborn = u + 1 .. MaxTracks, NEW L \in Nat,
         L <= Cardinality(Unborn)
  PROVE  /\ Cardinality(Tracks \ Unborn) = u /\ u + L <= MaxTracks
         /\ \A j \in 1 .. L : u + j \in Unborn
<1>1. MaxTracks \in Nat /\ Tracks = 1 .. MaxTracks /\ u \in Nat
  BY TracksAreNumbers
<1>2. Tracks \ Unborn = 1 .. u
  BY <1>1
<1>3. Cardinality(1 .. u) = u
  BY <1>1, FS_Interval
<1>4. Cardinality(u + 1 .. MaxTracks) = MaxTracks - u
  <2> DEFINE a == u + 1
  <2>1. a \in Int /\ MaxTracks \in Int /\ (a > MaxTracks => MaxTracks - u = 0)
        /\ MaxTracks - a + 1 = MaxTracks - u
    BY <1>1
  <2> HIDE DEF a
  <2>2. Cardinality(a .. MaxTracks) = IF a > MaxTracks THEN 0 ELSE MaxTracks - a + 1
    BY <2>1, FS_Interval
  <2> QED BY <2>1, <2>2 DEF a
<1>5. u + L <= MaxTracks
  BY <1>1, <1>4
<1>6. \A j \in 1 .. L : u + j \in u + 1 .. MaxTracks
  BY <1>1, <1>5
<1> QED BY <1>2, <1>3, <1>5, <1>6

(* A step takes its track from the active ones, and its births are next.   *)
LEMMA PlacedByStep ==
  ASSUME WorkerInv, NEW k \in Kinds, NEW i \in DOMAIN todo[k], NEW effect \in StepEffects[k],
         Step(k, i, effect), UNCHANGED <<region, configuration, aTrack, secondaries, tpc>>
  PROVE  WorkerInv'
<1>1. /\ spc = "transport" /\ tpc \in {"event", "flushing"} /\ aTrack = 0 /\ secondaries = <<>>
  BY DEF WorkerInv, Control, Step
<1>2. /\ effect.next \in BOOLEAN /\ effect.leak \in BOOLEAN /\ effect.born \in Seq(Kinds)
      /\ ~(effect.next /\ effect.leak)
  <2>1. effect \in [next : BOOLEAN, leak : BOOLEAN, hits : 0 .. 2, born : Seq(Kinds)]
        /\ ~(effect.next /\ effect.leak)
    BY SyncTransportAssumption
  <2> QED BY <2>1
<1>3. PICK slot, t0, births, L : /\ slot = todo[k][i] /\ t0 = mgr[k].fBuffer[slot]
                                 /\ births = effect.born /\ L = Len(births)
  OBVIOUS
<1>4. L \in Nat /\ births \in Seq(Kinds) /\ DOMAIN births = 1 .. L
  BY <1>2, <1>3
<1>5. PICK u \in 0 .. MaxTracks : Unborn = u + 1 .. MaxTracks
  BY <1>1 DEF WorkerInv, Placed, Typed
<1>6. L <= Cardinality(Unborn)
  BY <1>3 DEF Step
<1>7. /\ Cardinality(Tracks \ Unborn) = u /\ u + L <= MaxTracks /\ u \in Nat
      /\ \A j \in 1 .. L : u + j \in Unborn
  <2>1. L \in Nat
    BY <1>4
  <2>2. /\ Cardinality(Tracks \ Unborn) = u /\ u + L <= MaxTracks
        /\ \A j \in 1 .. L : u + j \in Unborn
    BY ONLY <1>5, <1>6, <2>1, NextNumbers, Zenon
  <2>3. u \in Nat
    BY TracksAreNumbers
  <2> QED BY <2>2, <2>3
<1> DEFINE survived == IF effect.next THEN [mgr EXCEPT ![k].fNextTracks = Append(@, slot)] ELSE mgr
           numbers == [j \in 1 .. L |-> u + j]
<1>8. /\ todo' = [todo EXCEPT ![k] = RemoveAt(@, i)]
      /\ kind' = [t \in Tracks |->
           IF t \in u + 1 .. u + L THEN births[t - u]
           ELSE IF t = t0 /\ ~effect.next /\ ~effect.leak THEN "ended" ELSE kind[t]]
      /\ leakedTracks' = IF effect.leak THEN [leakedTracks EXCEPT ![k] = Append(@, t0)]
                         ELSE leakedTracks
      /\ UNCHANGED <<fGPUregion, toDevice, stack, killed>>
      /\ \/ spc' = "failed"
         \/ /\ spc' = "transport" /\ mgr' = NewTracks(survived, numbers, births)
            /\ \A l \in Kinds : ~NoSlotFor(l, BornOfKind(effect, l))
  <2> DEFINE first == Cardinality(Tracks \ Unborn)
             given == [j \in DOMAIN effect.born |-> first + j]
             track == mgr[k].fBuffer[todo[k][i]]
  <2>1. given = numbers /\ first = u /\ track = t0 /\ Len(effect.born) = L
    BY <1>3, <1>4, <1>7
  <2>2. /\ todo' = [todo EXCEPT ![k] = RemoveAt(@, i)]
        /\ UNCHANGED <<fGPUregion, toDevice, stack, killed>>
    BY DEF Step, bufferVars
  <2>3. kind' = [t \in Tracks |->
           IF t \in first + 1 .. first + Len(effect.born) THEN effect.born[t - first]
           ELSE IF t = track /\ ~effect.next /\ ~effect.leak THEN "ended" ELSE kind[t]]
    BY DEF Step
  <2>4. leakedTracks' = IF effect.leak THEN [leakedTracks EXCEPT ![k] = Append(@, track)]
                        ELSE leakedTracks
    BY DEF Step
  <2>5. \/ spc' = "failed"
        \/ /\ spc' = spc /\ mgr' = NewTracks(survived, given, effect.born)
           /\ \A l \in Kinds : ~NoSlotFor(l, BornOfKind(effect, l))
    BY <1>3 DEF Step
  <2> HIDE DEF first, given, track, survived, numbers
  <2>6. kind' = [t \in Tracks |->
           IF t \in u + 1 .. u + L THEN births[t - u]
           ELSE IF t = t0 /\ ~effect.next /\ ~effect.leak THEN "ended" ELSE kind[t]]
    BY <1>3, <2>1, <2>3
  <2> QED BY <1>1, <1>3, <2>1, <2>2, <2>4, <2>5, <2>6
<1> HIDE DEF survived, numbers
<1>9. CASE spc' = "failed"
  BY <1>1, <1>8, <1>9, Stopped
<1>10. CASE spc' # "failed"
  <2>1. /\ spc' = "transport" /\ mgr' = NewTracks(survived, numbers, births)
        /\ \A l \in Kinds : ~NoSlotFor(l, BornOfKind(effect, l))
    BY <1>8, <1>10
  <2>2. PICK home : HostHomes(home) /\ DeviceHomes(home)
    BY <1>1 DEF WorkerInv, Placed, Homes
  <2>3. Typed
    BY <1>1 DEF WorkerInv, Placed
  <2>4. home \in [Tracks -> {"nowhere", "stack", "secondaries", "worker", "toDevice",
                             "active", "next", "leaked"}]
        /\ \A t \in Tracks : home[t] = "nowhere" <=> kind[t] \notin Kinds
    BY <2>2 DEF HostHomes
  <2>5. \A l \in Kinds :
          /\ Carries(mgr[l], todo[l], OfKind(home, "active", l), OfKind(home, "next", l))
          /\ Holds(leakedTracks[l], OfKind(home, "leaked", l))
    BY <1>1, <2>2 DEF DeviceHomes, Active
  <2>6. i \in 1 .. Len(todo[k]) /\ todo[k] \in Seq(Slots)
    BY <2>3 DEF Typed
  <2>7. t0 \in OfKind(home, "active", k)
    BY <1>3, <2>5, <2>6, CarriesLess
  <2>8. t0 \in Tracks /\ home[t0] = "active" /\ kind[t0] = k
    BY <2>7 DEF OfKind
  <2>9. \A t \in Tracks : t \in u + 1 .. u + L => kind[t] = "unborn" /\ home[t] = "nowhere" /\ t # t0
    <3>1. \A t \in Tracks : t \in u + 1 .. u + L => t \in Unborn
      BY <1>4, <1>5, <1>7, TracksAreNumbers
    <3>2. \A t \in Unborn : t \in Tracks /\ kind[t] = "unborn" /\ kind[t] \notin Kinds
      BY DEF Unborn, Kinds
    <3> QED BY <2>4, <2>8, <3>1, <3>2
  <2> DEFINE home2 == [t \in Tracks |->
                IF t \in u + 1 .. u + L THEN "next"
                ELSE IF t = t0
                     THEN IF effect.next THEN "next" ELSE IF effect.leak THEN "leaked" ELSE "nowhere"
                     ELSE home[t]]
             A == [l \in Kinds |-> OfKind(home, "active", l) \ {t0}]
             B == [l \in Kinds |-> IF l = k /\ effect.next THEN OfKind(home, "next", l) \cup {t0}
                                   ELSE OfKind(home, "next", l)]
  <2>10. \A t \in Tracks : home2[t] =
                IF t \in u + 1 .. u + L THEN "next"
                ELSE IF t = t0
                     THEN IF effect.next THEN "next" ELSE IF effect.leak THEN "leaked" ELSE "nowhere"
                     ELSE home[t]
    OBVIOUS
  <2>11. home2 \in [Tracks -> {"nowhere", "stack", "secondaries", "worker", "toDevice",
                               "active", "next", "leaked"}]
    BY <2>4
  <2>12. \A t \in Tracks : kind'[t] =
           IF t \in u + 1 .. u + L THEN births[t - u]
           ELSE IF t = t0 /\ ~effect.next /\ ~effect.leak THEN "ended" ELSE kind[t]
    BY <1>8
  <2>13. \A t \in Tracks : t \in u + 1 .. u + L => t - u \in 1 .. L /\ births[t - u] \in Kinds
    BY <1>4, <1>7, TracksAreNumbers
  <2> HIDE DEF home2
  <2>14. /\ todo' \in [Kinds -> Seq(Slots)] /\ todo'[k] = RemoveAt(todo[k], i)
         /\ \A l \in Kinds \ {k} : todo'[l] = todo[l]
    <3>1. RemoveAt(todo[k], i) \in Seq(Slots)
      BY <2>6, RemoveAtIs
    <3> QED BY <1>8, <2>3, <3>1 DEF Typed
  <2>15. /\ survived \in [Kinds -> Managers(Room)]
         /\ \A l \in Kinds : /\ Carries(survived[l], todo'[l], A[l], B[l])
                             /\ survived[l].fNextFree = mgr[l].fNextFree
                             /\ survived[l].fStart = mgr[l].fStart
    <3> DEFINE m == mgr[k]
               next == m.fNextTracks
               q == [m EXCEPT !.fNextTracks = Append(next, slot)]
    <3>1. mgr \in [Kinds -> Managers(Room)] /\ m \in Managers(Room)
      BY <2>3 DEF Typed
    <3>2. A[k] = OfKind(home, "active", k) \ {t0}
      OBVIOUS
    <3>3. Carries(m, todo[k], OfKind(home, "active", k), OfKind(home, "next", k))
      BY <2>5
    <3>4. CASE effect.next
      <4>1. survived = [mgr EXCEPT ![k] = q]
        BY <3>4 DEF survived
      <4>2. B[k] = OfKind(home, "next", k) \cup {t0}
        BY <3>4
      <4>3. OfKind(home, "active", k) \cap OfKind(home, "next", k) = {}
        BY DEF OfKind
      <4>4. Carries(q, RemoveAt(todo[k], i), A[k], B[k])
        <5>1. Carries([m EXCEPT !.fNextTracks = Append(@, todo[k][i])], RemoveAt(todo[k], i),
                      OfKind(home, "active", k) \ {m.fBuffer[todo[k][i]]},
                      OfKind(home, "next", k) \cup {m.fBuffer[todo[k][i]]})
          <6> HIDE DEF m
          <6> QED BY <2>6, <3>3, <4>3, CarriesSurvivor
        <5> QED BY <1>3, <3>2, <4>2, <5>1
      <4>5. q.fNextFree = m.fNextFree /\ q.fStart = m.fStart
        BY <3>1 DEF Managers
      <4>6. q \in Managers(Room)
        BY <4>4, CarriesFacts
      <4> HIDE DEF q, m
      <4>7. /\ survived \in [Kinds -> Managers(Room)] /\ survived[k] = q
            /\ \A l \in Kinds \ {k} : survived[l] = mgr[l]
        BY <3>1, <4>1, <4>6
      <4>8. \A l \in Kinds \ {k} : Carries(mgr[l], todo'[l], A[l], B[l])
        <5> SUFFICES ASSUME NEW l \in Kinds \ {k} PROVE Carries(mgr[l], todo'[l], A[l], B[l])
          OBVIOUS
        <5>1. A[l] = OfKind(home, "active", l) /\ B[l] = OfKind(home, "next", l)
          BY <2>8 DEF OfKind
        <5> QED BY <2>5, <2>14, <5>1
      <4> HIDE DEF A, B
      <4> QED BY <2>14, <4>4, <4>5, <4>7, <4>8 DEF m
    <3>5. CASE ~effect.next
      <4>1. survived = mgr
        BY <3>5 DEF survived
      <4>2. B[k] = OfKind(home, "next", k)
        BY <3>5
      <4>3. Carries(m, RemoveAt(todo[k], i), A[k], B[k])
        <5>1. Carries(m, RemoveAt(todo[k], i), OfKind(home, "active", k) \ {m.fBuffer[todo[k][i]]},
                      OfKind(home, "next", k))
          <6> HIDE DEF m
          <6> QED BY <2>6, <3>3, CarriesLess
        <5> QED BY <1>3, <3>2, <4>2, <5>1
      <4>4. \A l \in Kinds \ {k} : Carries(mgr[l], todo'[l], A[l], B[l])
        <5> SUFFICES ASSUME NEW l \in Kinds \ {k} PROVE Carries(mgr[l], todo'[l], A[l], B[l])
          OBVIOUS
        <5>1. A[l] = OfKind(home, "active", l) /\ B[l] = OfKind(home, "next", l)
          BY <2>8 DEF OfKind
        <5> QED BY <2>5, <2>14, <5>1
      <4> HIDE DEF A, B
      <4> QED BY <2>14, <3>1, <4>1, <4>3, <4>4
    <3> QED BY <3>4, <3>5
  <2>16. \A l \in Kinds : survived[l].fNextFree - survived[l].fStart
                            + Cardinality(Indices(births, L, l)) <= fCapacity
    <3> SUFFICES ASSUME NEW l \in Kinds
                 PROVE  survived[l].fNextFree - survived[l].fStart
                          + Cardinality(Indices(births, L, l)) <= fCapacity
      OBVIOUS
    <3> DEFINE a == mgr[l].fNextFree
               b == mgr[l].fStart
               c == Cardinality(Indices(births, L, l))
    <3>1. BornOfKind(effect, l) = c
      <4>1. {j \in DOMAIN effect.born : effect.born[j] = l} = Indices(births, L, l)
        BY <1>3, <1>4 DEF Indices
      <4> QED BY <4>1 DEF BornOfKind
    <3>2. c \in Nat
      <4>1. IsFiniteSet(1 .. L)
        BY <1>4, FS_Interval
      <4>2. Indices(births, L, l) \subseteq 1 .. L
        BY DEF Indices
      <4> QED BY <4>1, <4>2, FS_Subset, FS_CardinalityType
    <3>3. a \in Nat /\ b \in Nat /\ fCapacity \in Nat
      BY <2>3, TrackManagerAssumption DEF Typed, Managers
    <3>4. ~(a - b + c > fCapacity)
      BY <2>1, <3>1 DEF NoSlotFor
    <3>5. survived[l].fNextFree = a /\ survived[l].fStart = b
      BY <2>15
    <3> HIDE DEF a, b, c
    <3>6. a - b + c <= fCapacity
      BY <3>2, <3>3, <3>4
    <3> QED BY <3>5, <3>6 DEF c
  <2>17. /\ numbers \in Seq(Tracks) /\ Len(numbers) = L
         /\ \A j \in 1 .. L : numbers[j] = u + j
    <3>1. \A j \in 1 .. L : u + j \in Tracks
      BY <1>7 DEF Unborn
    <3> QED BY <1>4, <3>1 DEF numbers
  <2>18. \A j, h \in 1 .. L : numbers[j] = numbers[h] => j = h
    BY <1>4, <1>7, <2>17
  <2>19. \A j \in 1 .. L, l \in Kinds : numbers[j] \notin B[l]
    <3> SUFFICES ASSUME NEW j \in 1 .. L, NEW l \in Kinds PROVE numbers[j] \notin B[l]
      OBVIOUS
    <3>1. numbers[j] \in Tracks /\ numbers[j] \in u + 1 .. u + L
      BY <1>4, <1>7, <2>17
    <3>2. home[numbers[j]] = "nowhere" /\ numbers[j] # t0
      BY <2>9, <3>1
    <3>3. numbers[j] \notin OfKind(home, "next", l)
      BY <3>2 DEF OfKind
    <3> QED BY <3>2, <3>3
  <2>20. \A j \in 1 .. L : births[j] \in Kinds
    BY <1>4
  <2> DEFINE d == todo'
             J(l) == Joined(B, numbers, births, l)
  <2>21. /\ mgr' \in [Kinds -> Managers(Room)]
         /\ \A l \in Kinds : Carries(mgr'[l], d[l], A[l], J(l))
    <3>1. \A l \in Kinds : Carries(survived[l], d[l], A[l], B[l])
      BY <2>15
    <3>2. survived \in [Kinds -> Managers(Room)]
      BY <2>15
    <3> HIDE DEF A, B, d
    <3> QED BY <2>1, <2>16, <2>17, <2>18, <2>19, <2>20, <3>1, <3>2, CarriesNewTracks
  <2>22. \A l \in Kinds : J(l) = OfKind(home2, "next", l)'
    <3> SUFFICES ASSUME NEW l \in Kinds PROVE J(l) = OfKind(home2, "next", l)'
      OBVIOUS
    <3>1. J(l) = B[l] \cup {numbers[j] : j \in Indices(births, L, l)}
      BY <2>17 DEF Joined
    <3>2. {numbers[j] : j \in Indices(births, L, l)}
            = {t \in Tracks : t \in u + 1 .. u + L /\ births[t - u] = l}
      <4>1. \A j \in 1 .. L : numbers[j] \in Tracks /\ numbers[j] \in u + 1 .. u + L
                              /\ numbers[j] - u = j
        BY <1>4, <1>7, <2>17
      <4>2. \A t \in Tracks : t \in u + 1 .. u + L => t - u \in 1 .. L /\ numbers[t - u] = t
        BY <1>4, <1>7, <2>17, TracksAreNumbers
      <4> QED BY <4>1, <4>2 DEF Indices
    <3>3. \A t \in Tracks : (home2[t] = "next" /\ kind'[t] = l) <=>
             \/ t \in u + 1 .. u + L /\ births[t - u] = l
             \/ t = t0 /\ effect.next /\ l = k
             \/ home[t] = "next" /\ kind[t] = l
      <4> SUFFICES ASSUME NEW t \in Tracks
                   PROVE  (home2[t] = "next" /\ kind'[t] = l) <=>
                             \/ t \in u + 1 .. u + L /\ births[t - u] = l
                             \/ t = t0 /\ effect.next /\ l = k
                             \/ home[t] = "next" /\ kind[t] = l
        OBVIOUS
      <4>1. CASE t \in u + 1 .. u + L
        BY <2>9, <2>10, <2>12, <4>1
      <4>2. CASE t = t0
        <5>1. t \notin u + 1 .. u + L
          BY <2>9, <4>2
        <5>2. home2[t] = IF effect.next THEN "next" ELSE IF effect.leak THEN "leaked" ELSE "nowhere"
          BY Zenon, <2>10, <4>2, <5>1
        <5>3. effect.next => kind'[t] = k
          BY <2>8, <2>12, <4>2, <5>1
        <5>4. home[t] = "active"
          BY <2>8, <4>2
        <5> QED BY <4>2, <5>1, <5>2, <5>3, <5>4
      <4>3. CASE t \notin u + 1 .. u + L /\ t # t0
        <5>1. home2[t] = home[t] /\ kind'[t] = kind[t]
          BY Zenon, <2>10, <2>12, <4>3
        <5> QED BY <4>3, <5>1
      <4> QED BY <4>1, <4>2, <4>3
    <3>4. B[l] = {t \in Tracks : (t = t0 /\ effect.next /\ l = k) \/ (home[t] = "next" /\ kind[t] = l)}
      BY <2>8 DEF OfKind
    <3> HIDE DEF J, B
    <3> QED BY <3>1, <3>2, <3>3, <3>4 DEF OfKind
  <2>23. \A l \in Kinds : A[l] = OfKind(home2, "active", l)'
    <3>1. \A t \in Tracks : /\ home2[t] = "active" <=> home[t] = "active" /\ t # t0
                            /\ home2[t] = "active" => kind'[t] = kind[t]
      BY <2>9, <2>10, <2>12
    <3> QED BY <3>1 DEF OfKind
  <2>24. \A l \in Kinds : Holds(leakedTracks'[l], OfKind(home2, "leaked", l)')
    <3> SUFFICES ASSUME NEW l \in Kinds PROVE Holds(leakedTracks'[l], OfKind(home2, "leaked", l)')
      OBVIOUS
    <3>1. leakedTracks \in [Kinds -> Seq(Tracks)]
      BY <2>3 DEF Typed
    <3>2. CASE effect.leak /\ l = k
      <4>1. leakedTracks'[l] = Append(leakedTracks[l], t0)
        BY <1>8, <3>1, <3>2
      <4>2. OfKind(home2, "leaked", l)' = OfKind(home, "leaked", l) \cup {t0}
        <5>1. \A t \in Tracks : home2[t] = "leaked" <=> home[t] = "leaked" \/ t = t0
          BY <1>2, <2>8, <2>9, <2>10, <3>2
        <5>2. \A t \in Tracks : home2[t] = "leaked" => kind'[t] = kind[t]
          BY <2>9, <2>10, <2>12, <3>2
        <5> QED BY <2>8, <3>2, <5>1, <5>2 DEF OfKind
      <4>3. t0 \notin OfKind(home, "leaked", l)
        BY <2>8 DEF OfKind
      <4> QED BY <2>5, <4>1, <4>2, <4>3, HoldsAppend
    <3>3. CASE ~(effect.leak /\ l = k)
      <4>1. leakedTracks'[l] = leakedTracks[l]
        BY <1>8, <3>1, <3>3
      <4>2. OfKind(home2, "leaked", l)' = OfKind(home, "leaked", l)
        <5>1. \A t \in Tracks : t # t0 => (home2[t] = "leaked" <=> home[t] = "leaked")
          BY <2>9, <2>10
        <5>2. \A t \in Tracks : home2[t] = "leaked" => kind'[t] = kind[t]
          BY <2>9, <2>10, <2>12
        <5>3. home2[t0] = "leaked" => effect.leak /\ kind'[t0] = k
          BY <2>8, <2>9, <2>10, <2>12
        <5>4. home[t0] # "leaked"
          BY <2>8
        <5> QED BY <2>8, <3>3, <5>1, <5>2, <5>3, <5>4 DEF OfKind
      <4> QED BY <2>5, <4>1, <4>2
    <3> QED BY <3>2, <3>3
  <2> HIDE DEF A, B, J
  <2>25. DeviceHomes(home2)'
    <3> SUFFICES ASSUME NEW l \in Kinds
                 PROVE  /\ Carries(mgr'[l], Active(l)', OfKind(home2, "active", l)',
                                   OfKind(home2, "next", l)')
                        /\ Holds(leakedTracks'[l], OfKind(home2, "leaked", l)')
      BY DEF DeviceHomes
    <3>1. Active(l)' = todo'[l]
      BY <2>1 DEF Active
    <3> QED BY <2>21, <2>22, <2>23, <2>24, <3>1
  <2>26. HostHomes(home2)'
    <3>1. /\ At(home2, "stack")' = At(home, "stack")
          /\ At(home2, "secondaries")' = At(home, "secondaries")
          /\ At(home2, "toDevice")' = At(home, "toDevice")
      BY <2>8, <2>9, <2>10 DEF At
    <3>2. Buffered' = Buffered
      BY <1>1, <2>1 DEF Buffered
    <3>3. /\ Holds(stack', At(home2, "stack")') /\ Holds(secondaries', At(home2, "secondaries")')
          /\ Holds(Buffered', At(home2, "toDevice")')
          /\ \A t \in At(home2, "toDevice")' : region'[t] \in fGPUregion'
      BY <1>8, <2>2, <3>1, <3>2 DEF HostHomes
    <3>4. \A t \in Tracks : home2[t] = "nowhere" <=> kind'[t] \notin Kinds
      <4> SUFFICES ASSUME NEW t \in Tracks PROVE home2[t] = "nowhere" <=> kind'[t] \notin Kinds
        OBVIOUS
      <4>0. "ended" \notin Kinds
        BY DEF Kinds
      <4>1. CASE t \in u + 1 .. u + L
        BY <2>10, <2>12, <2>13, <4>1
      <4>2. CASE t = t0
        <5>1. t \notin u + 1 .. u + L
          BY <2>9, <4>2
        <5>2. /\ home2[t] = IF effect.next THEN "next" ELSE IF effect.leak THEN "leaked" ELSE "nowhere"
              /\ kind'[t] = IF ~effect.next /\ ~effect.leak THEN "ended" ELSE k
          BY <2>8, <2>10, <2>12, <4>2, <5>1
        <5> QED BY <4>0, <5>2
      <4>3. CASE t \notin u + 1 .. u + L /\ t # t0
        BY <2>4, <2>10, <2>12, <4>3
      <4> QED BY <4>1, <4>2, <4>3
    <3>5. \A t \in Tracks : home2[t] = "worker" <=> t = aTrack'
      <4>1. \A t \in Tracks : home[t] # "worker" /\ t # aTrack'
        BY <1>1, <2>2, TracksAreNumbers DEF HostHomes, Vacant
      <4> QED BY <2>10, <4>1
    <3> QED BY <2>11, <3>3, <3>4, <3>5 DEF HostHomes
  <2>27. Typed'
    <3>1. kind' \in [Tracks -> Kinds \cup {"unborn", "ended"}]
      <4>1. \A t \in Tracks : kind'[t] \in Kinds \cup {"unborn", "ended"}
        BY <2>3, <2>12, <2>13 DEF Typed
      <4> QED BY <1>8, <4>1
    <3>2. leakedTracks' \in [Kinds -> Seq(Tracks)]
      <4>1. leakedTracks \in [Kinds -> Seq(Tracks)]
        BY <2>3 DEF Typed
      <4>2. Append(leakedTracks[k], t0) \in Seq(Tracks)
        BY <2>8, <4>1
      <4> QED BY <1>8, <4>1, <4>2
    <3>3. \A t \in killed : t \in Tracks /\ kind'[t] = "ended"
      <4> SUFFICES ASSUME NEW t \in killed PROVE t \in Tracks /\ kind'[t] = "ended"
        OBVIOUS
      <4>1. t \in Tracks /\ kind[t] = "ended" /\ "ended" \notin Kinds
        BY <2>3 DEF Typed, Kinds
      <4>2. t \notin u + 1 .. u + L /\ t # t0
        BY <2>8, <2>9, <4>1
      <4> QED BY <2>12, <4>1, <4>2
    <3>4. Unborn' = u + L + 1 .. MaxTracks /\ u + L \in 0 .. MaxTracks
      <4>1. \A t \in Tracks : kind'[t] = "unborn" <=> t \in u + 1 .. MaxTracks /\ t \notin u + 1 .. u + L
        <5> SUFFICES ASSUME NEW t \in Tracks
                     PROVE  kind'[t] = "unborn" <=> t \in u + 1 .. MaxTracks /\ t \notin u + 1 .. u + L
          OBVIOUS
        <5>1. kind[t] = "unborn" <=> t \in u + 1 .. MaxTracks
          BY <1>5 DEF Unborn
        <5>2. "unborn" \notin Kinds
          BY DEF Kinds
        <5>3. CASE t \in u + 1 .. u + L
          BY <2>12, <2>13, <5>2, <5>3
        <5>4. CASE t = t0
          <6>1. t \notin u + 1 .. u + L /\ kind[t] # "unborn"
            BY <2>8, <2>9, <5>2, <5>4
          <6>2. kind'[t] # "unborn"
            BY <2>12, <6>1
          <6> QED BY <5>1, <6>1, <6>2
        <5>5. CASE t \notin u + 1 .. u + L /\ t # t0
          BY <2>12, <5>1, <5>5
        <5> QED BY <5>3, <5>4, <5>5
      <4>2. \A t \in Int : (t \in u + 1 .. MaxTracks /\ t \notin u + 1 .. u + L)
                              <=> t \in u + L + 1 .. MaxTracks
        BY <1>4, <1>7, TracksAreNumbers
      <4>3. u + L + 1 .. MaxTracks \subseteq Tracks /\ u + L \in 0 .. MaxTracks
        BY <1>4, <1>7, TracksAreNumbers
      <4>4. \A t \in Tracks : t \in Int
        BY TracksAreNumbers
      <4>5. \A t \in Tracks : kind'[t] = "unborn" <=> t \in u + L + 1 .. MaxTracks
        BY <4>1, <4>2, <4>4
      <4> QED BY <4>3, <4>5 DEF Unborn
    <3>5. aTrack' \in Tracks \cup {0} /\ region' \in [Tracks -> Regions]
      BY <2>3 DEF Typed
    <3>6. \E v \in 0 .. MaxTracks : Unborn' = v + 1 .. MaxTracks
      BY <3>4
    <3>7. killed' = killed
      BY <1>8
    <3> QED BY <2>14, <2>21, <3>1, <3>2, <3>3, <3>5, <3>6, <3>7 DEF Typed
  <2>28. Quiet'
    BY <2>1 DEF Quiet, Between
  <2>29. Control'
    BY <1>1, <1>8, <2>1 DEF Control
  <2>30. Configured'
    BY <1>8 DEF Configured, configuration, WorkerInv
  <2> QED BY <2>25, <2>26, <2>27, <2>28, <2>29, <2>30 DEF WorkerInv, Placed, Homes
<1> QED BY <1>9, <1>10
(* The next tracks become the active ones, the ring compacted or not.      *)
LEMMA PlacedByFinishIteration ==
  ASSUME WorkerInv, FinishIteration,
         UNCHANGED <<region, configuration, aTrack, secondaries, tpc>>
  PROVE  WorkerInv'
<1>1. /\ spc = "transport" /\ tpc \in {"event", "flushing"} /\ aTrack = 0 /\ secondaries = <<>>
  BY DEF WorkerInv, Control, FinishIteration
<1>2. /\ \A k \in Kinds : todo[k] = <<>>
      /\ mgr' = [k \in Kinds |-> SwapAndCompact([l \in Kinds |-> refresh_stats(mgr[l])][k])]
      /\ \/ todo' = [k \in Kinds |-> mgr'[k].fActiveTracks] /\ spc' = "transport"
         \/ spc' = "finish" /\ todo' = todo
      /\ UNCHANGED <<fGPUregion, kind, leakedTracks, toDevice, stack, killed>>
  BY DEF FinishIteration, bufferVars
<1>3. PICK home : HostHomes(home) /\ DeviceHomes(home)
  BY <1>1 DEF WorkerInv, Placed, Homes
<1>4. Typed
  BY <1>1 DEF WorkerInv, Placed
<1> DEFINE on(k) == SwapAndCompact(refresh_stats(mgr[k]))
<1>5. mgr' = [k \in Kinds |-> on(k)] /\ \A k \in Kinds : mgr'[k] = on(k)
  BY <1>2
<1>6. \A k \in Kinds : Carries(mgr[k], <<>>, OfKind(home, "active", k), OfKind(home, "next", k))
  <2> SUFFICES ASSUME NEW k \in Kinds
               PROVE  Carries(mgr[k], <<>>, OfKind(home, "active", k), OfKind(home, "next", k))
    OBVIOUS
  <2>1. Active(k) = <<>>
    BY <1>1, <1>2 DEF Active
  <2> QED BY <1>3, <2>1 DEF DeviceHomes
<1>7. \A k \in Kinds :
        /\ Carries(mgr'[k], mgr'[k].fActiveTracks, OfKind(home, "next", k), {})
        /\ mgr'[k].fInFlight = 0 => OfKind(home, "next", k) = {} /\ mgr'[k].fNextFree = mgr'[k].fStart
  <2> SUFFICES ASSUME NEW k \in Kinds
               PROVE  /\ Carries(on(k), on(k).fActiveTracks, OfKind(home, "next", k), {})
                      /\ on(k).fInFlight = 0 =>
                           OfKind(home, "next", k) = {} /\ on(k).fNextFree = on(k).fStart
    BY <1>5
  <2> QED BY <1>6, CarriesOn
<1> HIDE DEF on
<1>8. \A k \in Kinds :
        /\ mgr'[k] \in Managers(Room) /\ mgr'[k].fActiveTracks \in Seq(Slots)
        /\ mgr'[k].fNextTracks = <<>>
        /\ OfKind(home, "next", k) = {} => mgr'[k].fActiveTracks = <<>>
  BY <1>7, CarriesFacts
<1>9. \A t \in Tracks : home[t] # "active"
  <2> SUFFICES ASSUME NEW t \in Tracks, home[t] = "active" PROVE FALSE
    OBVIOUS
  <2>1. kind[t] \in Kinds
    BY <1>3 DEF HostHomes
  <2>2. OfKind(home, "active", kind[t]) = {}
    BY <1>6, <2>1, CarriesFacts
  <2> QED BY <2>2 DEF OfKind
<1> DEFINE home2 == [t \in Tracks |-> IF home[t] = "next" THEN "active" ELSE home[t]]
<1>10. \A t \in Tracks : home2[t] = IF home[t] = "next" THEN "active" ELSE home[t]
  OBVIOUS
<1>11. home2 \in [Tracks -> {"nowhere", "stack", "secondaries", "worker", "toDevice",
                             "active", "next", "leaked"}]
  BY <1>3 DEF HostHomes
<1> HIDE DEF home2
<1>12. HostHomes(home2)'
  <2>1. /\ At(home2, "stack")' = At(home, "stack")
        /\ At(home2, "secondaries")' = At(home, "secondaries")
        /\ At(home2, "toDevice")' = At(home, "toDevice")
    BY <1>10 DEF At
  <2>2. Buffered' = Buffered
    BY <1>1, <1>2 DEF Buffered
  <2>3. \A t \in Tracks : /\ home2[t] = "nowhere" <=> kind'[t] \notin Kinds
                          /\ home2[t] = "worker" <=> t = aTrack'
    BY <1>2, <1>3, <1>10 DEF HostHomes
  <2> QED BY <1>2, <1>3, <1>11, <2>1, <2>2, <2>3 DEF HostHomes
<1>13. DeviceHomes(home2)'
  <2> SUFFICES ASSUME NEW k \in Kinds
               PROVE  /\ Carries(mgr'[k], Active(k)', OfKind(home2, "active", k)',
                                 OfKind(home2, "next", k)')
                      /\ Holds(leakedTracks'[k], OfKind(home2, "leaked", k)')
    BY DEF DeviceHomes
  <2>1. /\ OfKind(home2, "active", k)' = OfKind(home, "next", k)
        /\ OfKind(home2, "next", k)' = {}
        /\ OfKind(home2, "leaked", k)' = OfKind(home, "leaked", k)
    BY <1>2, <1>9, <1>10 DEF OfKind
  <2>2. Active(k)' = mgr'[k].fActiveTracks
    BY <1>2 DEF Active
  <2>3. Holds(leakedTracks[k], OfKind(home, "leaked", k))
    BY <1>3 DEF DeviceHomes
  <2> QED BY <1>2, <1>7, <2>1, <2>2, <2>3
<1>14. Typed'
  <2>1. mgr' \in [Kinds -> Managers(Room)]
    BY <1>5, <1>8
  <2>2. todo' \in [Kinds -> Seq(Slots)]
    BY <1>2, <1>4, <1>8 DEF Typed
  <2> QED BY <1>2, <1>4, <2>1, <2>2 DEF Typed, Unborn
<1>15. Quiet'
  BY <1>2, <1>7, <1>8 DEF Quiet, Between
<1>16. Control'
  BY <1>1, <1>2 DEF Control
<1>17. Configured'
  BY <1>2 DEF Configured, configuration, WorkerInv
<1>18. spc' # "failed"
  BY <1>2
<1> QED BY <1>12, <1>13, <1>14, <1>15, <1>16, <1>17, <1>18 DEF WorkerInv, Placed, Homes

(* The leaks go to Geant4's stack, what still flies ends.                  *)
LEMMA PlacedByEndShower ==
  ASSUME WorkerInv, EndShower, ReturnTracks,
         UNCHANGED <<configuration, aTrack, secondaries, tpc>>
  PROVE  WorkerInv'
<1>1. /\ spc = "finish" /\ tpc \in {"event", "flushing"} /\ aTrack = 0 /\ secondaries = <<>>
  BY DEF WorkerInv, Control, EndShower
<1> DEFINE Flying == UNION {StillFlying(k) : k \in Kinds}
<1>2. /\ \E order \in SetToSeqs(Leaked) : stack' = stack \o order
      /\ killed' = killed \cup Flying
      /\ kind' = [t \in Tracks |-> IF t \in killed' THEN "ended" ELSE kind[t]]
      /\ mgr' = [k \in Kinds |-> IF mgr[k].fInFlight = 0 THEN mgr[k] ELSE NewManager]
      /\ leakedTracks' = [k \in Kinds |-> <<>>]
      /\ toDevice' = <<>> /\ spc' = "answered" /\ UNCHANGED <<fGPUregion, todo>>
  BY DEF EndShower, ClearManagers, ClearLeakedQueues, clear
<1>3. PICK home : HostHomes(home) /\ DeviceHomes(home)
  BY <1>1 DEF WorkerInv, Placed, Homes
<1>4. Typed /\ Quiet
  BY <1>1 DEF WorkerInv, Placed
<1>5. home \in [Tracks -> {"nowhere", "stack", "secondaries", "worker", "toDevice",
                           "active", "next", "leaked"}]
      /\ \A t \in Tracks : home[t] = "nowhere" <=> kind[t] \notin Kinds
  BY <1>3 DEF HostHomes
<1>6. \A k \in Kinds : /\ todo[k] = <<>> /\ mgr[k].fNextTracks = <<>>
                       /\ mgr[k].fInFlight = 0 =>
                            mgr[k].fActiveTracks = <<>> /\ mgr[k].fNextFree = mgr[k].fStart
  BY <1>1, <1>4 DEF Quiet
<1>7. \A k \in Kinds :
        /\ Carries(mgr[k], mgr[k].fActiveTracks, OfKind(home, "active", k), OfKind(home, "next", k))
        /\ Holds(leakedTracks[k], OfKind(home, "leaked", k))
  BY <1>1, <1>3 DEF DeviceHomes, Active
<1>8. \A k \in Kinds : OfKind(home, "next", k) = {}
  BY <1>6, <1>7, CarriesFacts
<1>9. \A t \in Tracks : home[t] # "next"
  BY <1>5, <1>8 DEF OfKind
<1>10. Leaked = At(home, "leaked")
  <2>1. \A k \in Kinds : Range(leakedTracks[k]) = OfKind(home, "leaked", k)
    BY <1>7, HoldsFacts
  <2>2. \A t \in At(home, "leaked") : kind[t] \in Kinds
    BY <1>5 DEF At
  <2> QED BY <2>1, <2>2 DEF Leaked, At, OfKind
<1>11. Flying = At(home, "active")
  <2>1. \A k \in Kinds : StillFlying(k) = OfKind(home, "active", k)
    <3> SUFFICES ASSUME NEW k \in Kinds PROVE StillFlying(k) = OfKind(home, "active", k)
      OBVIOUS
    <3> DEFINE m == mgr[k]
               a == m.fActiveTracks
               c == Contents(m, a)
    <3>1. Holds(c, OfKind(home, "active", k)) /\ a \in Seq(Slots)
      BY <1>7 DEF Carries
    <3>2. Len(c) = Len(a) /\ DOMAIN a = 1 .. Len(a) /\ \A i \in 1 .. Len(a) : c[i] = m.fBuffer[a[i]]
      BY <3>1, ContentsFacts
    <3>3. StillFlying(k) = {m.fBuffer[a[i]] : i \in DOMAIN a}
      BY DEF StillFlying
    <3> HIDE DEF c, a, m
    <3>4. Range(c) = OfKind(home, "active", k) /\ DOMAIN c = 1 .. Len(c)
      BY <3>1, HoldsFacts
    <3> QED BY <3>2, <3>3, <3>4 DEF Range
  <2>2. \A t \in At(home, "active") : kind[t] \in Kinds
    BY <1>5 DEF At
  <2> QED BY <2>1, <2>2 DEF At, OfKind
<1> DEFINE home2 == [t \in Tracks |-> IF home[t] = "leaked" THEN "stack"
                                      ELSE IF home[t] = "active" THEN "nowhere" ELSE home[t]]
<1>12. \A t \in Tracks : home2[t] = IF home[t] = "leaked" THEN "stack"
                                    ELSE IF home[t] = "active" THEN "nowhere" ELSE home[t]
  OBVIOUS
<1>13. home2 \in [Tracks -> {"nowhere", "stack", "secondaries", "worker", "toDevice",
                             "active", "next", "leaked"}]
  BY <1>5
<1> HIDE DEF home2, Flying
<1>14. \A t \in killed : t \in Tracks /\ kind[t] = "ended" /\ home[t] = "nowhere"
  BY <1>4, <1>5 DEF Typed, Kinds
<1>15. \A t \in Tracks : kind'[t] = IF t \in killed' THEN "ended" ELSE kind[t]
  BY <1>2
<1>16. \A t \in Tracks : t \in killed' <=> t \in killed \/ home[t] = "active"
  BY <1>2, <1>11 DEF At
<1>17. HostHomes(home2)'
  <2>1. /\ At(home2, "stack")' = At(home, "stack") \cup At(home, "leaked")
        /\ At(home2, "secondaries")' = At(home, "secondaries")
        /\ At(home2, "toDevice")' = At(home, "toDevice")
        /\ At(home, "stack") \cap At(home, "leaked") = {}
    BY <1>12 DEF At
  <2>2. Buffered = <<>> /\ Buffered' = <<>>
    BY <1>1, <1>2 DEF Buffered
  <2>3. At(home, "toDevice") = {}
    BY <1>3, <2>2, HoldsNothing DEF HostHomes
  <2>4. Holds(Buffered', At(home2, "toDevice")')
    BY <2>1, <2>2, <2>3, HoldsNothing
  <2>5. Holds(stack', At(home2, "stack")')
    <3>1. PICK order \in SetToSeqs(Leaked) : stack' = stack \o order
      BY <1>2
    <3>2. IsFiniteSet(Leaked)
      <4>1. IsFiniteSet(Tracks)
        BY TracksAreNumbers, FS_Interval
      <4> QED BY <1>10, <4>1, FS_Subset DEF At
    <3>3. Holds(order, Leaked)
      BY <3>1, <3>2, HoldsOrder
    <3>4. Holds(stack, At(home, "stack"))
      BY <1>3 DEF HostHomes
    <3> QED BY <1>10, <2>1, <3>1, <3>3, <3>4, HoldsConcat
  <2>6. Holds(secondaries', At(home2, "secondaries")')
    BY <1>3, <2>1 DEF HostHomes
  <2>7. \A t \in Tracks : home2[t] = "nowhere" <=> kind'[t] \notin Kinds
    <3>1. "ended" \notin Kinds
      BY DEF Kinds
    <3> QED BY <1>5, <1>12, <1>14, <1>15, <1>16, <3>1
  <2>8. \A t \in Tracks : home2[t] = "worker" <=> t = aTrack'
    BY <1>3, <1>12 DEF HostHomes
  <2>9. \A t \in At(home2, "toDevice")' : region'[t] \in fGPUregion'
    BY <2>1, <2>3
  <2> QED BY <1>13, <2>4, <2>5, <2>6, <2>7, <2>8, <2>9 DEF HostHomes
<1>18. \A k \in Kinds : /\ mgr'[k] \in Managers(Room) /\ EmptyManager(mgr'[k])
                        /\ Carries(mgr'[k], <<>>, {}, {})
  <2> SUFFICES ASSUME NEW k \in Kinds
               PROVE  /\ mgr'[k] \in Managers(Room) /\ EmptyManager(mgr'[k])
                      /\ Carries(mgr'[k], <<>>, {}, {})
    OBVIOUS
  <2>1. CASE mgr[k].fInFlight = 0
    <3>1. mgr'[k] = mgr[k]
      BY <1>2, <2>1
    <3>2. EmptyManager(mgr[k]) /\ mgr[k].fActiveTracks = <<>>
      BY <1>6, <2>1 DEF EmptyManager
    <3>3. Carries(mgr[k], <<>>, OfKind(home, "active", k), {})
      BY <1>7, <1>8, <3>2
    <3>4. OfKind(home, "active", k) = {} /\ mgr[k] \in Managers(Room)
      BY <3>3, CarriesFacts
    <3> QED BY <3>1, <3>2, <3>3, <3>4
  <2>2. CASE mgr[k].fInFlight # 0
    <3>1. mgr'[k] = NewManager
      BY <1>2, <2>2
    <3> QED BY <3>1, NewManagerIsEmpty
  <2> QED BY <2>1, <2>2
<1>19. DeviceHomes(home2)'
  <2> SUFFICES ASSUME NEW k \in Kinds
               PROVE  /\ Carries(mgr'[k], Active(k)', OfKind(home2, "active", k)',
                                 OfKind(home2, "next", k)')
                      /\ Holds(leakedTracks'[k], OfKind(home2, "leaked", k)')
    BY DEF DeviceHomes
  <2>1. /\ OfKind(home2, "active", k)' = {} /\ OfKind(home2, "next", k)' = {}
        /\ OfKind(home2, "leaked", k)' = {}
    BY <1>9, <1>12 DEF OfKind
  <2>2. Active(k)' = <<>>
    BY <1>2, <1>6 DEF Active
  <2>3. leakedTracks'[k] = <<>>
    BY <1>2
  <2> QED BY <1>18, <2>1, <2>2, <2>3, HoldsNothing
<1>20. Typed'
  <2>1. kind' \in [Tracks -> Kinds \cup {"unborn", "ended"}]
    BY <1>2, <1>4 DEF Typed
  <2>2. region' \in [Tracks -> Regions]
    <3>1. PICK places \in [Leaked -> Regions \ fGPUregion] :
            region' = [t \in Tracks |-> IF t \in Leaked THEN places[t] ELSE region[t]]
      BY DEF ReturnTracks
    <3> QED BY <1>4, <3>1 DEF Typed
  <2>3. Unborn' = Unborn
    <3>1. \A t \in Tracks : kind'[t] = "unborn" <=> kind[t] = "unborn"
      <4>1. "unborn" \notin Kinds
        BY DEF Kinds
      <4> QED BY <1>5, <1>14, <1>15, <1>16, <4>1
    <3> QED BY <3>1 DEF Unborn
  <2>4. \A t \in killed' : t \in Tracks /\ kind'[t] = "ended"
    BY <1>2, <1>11, <1>14, <1>15 DEF At
  <2>5. mgr' \in [Kinds -> Managers(Room)]
    <3>1. mgr' = [k \in Kinds |-> mgr'[k]]
      BY <1>2
    <3> QED BY <1>18, <3>1
  <2>6. leakedTracks' \in [Kinds -> Seq(Tracks)]
    BY <1>2
  <2> QED BY <1>2, <1>4, <2>1, <2>2, <2>3, <2>4, <2>5, <2>6 DEF Typed
<1>21. Quiet'
  BY <1>2, <1>6, <1>18 DEF Quiet, Between
<1>22. Control'
  BY <1>1, <1>2 DEF Control
<1>23. Configured'
  BY <1>2 DEF Configured, configuration, WorkerInv
<1> QED BY <1>2, <1>17, <1>19, <1>20, <1>21, <1>22, <1>23 DEF WorkerInv, Placed, Homes

LEMMA WorkerInvNext == WorkerInv /\ [Next]_vars => WorkerInv'
<1> SUFFICES ASSUME WorkerInv, [Next]_vars PROVE WorkerInv'
  OBVIOUS
<1>1. CASE UNCHANGED vars
  <2>1. /\ UNCHANGED <<fGPUregion, kind, mgr, todo, leakedTracks, toDevice, spc, stack, killed,
                       configuration, fGPURegions, fCPURegionNames, trackInAllRegions, tpc,
                       aTrack, region, secondaries>>
    BY <1>1 DEF vars, syncVars, deviceVars, bufferVars, cpuVars, configuration
  <2>2. Control' /\ Configured'
    BY <2>1 DEF Control, Configured, WorkerInv
  <2>3. ASSUME spc' # "failed" PROVE Placed'
    <3>1. Placed
      BY <2>1, <2>3 DEF WorkerInv
    <3>2. Typed' /\ Quiet'
      BY <2>1, <3>1 DEF Placed, Typed, Unborn, Quiet, EmptyManager
    <3>3. PICK home : HostHomes(home) /\ DeviceHomes(home)
      BY <3>1 DEF Placed, Homes
    <3>4. HostHomes(home)'
      BY <2>1, <3>3 DEF HostHomes, At, Buffered
    <3>5. DeviceHomes(home)'
      BY <2>1, <3>3 DEF DeviceHomes, OfKind, Active
    <3> QED BY <3>2, <3>4, <3>5 DEF Placed, Homes
  <2> QED BY <2>2, <2>3 DEF WorkerInv
<1>2. CASE spc = "failed" /\ ~ UNCHANGED vars
  <2>1. tpc \in {"over", "event", "flushing"} /\ tpc # "over"
    BY <1>2 DEF WorkerInv, Control
  <2>2. ~(NewEvent \/ HandOverOneTrack \/ DeleteTrack \/ FlushEvent \/ EventFlushed \/ Over)
    BY <1>2 DEF NewEvent, HandOverOneTrack, DeleteTrack, FlushEvent, EventFlushed, Over
  <2>3. ~(ProcessTrackOnGPU \/ ProcessTrackOnCPU \/ EarlyExit \/ FinishTrack)
    BY <2>1 DEF ProcessTrackOnGPU, ProcessTrackOnCPU, EarlyExit, FinishTrack
  <2>4. \A r, name, rest : ~HepEmStep(r, name, rest)
    BY <2>1 DEF HepEmStep
  <2>5. ~OnDevice
    <3>1. ~(Shower(event) \/ EmptyShower \/ FinishIteration \/ FullRingStops \/ EndShower
              \/ ShowerReturns)
      BY <1>2 DEF Shower, EmptyShower, FinishIteration, FullRingStops, EndShower, ShowerReturns
    <3>2. \A k, i, effect : ~Step(k, i, effect)
      BY <1>2 DEF Step
    <3> QED BY <3>1, <3>2 DEF OnDevice, Transport
  <2> QED BY <1>2, <2>2, <2>3, <2>4, <2>5 DEF Next
<1>3. CASE spc # "failed" /\ ~ UNCHANGED vars
  <2>1. CASE NewEvent
    BY <1>3, <2>1, PlacedByNewEvent
  <2>2. CASE HandOverOneTrack
    BY <1>3, <2>2, PlacedByHandOver
  <2>3. CASE ProcessTrackOnGPU
    BY <1>3, <2>3, PlacedByProcessTrackOnGPU
  <2>4. CASE ProcessTrackOnCPU \/ FlushEvent \/ EventFlushed
    BY <1>3, <2>4, PlacedByStayingSteps
  <2>5. ASSUME NEW r \in Regions, NEW name \in Kinds \cup {"none"}, NEW rest \in BOOLEAN,
               HepEmStep(r, name, rest)
        PROVE  WorkerInv'
    BY <1>3, <2>5, PlacedByHepEmStep
  <2>6. CASE EarlyExit \/ FinishTrack
    BY <1>3, <2>6, PlacedByStackTracks
  <2>7. CASE OnDevice
    <3>1. /\ UNCHANGED <<configuration, aTrack, secondaries, tpc>>
          /\ IF spc = "finish" THEN ReturnTracks ELSE UNCHANGED <<region, status>>
      BY <2>7 DEF OnDevice
    <3>2. CASE Shower(event)
      <4>1. spc = "shower"
        BY <3>2 DEF Shower
      <4> QED BY <3>1, <3>2, <4>1, PlacedByShower
    <3>3. CASE EmptyShower \/ ShowerReturns
      <4>1. spc # "finish"
        BY <3>3 DEF EmptyShower, ShowerReturns
      <4> QED BY <1>3, <3>1, <3>3, <4>1, PlacedByStayingSteps
    <3>4. ASSUME NEW k \in Kinds, NEW i \in DOMAIN todo[k], NEW effect \in StepEffects[k],
                 Step(k, i, effect)
          PROVE  WorkerInv'
      <4>1. spc = "transport"
        BY <3>4 DEF Step
      <4> QED BY <3>1, <3>4, <4>1, PlacedByStep
    <3>5. CASE FinishIteration
      <4>1. spc = "transport"
        BY <3>5 DEF FinishIteration
      <4> QED BY <3>1, <3>5, <4>1, PlacedByFinishIteration
    <3>6. CASE EndShower
      <4>1. spc = "finish"
        BY <3>6 DEF EndShower
      <4> QED BY <3>1, <3>6, <4>1, PlacedByEndShower
    <3>7. CASE FullRingStops
      <4>1. spc = "transport" /\ spc' = "failed" /\ UNCHANGED fGPUregion
        BY <3>7 DEF FullRingStops
      <4> QED BY <3>1, <4>1, Stopped
    <3> QED BY <2>7, <3>2, <3>3, <3>4, <3>5, <3>6, <3>7 DEF OnDevice, Transport
  <2>8. CASE Over
    BY <1>3, <2>8 DEF Over
  <2>9. CASE DeleteTrack
    BY <1>3, <2>9, PlacedByDeleteTrack
  <2> QED BY <1>3, <2>1, <2>2, <2>3, <2>4, <2>5, <2>6, <2>7, <2>8, <2>9 DEF Next
<1> QED BY <1>1, <1>2, <1>3

THEOREM WorkerInvHolds == Spec => []WorkerInv
BY WorkerInvInit, WorkerInvNext, PTL DEF Spec

-----------------------------------------------------------------------------
LEMMA ContentsConcat ==
  ASSUME NEW m, NEW a \in Seq(Slots), NEW b \in Seq(Slots)
  PROVE  Contents(m, a \o b) = Contents(m, a) \o Contents(m, b)
<1> DEFINE T == {m.fBuffer[x] : x \in Slots}
           s == a \o b
           c == Contents(m, a)
           d == Contents(m, b)
           f == c \o d
           na == Len(a)
           nb == Len(b)
<1>1. \A x \in Slots : m.fBuffer[x] \in T
  OBVIOUS
<1> HIDE DEF T
<1>2. \A slots \in Seq(Slots) :
        /\ Contents(m, slots) \in Seq(T) /\ Len(Contents(m, slots)) = Len(slots)
        /\ \A i \in 1 .. Len(slots) : Contents(m, slots)[i] = m.fBuffer[slots[i]]
  <2> SUFFICES ASSUME NEW slots \in Seq(Slots)
               PROVE  /\ Contents(m, slots) \in Seq(T) /\ Len(Contents(m, slots)) = Len(slots)
                      /\ \A i \in 1 .. Len(slots) : Contents(m, slots)[i] = m.fBuffer[slots[i]]
    OBVIOUS
  <2>1. \A i \in 1 .. Len(slots) : slots[i] \in Slots
    OBVIOUS
  <2>2. \A i \in 1 .. Len(slots) : m.fBuffer[slots[i]] \in T
    BY <1>1, <2>1
  <2> QED BY <2>2 DEF Contents
<1>3. /\ s \in Seq(Slots) /\ Len(s) = na + nb /\ na \in Nat /\ nb \in Nat
      /\ \A i \in 1 .. na : s[i] = a[i]
      /\ \A i \in na + 1 .. na + nb : s[i] = b[i - na]
  BY ConcatProperties
<1>4. /\ c \in Seq(T) /\ Len(c) = na /\ d \in Seq(T) /\ Len(d) = nb
      /\ \A i \in 1 .. na : c[i] = m.fBuffer[a[i]]
      /\ \A i \in 1 .. nb : d[i] = m.fBuffer[b[i]]
  BY <1>2
<1>5. /\ Contents(m, s) \in Seq(T) /\ Len(Contents(m, s)) = Len(s)
      /\ \A i \in 1 .. Len(s) : Contents(m, s)[i] = m.fBuffer[s[i]]
  BY <1>2, <1>3
<1> HIDE DEF c, d, na, nb
<1>6. /\ f \in Seq(T) /\ Len(f) = na + nb
      /\ \A i \in 1 .. na : f[i] = c[i]
      /\ \A i \in na + 1 .. na + nb : f[i] = d[i - na]
  <2>1. /\ f \in Seq(T) /\ Len(f) = Len(c) + Len(d)
        /\ \A i \in 1 .. Len(c) + Len(d) : f[i] = IF i <= Len(c) THEN c[i] ELSE d[i - Len(c)]
    BY <1>4, ConcatProperties
  <2> HIDE DEF f
  <2> QED BY <1>3, <1>4, <2>1
<1> HIDE DEF f, s
<1>7. \A i \in 1 .. na + nb : f[i] = m.fBuffer[s[i]]
  <2> SUFFICES ASSUME NEW i \in 1 .. na + nb PROVE f[i] = m.fBuffer[s[i]]
    OBVIOUS
  <2>1. CASE i \in 1 .. na
    BY <1>3, <1>4, <1>6, <2>1
  <2>2. CASE i \notin 1 .. na
    <3>1. i \in na + 1 .. na + nb /\ i - na \in 1 .. nb
      BY <1>3, <2>2
    <3>2. s[i] = b[i - na] /\ f[i] = d[i - na] /\ d[i - na] = m.fBuffer[b[i - na]]
      BY <1>3, <1>4, <1>6, <3>1
    <3> QED BY <3>2
  <2> QED BY <2>1, <2>2
<1> DEFINE e == Contents(m, s)
<1>8. Len(e) = Len(f) /\ \A i \in 1 .. Len(e) : e[i] = f[i]
  BY <1>3, <1>5, <1>6, <1>7
<1>9. e \in Seq(T) /\ f \in Seq(T)
  BY <1>5, <1>6
<1> HIDE DEF e
<1>10. e = f
  BY <1>8, <1>9
<1> QED BY <1>10 DEF e, f, c, d, s

(* The tracks of a kind on the device, and where all of them are.          *)
OnDeviceHomes(home, k) ==
  OfKind(home, "active", k) \cup OfKind(home, "next", k) \cup OfKind(home, "leaked", k)

LEMMA DeviceHolds ==
  ASSUME Typed, Quiet, Control, spc # "failed", NEW home, HostHomes(home), DeviceHomes(home),
         NEW k \in Kinds
  PROVE  Holds(OnDeviceOfKind(k), OnDeviceHomes(home, k))
<1> DEFINE m == mgr[k]
           s == SlotsInUse(k)
           A == OfKind(home, "active", k)
           B == OfKind(home, "next", k)
           C == OfKind(home, "leaked", k)
<1>1. Carries(m, Active(k), A, B) /\ Holds(leakedTracks[k], C)
  BY DEF DeviceHomes
<1>2. m.fNextTracks \in Seq(Slots) /\ Active(k) \in Seq(Slots)
  BY <1>1, CarriesFacts
<1>3. Holds(Contents(m, Active(k)), A) /\ Holds(Contents(m, m.fNextTracks), B)
  BY <1>1 DEF Carries
<1>4. A \cap B = {} /\ (A \cup B) \cap C = {}
  BY DEF OfKind
<1> HIDE DEF A, B, C
<1>5. s \in Seq(Slots) /\ Holds(Contents(m, s), A \cup B)
  <2>1. CASE spc = "transport"
    <3>1. s = Active(k) \o m.fNextTracks
      BY <2>1 DEF SlotsInUse, Active
    <3>2. s \in Seq(Slots)
      BY <1>2, <3>1, ConcatProperties
    <3>3. Contents(m, s) = Contents(m, Active(k)) \o Contents(m, m.fNextTracks)
      BY <1>2, <3>1, ContentsConcat
    <3> HIDE DEF s, m
    <3> QED BY <1>3, <1>4, <3>2, <3>3, HoldsConcat
  <2>2. CASE spc = "finish"
    <3>1. s = Active(k) /\ m.fNextTracks = <<>>
      BY <2>2 DEF SlotsInUse, Active, Quiet
    <3>2. B = {}
      BY <1>1, <3>1, CarriesFacts
    <3> QED BY <1>2, <1>3, <3>1, <3>2
  <2>3. CASE spc \notin {"transport", "finish"}
    <3>1. s = <<>> /\ spc \in Between
      BY <2>3 DEF SlotsInUse, Control, Between
    <3>2. A = {} /\ B = {}
      BY <3>1, NoneOnDevice DEF OfKind, A, B
    <3>3. Contents(m, <<>>) = <<>>
      BY DEF Contents
    <3>4. <<>> \in Seq(Slots) /\ {} \cup {} = {}
      OBVIOUS
    <3> QED BY <3>1, <3>2, <3>3, <3>4, HoldsNothing
  <2> QED BY <2>1, <2>2, <2>3
<1>6. OnDeviceOfKind(k) = Contents(m, s) \o leakedTracks[k]
  <2>1. DOMAIN s = 1 .. Len(s)
    BY <1>5
  <2> HIDE DEF s
  <2>2. OnDeviceOfKind(k) = [i \in DOMAIN s |-> m.fBuffer[s[i]]] \o leakedTracks[k]
    BY DEF OnDeviceOfKind, s
  <2> QED BY <2>1, <2>2 DEF Contents
<1> HIDE DEF s, m
<1>7. Holds(OnDeviceOfKind(k), (A \cup B) \cup C)
  BY <1>1, <1>4, <1>5, <1>6, HoldsConcat
<1> QED BY <1>7 DEF OnDeviceHomes, A, B, C

LEMMA WorkerPlaces == WorkerInv => EveryTrackIsInOnePlace
<1> SUFFICES ASSUME WorkerInv, spc # "failed"
             PROVE  IsInjective(Everywhere) /\ Range(Everywhere) = {t \in Tracks : kind[t] \in Kinds}
  BY DEF EveryTrackIsInOnePlace
<1>1. Typed /\ Quiet /\ Control
  BY DEF WorkerInv, Placed
<1>2. PICK home : HostHomes(home) /\ DeviceHomes(home)
  BY DEF WorkerInv, Placed, Homes
<1> DEFINE worker == IF aTrack = 0 THEN <<>> ELSE <<aTrack>>
           e == "electron"  p == "positron"  g == "gamma"
           all == {t \in Tracks : kind[t] \in Kinds}
<1>3. /\ Holds(stack, At(home, "stack")) /\ Holds(secondaries, At(home, "secondaries"))
      /\ Holds(Buffered, At(home, "toDevice"))
  BY <1>2 DEF HostHomes
<1>4. Holds(worker, At(home, "worker"))
  <2>1. \A t \in Tracks : home[t] = "worker" <=> t = aTrack
    BY <1>2 DEF HostHomes
  <2>2. CASE aTrack = 0
    <3>1. At(home, "worker") = {}
      BY <2>1, <2>2, TracksAreNumbers DEF At
    <3> QED BY <2>2, <3>1, HoldsNothing
  <2>3. CASE aTrack # 0
    <3>1. aTrack \in Tracks
      BY <1>1, <2>3 DEF Typed
    <3>2. At(home, "worker") = {aTrack}
      BY <2>1, <3>1 DEF At
    <3>3. worker = Append(<<>>, aTrack) /\ {aTrack} = {} \cup {aTrack} /\ aTrack \notin {}
      BY <2>3
    <3> HIDE DEF worker
    <3>4. Holds(<<>>, {})
      BY HoldsNothing
    <3>5. Holds(Append(<<>>, aTrack), {} \cup {aTrack})
      BY <3>3, <3>4, HoldsAppend
    <3> QED BY <3>2, <3>3, <3>5
  <2> QED BY <2>2, <2>3
<1>5. e \in Kinds /\ p \in Kinds /\ g \in Kinds /\ Kinds = {e, p, g}
  BY DEF Kinds
<1>6. /\ Holds(OnDeviceOfKind(e), OnDeviceHomes(home, e))
      /\ Holds(OnDeviceOfKind(p), OnDeviceHomes(home, p))
      /\ Holds(OnDeviceOfKind(g), OnDeviceHomes(home, g))
  BY <1>1, <1>2, <1>5, DeviceHolds
<1>7. Everywhere = stack \o secondaries \o worker \o Buffered
                     \o OnDeviceOfKind(e) \o OnDeviceOfKind(p) \o OnDeviceOfKind(g)
  BY DEF Everywhere, Buffered
<1> DEFINE S1 == At(home, "stack")  S2 == At(home, "secondaries")  S3 == At(home, "worker")
           S4 == At(home, "toDevice")
           S5 == OnDeviceHomes(home, e)  S6 == OnDeviceHomes(home, p)  S7 == OnDeviceHomes(home, g)
<1>8. /\ S1 \cap S2 = {} /\ (S1 \cup S2) \cap S3 = {} /\ (S1 \cup S2 \cup S3) \cap S4 = {}
      /\ (S1 \cup S2 \cup S3 \cup S4) \cap S5 = {}
      /\ (S1 \cup S2 \cup S3 \cup S4 \cup S5) \cap S6 = {}
      /\ (S1 \cup S2 \cup S3 \cup S4 \cup S5 \cup S6) \cap S7 = {}
  BY DEF At, OnDeviceHomes, OfKind
<1>9. S1 \cup S2 \cup S3 \cup S4 \cup S5 \cup S6 \cup S7 = all
  <2>1. \A t \in Tracks :
          /\ home[t] \in {"nowhere", "stack", "secondaries", "worker", "toDevice",
                          "active", "next", "leaked"}
          /\ home[t] = "nowhere" <=> kind[t] \notin Kinds
    BY <1>2 DEF HostHomes
  <2> QED BY <1>5, <2>1 DEF At, OnDeviceHomes, OfKind
<1> DEFINE D5 == OnDeviceOfKind(e)  D6 == OnDeviceOfKind(p)  D7 == OnDeviceOfKind(g)
<1> HIDE DEF S1, S2, S3, S4, S5, S6, S7, D5, D6, D7, worker, all
<1>10. Holds(stack \o secondaries, S1 \cup S2)
  BY <1>3, <1>8, HoldsConcat DEF S1, S2
<1>11. Holds(stack \o secondaries \o worker, S1 \cup S2 \cup S3)
  BY <1>4, <1>8, <1>10, HoldsConcat DEF S3
<1>12. Holds(stack \o secondaries \o worker \o Buffered, S1 \cup S2 \cup S3 \cup S4)
  BY <1>3, <1>8, <1>11, HoldsConcat DEF S4
<1>13. Holds(stack \o secondaries \o worker \o Buffered \o D5, S1 \cup S2 \cup S3 \cup S4 \cup S5)
  BY <1>6, <1>8, <1>12, HoldsConcat DEF S5, D5
<1>14. Holds(stack \o secondaries \o worker \o Buffered \o D5 \o D6,
             S1 \cup S2 \cup S3 \cup S4 \cup S5 \cup S6)
  BY <1>6, <1>8, <1>13, HoldsConcat DEF S6, D6
<1>15. Holds(stack \o secondaries \o worker \o Buffered \o D5 \o D6 \o D7,
             S1 \cup S2 \cup S3 \cup S4 \cup S5 \cup S6 \cup S7)
  BY <1>6, <1>8, <1>14, HoldsConcat DEF S7, D7
<1>16. Holds(Everywhere, all)
  BY <1>7, <1>9, <1>15 DEF D5, D6, D7
<1> QED BY <1>16, HoldsFacts DEF all

(* A track that lives is in exactly one place: Geant4's stack and its      *)
(* worker, the buffer for the device, the slots of the rings, their leak   *)
(* queues; for every capacity, threshold and number of tracks.             *)
THEOREM EveryTrackIsInOnePlaceHolds == Spec => []EveryTrackIsInOnePlace
BY WorkerInvHolds, WorkerPlaces, PTL

LEMMA WorkerEndsClean == WorkerInv => EventsEndClean
<1> SUFFICES ASSUME WorkerInv, tpc = "over"
             PROVE  /\ \A t \in Tracks : kind[t] \in {"unborn", "ended"}
                    /\ toDevice = <<>> /\ stack = <<>>
                    /\ \A k \in Kinds : /\ leakedTracks[k] = <<>>
                                        /\ mgr[k].fInFlight = 0 /\ mgr[k].fNextFree = mgr[k].fStart
  BY DEF EventsEndClean
<1>1. spc = "idle" /\ stack = <<>> /\ toDevice = <<>> /\ secondaries = <<>> /\ aTrack = 0
  BY DEF WorkerInv, Control
<1>2. Typed /\ Quiet /\ spc \in Between
  BY <1>1 DEF WorkerInv, Placed, Between
<1>3. PICK home : HostHomes(home) /\ DeviceHomes(home)
  BY <1>1 DEF WorkerInv, Placed, Homes
<1>4. \A t \in Tracks : home[t] = "nowhere"
  <2>1. \A t \in Tracks : home[t] \notin {"active", "next", "leaked"}
    BY <1>2, <1>3, NoneOnDevice
  <2>2. At(home, "stack") = {} /\ At(home, "secondaries") = {} /\ At(home, "toDevice") = {}
    BY <1>1, <1>3, HoldsNothing DEF HostHomes, Buffered
  <2>3. \A t \in Tracks : home[t] # "worker"
    BY <1>1, <1>3, TracksAreNumbers DEF HostHomes, Vacant
  <2> QED BY <1>3, <2>1, <2>2, <2>3 DEF HostHomes, At
<1>5. \A t \in Tracks : kind[t] \in {"unborn", "ended"}
  BY <1>2, <1>3, <1>4 DEF HostHomes, Typed
<1> QED BY <1>1, <1>2, <1>5 DEF Quiet, EmptyManager

(* When the worker goes on to the next event, nothing of this one is left  *)
(* on the device.                                                          *)
THEOREM EventsEndCleanHolds == Spec => []EventsEndClean
BY WorkerInvHolds, WorkerEndsClean, PTL

LEMMA WorkerAddsInRegions == WorkerInv => AddedTracksAreInGPURegions
<1> SUFFICES ASSUME WorkerInv, NEW t \in Waiting
             PROVE  /\ region[t] \in fGPUregion
                    /\ region[t] \in fCPURegionNames => trackInAllRegions
  BY DEF AddedTracksAreInGPURegions
<1>0. spc \in {"idle", "shower"} /\ t \in Range(toDevice)
  BY DEF Waiting
<1>1. PICK home : HostHomes(home)
  BY <1>0 DEF WorkerInv, Placed, Homes
<1>2. Holds(toDevice, At(home, "toDevice"))
  BY <1>0, <1>1 DEF HostHomes, Buffered
<1>3. t \in At(home, "toDevice")
  BY <1>0, <1>2 DEF Holds, Range
<1> QED BY <1>1, <1>3 DEF HostHomes, WorkerInv, Configured

(* A track in the buffer for the device is in a region whose volumes the   *)
(* device accepts, and where GPU regions are listed in none that the macro *)
(* removed, whatever the macro is.                                         *)
THEOREM AddedTracksAreInGPURegionsHolds == Spec => []AddedTracksAreInGPURegions
BY WorkerInvHolds, WorkerAddsInRegions, PTL

-----------------------------------------------------------------------------
(* The hits of a shower, from counters that started at 0: the device holds *)
(* those from fBufferStart on, the host has processed the ones before.     *)
UpTo(n) == [i \in 1 .. n |-> i]

HitRings == [0 .. fBufferCapacity - 1 -> Nat]
Statistics == [fBufferStart : Int, fNextFreeHit : Int, fUsedSlots : Int]
Scorings ==
  [fBufferStart : Int, fNextFreeHit : Int, fUsedSlots : Int, ring : HitRings, host : HitRings,
   fStats : Statistics]

Counted(h, n) ==
  /\ h.fBufferStart \in Nat /\ h.fNextFreeHit = n
  /\ h.fBufferStart <= n /\ n - h.fBufferStart <= fBufferCapacity
  /\ h.fUsedSlots = n - h.fBufferStart
  /\ \A j \in h.fBufferStart .. n - 1 : h.ring[j % fBufferCapacity] = j + 1

Reset(h) == h.fBufferStart = 0 /\ h.fNextFreeHit = 0 /\ h.fUsedSlots = 0

(* What the last iteration left on the host: its own statistics.           *)
LastStats(h) ==
  /\ h.fStats.fNextFreeHit = h.fNextFreeHit
  /\ ~flushedLast => /\ h.fStats.fBufferStart = h.fBufferStart
                     /\ h.fStats.fUsedSlots = h.fUsedSlots
  /\ flushedLast => h.fBufferStart = h.fNextFreeHit

HitInv ==
  /\ scoring \in Scorings /\ recorded \in Nat /\ flushedLast \in BOOLEAN
  /\ spc = "answered" => Reset(scoring)
  /\ trusted /\ spc \in {"idle", "shower"} =>
       Reset(scoring) /\ recorded = 0 /\ processed = <<>>
  /\ trusted /\ spc \in {"transport", "finish"} =>
       Counted(scoring, recorded) /\ processed = UpTo(scoring.fBufferStart)
  /\ trusted /\ spc = "finish" => LastStats(scoring)
  /\ HitsAreProcessed

LEMMA HitRing == fBufferCapacity \in Nat /\ fBufferCapacity > 0
BY SyncTransportAssumption

LEMMA HitInvInit == Init => HitInv
<1> SUFFICES ASSUME Init PROVE HitInv
  OBVIOUS
<1>1. /\ recorded = 0 /\ processed = <<>> /\ flushedLast = FALSE /\ spc = "idle"
  BY DEF Init, SyncInit
<1>2. PICK g \in Garbage : /\ scoring = NewScoring(g.fNextFreeHit, g.fUsedSlots)
                           /\ trusted = (g.fNextFreeHit = 0 /\ g.fUsedSlots = 0)
  BY DEF Init, SyncInit
<1>3. g.fNextFreeHit \in Int /\ g.fUsedSlots \in Int
  BY SyncTransportAssumption
<1>4. /\ scoring.fBufferStart = 0 /\ scoring.fNextFreeHit = g.fNextFreeHit
      /\ scoring.fUsedSlots = g.fUsedSlots
  BY <1>2 DEF NewScoring
<1>5. NoHits \in HitRings
  BY DEF NoHits, HitRings
<1>6. scoring \in Scorings
  BY <1>2, <1>3, <1>5 DEF NewScoring, Scorings, Statistics
<1>7. trusted => Reset(scoring)
  BY <1>2, <1>4 DEF Reset
<1> QED BY <1>1, <1>6, <1>7 DEF HitInv, HitsAreProcessed

(* Steps without a hit, between showers or from one to its start.          *)
LEMMA HitsStay ==
  ASSUME HitInv, UNCHANGED hitVars,
         spc' = spc \/ spc' = "failed" \/ (spc \in {"idle", "shower"} /\ spc' \in {"idle", "shower"})
  PROVE  HitInv'
<1>1. UNCHANGED <<scoring, recorded, processed, flushedLast, trusted>>
  BY DEF hitVars
<1> QED BY <1>1 DEF HitInv, LastStats, HitsAreProcessed

LEMMA HitInvShower ==
  ASSUME HitInv, Shower(event)
  PROVE  HitInv'
<1>1. /\ spc = "shower" /\ spc' \in {"failed", "transport"}
      /\ UNCHANGED <<scoring, recorded, processed, flushedLast, trusted>>
  BY DEF Shower, hitVars
<1>2. CASE spc' = "failed"
  BY <1>2, HitsStay DEF Shower
<1>3. CASE spc' = "transport"
  <2>1. ASSUME trusted PROVE Counted(scoring, recorded) /\ processed = UpTo(scoring.fBufferStart)
    <3>1. Reset(scoring) /\ recorded = 0 /\ processed = <<>>
      BY <1>1, <2>1 DEF HitInv
    <3>2. UpTo(0) = <<>>
      BY DEF UpTo
    <3> QED BY <3>1, <3>2, HitRing DEF Reset, Counted
  <2> QED BY <1>1, <1>3, <2>1 DEF HitInv, HitsAreProcessed
<1> QED BY <1>1, <1>2, <1>3

LEMMA RecordHitFields ==
  ASSUME NEW h \in Scorings, NEW hit \in Nat
  PROVE  /\ RecordHit(h, hit) \in Scorings
         /\ RecordHit(h, hit).fBufferStart = h.fBufferStart
         /\ RecordHit(h, hit).fNextFreeHit = h.fNextFreeHit + 1
         /\ RecordHit(h, hit).fUsedSlots = h.fUsedSlots + 1
         /\ RecordHit(h, hit).ring = [h.ring EXCEPT ![h.fNextFreeHit % fBufferCapacity] = hit]
<1> DEFINE after == h.fNextFreeHit + 1
           used == h.fUsedSlots + 1
           place == h.fNextFreeHit % fBufferCapacity
           ring == [h.ring EXCEPT ![place] = hit]
<1>1. RecordHit(h, hit) = [h EXCEPT !.fNextFreeHit = after, !.fUsedSlots = used, !.ring = ring]
  BY DEF RecordHit, Scorings
<1>2. after \in Int /\ used \in Int
  BY DEF Scorings
<1>3. ring \in HitRings
  <2>1. h.ring \in HitRings
    BY DEF Scorings
  <2> DEFINE old == h.ring
  <2> HIDE DEF place
  <2> QED BY <2>1 DEF HitRings
<1> HIDE DEF after, used, ring
<1> DEFINE r == [h EXCEPT !.fNextFreeHit = after, !.fUsedSlots = used, !.ring = ring]
<1>4. /\ r \in Scorings /\ r.fBufferStart = h.fBufferStart /\ r.fNextFreeHit = after
      /\ r.fUsedSlots = used /\ r.ring = ring
  BY <1>2, <1>3 DEF Scorings
<1> HIDE DEF r
<1> QED BY <1>1, <1>4 DEF r, after, used, ring, place

(* A hit goes behind the others, into room of the ring that none is in.    *)
LEMMA OneHitMore ==
  ASSUME NEW h, NEW more, NEW n \in Nat, Counted(h, n), ~NoSlotForHit(h),
         h.ring \in HitRings,
         more.fBufferStart = h.fBufferStart, more.fNextFreeHit = h.fNextFreeHit + 1,
         more.fUsedSlots = h.fUsedSlots + 1,
         more.ring = [h.ring EXCEPT ![h.fNextFreeHit % fBufferCapacity] = n + 1]
  PROVE  Counted(more, n + 1)
<1> DEFINE room == n % fBufferCapacity
<1>1. h.fNextFreeHit = n /\ h.fBufferStart \in Nat /\ h.fBufferStart <= n
      /\ n - h.fBufferStart < fBufferCapacity /\ h.fUsedSlots = n - h.fBufferStart
  BY HitRing DEF Counted, NoSlotForHit
<1>2. room \in 0 .. fBufferCapacity - 1
  <2>1. n \in Int /\ fBufferCapacity \in Int /\ fBufferCapacity > 0
    BY HitRing
  <2> QED BY <2>1, Division, Zenon
<1>3. more.ring = [h.ring EXCEPT ![room] = n + 1]
  BY <1>1
<1>4. more.ring[room] = n + 1
  BY <1>2, <1>3 DEF HitRings
<1>5. ASSUME NEW j \in h.fBufferStart .. n - 1 PROVE more.ring[j % fBufferCapacity] = j + 1
  <2>1. j \in Int /\ j < n /\ n - j < fBufferCapacity /\ j - n < fBufferCapacity
    BY <1>1, <1>5, HitRing
  <2>2. j % fBufferCapacity # room
    BY <2>1, HitRing, SameRemainder
  <2>3. j % fBufferCapacity \in 0 .. fBufferCapacity - 1
    BY <2>1, HitRing, Division
  <2>4. more.ring[j % fBufferCapacity] = h.ring[j % fBufferCapacity]
    BY <1>3, <2>2, <2>3 DEF HitRings
  <2> QED BY <1>5, <2>4 DEF Counted
<1>6. \A j \in more.fBufferStart .. n + 1 - 1 : more.ring[j % fBufferCapacity] = j + 1
  <2>1. \A j \in h.fBufferStart .. n + 1 - 1 : j \in h.fBufferStart .. n - 1 \/ j = n
    BY <1>1
  <2> QED BY <1>4, <1>5, <2>1
<1>7. /\ more.fBufferStart \in Nat /\ more.fNextFreeHit = n + 1 /\ more.fBufferStart <= n + 1
      /\ n + 1 - more.fBufferStart <= fBufferCapacity
      /\ more.fUsedSlots = n + 1 - more.fBufferStart
  BY <1>1, HitRing
<1> QED BY <1>6, <1>7 DEF Counted

LEMMA RecordedHit ==
  ASSUME NEW h \in Scorings, NEW n \in Nat
  PROVE  LET more == RecordHit(h, n + 1)
         IN /\ more \in Scorings /\ more.fBufferStart = h.fBufferStart
            /\ more.fNextFreeHit = h.fNextFreeHit + 1
            /\ (Counted(h, n) /\ ~NoSlotForHit(h)) => Counted(more, n + 1)
<1> DEFINE more == RecordHit(h, n + 1)
<1>1. n + 1 \in Nat
  OBVIOUS
<1>2. /\ more \in Scorings /\ more.fBufferStart = h.fBufferStart
      /\ more.fNextFreeHit = h.fNextFreeHit + 1 /\ more.fUsedSlots = h.fUsedSlots + 1
      /\ more.ring = [h.ring EXCEPT ![h.fNextFreeHit % fBufferCapacity] = n + 1]
  BY <1>1, RecordHitFields
<1>3. h.ring \in HitRings
  BY DEF Scorings
<1> HIDE DEF more
<1>4. ASSUME Counted(h, n), ~NoSlotForHit(h) PROVE Counted(more, n + 1)
  BY <1>2, <1>3, <1>4, OneHitMore
<1> QED BY <1>2, <1>4 DEF more

(* All the hits of a step find room in the ring, or the program stops.     *)
LEMMA RecordedHits ==
  ASSUME scoring \in Scorings, recorded \in Nat, NEW n \in 0 .. 2, ~NoSlotForHits(n)
  PROVE  /\ RecordHits(n) \in Scorings /\ RecordHits(n).fBufferStart = scoring.fBufferStart
         /\ Counted(scoring, recorded) => Counted(RecordHits(n), recorded + n)
<1> DEFINE first == RecordHit(scoring, recorded + 1)
           second == RecordHit(first, recorded + 1 + 1)
<1>1. /\ first \in Scorings /\ first.fBufferStart = scoring.fBufferStart
      /\ first.fNextFreeHit = scoring.fNextFreeHit + 1
      /\ (Counted(scoring, recorded) /\ ~NoSlotForHit(scoring)) => Counted(first, recorded + 1)
  BY RecordedHit
<1> HIDE DEF first
<1>2. /\ second \in Scorings /\ second.fBufferStart = first.fBufferStart
      /\ (Counted(first, recorded + 1) /\ ~NoSlotForHit(first)) => Counted(second, recorded + 1 + 1)
  <2> DEFINE m == recorded + 1
  <2>1. m \in Nat
    OBVIOUS
  <2> HIDE DEF m
  <2>2. LET more == RecordHit(first, m + 1)
        IN /\ more \in Scorings /\ more.fBufferStart = first.fBufferStart
           /\ (Counted(first, m) /\ ~NoSlotForHit(first)) => Counted(more, m + 1)
    BY <1>1, <2>1, RecordedHit
  <2> QED BY <2>2 DEF m
<1> HIDE DEF second
<1>3. CASE n = 0
  <2>1. RecordHits(n) = scoring /\ recorded + n = recorded
    BY <1>3 DEF RecordHits
  <2> QED BY <2>1
<1>4. CASE n = 1
  <2>1. RecordHits(n) = first
    BY <1>4 DEF RecordHits, first
  <2>2. ~NoSlotForHit(scoring)
    BY <1>4 DEF NoSlotForHits, NoSlotForHit, Scorings
  <2> QED BY <1>1, <1>4, <2>1, <2>2
<1>5. CASE n = 2
  <2>1. RecordHits(n) = second /\ recorded + n = recorded + 1 + 1
    BY <1>5 DEF RecordHits, first, second
  <2>2. scoring.fNextFreeHit \in Int /\ scoring.fBufferStart \in Int
    BY DEF Scorings
  <2>3. ~(scoring.fNextFreeHit + 1 - scoring.fBufferStart >= fBufferCapacity)
    BY <1>5, <2>2 DEF NoSlotForHits, NoSlotForHit, Scorings
  <2>4. ~NoSlotForHit(scoring) /\ ~NoSlotForHit(first)
    BY <1>1, <2>2, <2>3, HitRing DEF NoSlotForHit
  <2> QED BY <1>1, <1>2, <2>1, <2>4
<1> QED BY <1>3, <1>4, <1>5

LEMMA HitInvStep ==
  ASSUME HitInv, NEW k, NEW i, NEW effect, effect.hits \in 0 .. 2, Step(k, i, effect)
  PROVE  HitInv'
<1>1. /\ spc = "transport" /\ UNCHANGED <<processed, flushedLast, trusted>>
      /\ \/ spc' = "failed" /\ UNCHANGED <<scoring, recorded>>
         \/ /\ spc' = "transport" /\ ~NoSlotForHits(effect.hits)
            /\ scoring' = RecordHits(effect.hits) /\ recorded' = recorded + effect.hits
  BY DEF Step
<1>2. CASE UNCHANGED <<scoring, recorded>>
  <2>1. UNCHANGED hitVars
    BY <1>1, <1>2 DEF hitVars
  <2>2. spc' = spc \/ spc' = "failed"
    BY <1>1
  <2> QED BY <2>1, <2>2, HitsStay
<1>3. CASE ~UNCHANGED <<scoring, recorded>>
  <2>1. PICK n \in 0 .. 2 : n = effect.hits
    OBVIOUS
  <2>2. /\ spc' = "transport" /\ ~NoSlotForHits(n)
        /\ scoring' = RecordHits(n) /\ recorded' = recorded + n
    BY <1>1, <1>3, <2>1
  <2>3. recorded \in Nat /\ scoring \in Scorings /\ flushedLast \in BOOLEAN
    BY DEF HitInv
  <2>4. /\ scoring' \in Scorings /\ scoring'.fBufferStart = scoring.fBufferStart
        /\ Counted(scoring, recorded) => Counted(scoring', recorded')
    BY <2>2, <2>3, RecordedHits
  <2>5. recorded' \in Nat
    BY <2>2, <2>3
  <2>6. trusted => Counted(scoring, recorded) /\ processed = UpTo(scoring.fBufferStart)
    BY <1>1 DEF HitInv
  <2> QED BY <1>1, <2>2, <2>3, <2>4, <2>5, <2>6 DEF HitInv, HitsAreProcessed
<1> QED BY <1>2, <1>3

LEMMA RefreshHitFields ==
  ASSUME NEW h \in Scorings
  PROVE  /\ refresh_hit_stats(h) \in Scorings
         /\ refresh_hit_stats(h).fBufferStart = h.fBufferStart
         /\ refresh_hit_stats(h).fNextFreeHit = h.fNextFreeHit
         /\ refresh_hit_stats(h).fUsedSlots = h.fUsedSlots
         /\ refresh_hit_stats(h).ring = h.ring
         /\ refresh_hit_stats(h).fStats.fBufferStart = h.fBufferStart
         /\ refresh_hit_stats(h).fStats.fNextFreeHit = h.fNextFreeHit
         /\ refresh_hit_stats(h).fStats.fUsedSlots = h.fUsedSlots
<1> DEFINE stats == [fBufferStart |-> h.fBufferStart, fNextFreeHit |-> h.fNextFreeHit,
                     fUsedSlots |-> h.fUsedSlots]
<1>1. /\ stats \in Statistics /\ stats.fBufferStart = h.fBufferStart
      /\ stats.fNextFreeHit = h.fNextFreeHit /\ stats.fUsedSlots = h.fUsedSlots
  BY DEF Scorings, Statistics
<1>2. refresh_hit_stats(h) = [h EXCEPT !.fStats = stats]
  BY DEF refresh_hit_stats
<1> HIDE DEF stats
<1> QED BY <1>1, <1>2 DEF Scorings

LEMMA CopyHitFields ==
  ASSUME NEW h \in Scorings
  PROVE  /\ CopyHitsToHost(h) \in Scorings
         /\ CopyHitsToHost(h).fBufferStart = h.fStats.fNextFreeHit
         /\ CopyHitsToHost(h).fNextFreeHit = h.fNextFreeHit
         /\ CopyHitsToHost(h).fUsedSlots = h.fUsedSlots - h.fStats.fUsedSlots
         /\ CopyHitsToHost(h).ring = h.ring /\ CopyHitsToHost(h).host = h.ring
         /\ CopyHitsToHost(h).fStats = h.fStats
<1> DEFINE start == h.fStats.fNextFreeHit
           used == h.fUsedSlots - h.fStats.fUsedSlots
           ring == h.ring
           r == [h EXCEPT !.fBufferStart = start, !.host = ring, !.fUsedSlots = used]
<1>1. start \in Int /\ used \in Int /\ ring \in HitRings
  BY DEF Scorings, Statistics
<1>2. CopyHitsToHost(h) = r
  BY DEF CopyHitsToHost, Scorings
<1> HIDE DEF start, used, ring
<1>3. /\ r \in Scorings /\ r.fBufferStart = start /\ r.fNextFreeHit = h.fNextFreeHit
      /\ r.fUsedSlots = used /\ r.ring = h.ring /\ r.host = ring /\ r.fStats = h.fStats
  BY <1>1 DEF Scorings
<1> HIDE DEF r
<1> QED BY <1>2, <1>3 DEF start, used, ring

LEMMA ResetHitFields ==
  ASSUME NEW h \in Scorings
  PROVE  ResetBufferStats(h) \in Scorings /\ Reset(ResetBufferStats(h))
<1>1. NoHits \in HitRings
  BY DEF NoHits, HitRings
<1> DEFINE none == NoHits
           zero == 0
           first == [h EXCEPT !.fBufferStart = zero, !.fNextFreeHit = zero, !.fUsedSlots = zero]
           r == [first EXCEPT !.ring = none, !.host = none]
<1>2. none \in HitRings /\ zero \in Int
  BY <1>1
<1>5. ResetBufferStats(h) = r
  BY DEF ResetBufferStats
<1> HIDE DEF none, zero
<1>4. /\ first \in Scorings /\ first.fBufferStart = zero /\ first.fNextFreeHit = zero
      /\ first.fUsedSlots = zero
  BY <1>2 DEF Scorings
<1> HIDE DEF first
<1>6. r \in Scorings /\ r.fBufferStart = first.fBufferStart
      /\ r.fNextFreeHit = first.fNextFreeHit /\ r.fUsedSlots = first.fUsedSlots
  BY <1>2, <1>4 DEF Scorings
<1> HIDE DEF r
<1> QED BY <1>4, <1>5, <1>6 DEF Reset, zero

(* What the host iterates over are hits.                                   *)
LEMMA HitsOnHostFacts ==
  ASSUME NEW h \in Scorings
  PROVE  /\ HitsOnHost(h) \in Seq(Nat)
         /\ h.fStats.fUsedSlots \in Nat => Len(HitsOnHost(h)) = h.fStats.fUsedSlots
<1> DEFINE b == h.fStats.fBufferStart
           u == h.fStats.fUsedSlots
           f == h.host
<1>1. b \in Int /\ u \in Int /\ f \in HitRings
  BY DEF Scorings, Statistics
<1>2. HitsOnHost(h) = [i \in 1 .. u |-> f[(b + i - 1) % fBufferCapacity]]
  BY DEF HitsOnHost
<1> HIDE DEF b, u, f
<1>3. ASSUME NEW i \in 1 .. u PROVE f[(b + i - 1) % fBufferCapacity] \in Nat
  <2>1. b + i - 1 \in Int
    BY <1>1
  <2>2. (b + i - 1) % fBufferCapacity \in 0 .. fBufferCapacity - 1
    BY <2>1, HitRing, Division
  <2> QED BY <1>1, <2>2 DEF HitRings
<1>4. \E n \in Nat : 1 .. u = 1 .. n /\ (u \in Nat => n = u)
  <2>1. CASE u \in Nat
    BY <2>1
  <2>2. CASE u \notin Nat
    <3>1. 1 .. u = 1 .. 0
      BY <1>1, <2>2
    <3> QED BY <2>2, <3>1
  <2> QED BY <2>1, <2>2
<1>5. PICK n \in Nat : 1 .. u = 1 .. n /\ (u \in Nat => n = u)
  BY <1>4
<1>6. HitsOnHost(h) = [i \in 1 .. n |-> f[(b + i - 1) % fBufferCapacity]]
  BY <1>2, <1>5
<1>7. \A i \in 1 .. n : f[(b + i - 1) % fBufferCapacity] \in Nat
  BY <1>3, <1>5
<1> DEFINE g(i) == f[(b + i - 1) % fBufferCapacity]
           s == [i \in 1 .. n |-> g(i)]
<1>8. \A i \in 1 .. n : g(i) \in Nat
  BY <1>7
<1>9. s = HitsOnHost(h)
  BY <1>6
<1> HIDE DEF g
<1>10. s \in Seq(Nat) /\ Len(s) = n
  BY <1>8
<1> QED BY <1>5, <1>9, <1>10 DEF u

LEMMA UpToMore ==
  ASSUME NEW n \in Nat, NEW more \in Nat, NEW s \in Seq(Nat), Len(s) = more,
         \A i \in 1 .. more : s[i] = n + i
  PROVE  UpTo(n) \o s = UpTo(n + more)
<1> DEFINE first == UpTo(n)
           all == first \o s
<1>1. first \in Seq(Nat) /\ Len(first) = n /\ \A i \in 1 .. n : first[i] = i
  BY DEF UpTo
<1> HIDE DEF first
<1>2. UpTo(n + more) \in Seq(Nat) /\ Len(UpTo(n + more)) = n + more
      /\ \A i \in 1 .. n + more : UpTo(n + more)[i] = i
  BY DEF UpTo
<1>3. all \in Seq(Nat) /\ Len(all) = n + more
  BY <1>1, ConcatProperties
<1>4. ASSUME NEW i \in 1 .. n + more PROVE all[i] = i
  <2>1. all[i] = IF i <= n THEN first[i] ELSE s[i - n]
    BY <1>1, ConcatProperties
  <2> HIDE DEF all
  <2>2. CASE i <= n
    BY <1>1, <2>1, <2>2
  <2>3. CASE i > n
    <3>1. PICK j \in 1 .. more : j = i - n
      BY <2>3
    <3>2. s[j] = n + j /\ n + j = i
      BY <3>1
    <3>3. all[i] = s[i - n]
      BY <2>1, <2>3
    <3> QED BY <3>1, <3>2, <3>3
  <2> QED BY <2>2, <2>3
<1> HIDE DEF all
<1>5. \A i \in 1 .. n + more : all[i] = UpTo(n + more)[i]
  BY <1>2, <1>4
<1>6. all = UpTo(n + more)
  BY <1>2, <1>3, <1>5, SeqEqual
<1> QED BY <1>6 DEF all, first

(* A copy of the ring with the statistics of its hits brings the rest.     *)
LEMMA CopiedHits ==
  ASSUME NEW h \in Scorings, NEW n \in Nat, Counted(h, n), NEW c \in Scorings,
         c.host = h.ring, c.fStats.fBufferStart = h.fBufferStart,
         c.fStats.fUsedSlots = h.fUsedSlots
  PROVE  UpTo(h.fBufferStart) \o HitsOnHost(c) = UpTo(n)
<1> DEFINE b == h.fBufferStart
           u == h.fUsedSlots
           s == HitsOnHost(c)
<1>1. b \in Nat /\ b <= n /\ u = n - b /\ u \in Nat /\ b + u = n
  BY DEF Counted
<1>2. s \in Seq(Nat) /\ Len(s) = u
  BY <1>1, HitsOnHostFacts
<1>3. ASSUME NEW i \in 1 .. u PROVE s[i] = b + i
  <2>1. s[i] = h.ring[(b + i - 1) % fBufferCapacity]
    BY DEF HitsOnHost
  <2>2. b + i - 1 \in b .. n - 1 /\ (b + i - 1) + 1 = b + i
    BY <1>1
  <2>3. \A j \in b .. n - 1 : h.ring[j % fBufferCapacity] = j + 1
    BY DEF Counted
  <2> QED BY <2>1, <2>2, <2>3
<1> HIDE DEF b, u, s
<1>4. UpTo(b) \o s = UpTo(b + u)
  BY <1>1, <1>2, <1>3, UpToMore
<1> QED BY <1>1, <1>4 DEF b, s

(* An iteration flushes what it counted, or only notes the statistics.     *)
LEMMA HitInvFinishIteration ==
  ASSUME HitInv, FinishIteration
  PROVE  HitInv'
<1> DEFINE r == refresh_hit_stats(scoring)
           c == CopyHitsToHost(r)
<1>1. /\ spc = "transport" /\ spc' \in {"transport", "finish"}
      /\ recorded' = recorded /\ trusted' = trusted
      /\ \/ scoring' = c /\ processed' = processed \o HitsOnHost(c) /\ flushedLast' = TRUE
         \/ scoring' = r /\ processed' = processed /\ flushedLast' = FALSE
  BY DEF FinishIteration
<1>2. PICK h, n : h = scoring /\ n = recorded
  OBVIOUS
<1>3. h \in Scorings /\ n \in Nat /\ recorded' \in Nat
  BY <1>1, <1>2 DEF HitInv
<1>4. /\ r \in Scorings /\ r.fBufferStart = h.fBufferStart /\ r.fNextFreeHit = h.fNextFreeHit
      /\ r.fUsedSlots = h.fUsedSlots /\ r.ring = h.ring
      /\ r.fStats.fBufferStart = h.fBufferStart
      /\ r.fStats.fNextFreeHit = h.fNextFreeHit /\ r.fStats.fUsedSlots = h.fUsedSlots
  BY <1>2, <1>3, RefreshHitFields
<1> HIDE DEF r
<1>5. /\ c \in Scorings /\ c.fBufferStart = h.fNextFreeHit /\ c.fNextFreeHit = h.fNextFreeHit
      /\ c.fUsedSlots = h.fUsedSlots - h.fUsedSlots /\ c.host = h.ring
      /\ c.fStats.fBufferStart = h.fBufferStart
      /\ c.fStats.fNextFreeHit = h.fNextFreeHit /\ c.fStats.fUsedSlots = h.fUsedSlots
  BY <1>4, CopyHitFields
<1> HIDE DEF c
<1>6. trusted => Counted(h, n) /\ processed = UpTo(h.fBufferStart)
  BY <1>1, <1>2 DEF HitInv
<1>7. CASE scoring' = c /\ processed' = processed \o HitsOnHost(c) /\ flushedLast' = TRUE
  <2>1. ASSUME trusted PROVE Counted(c, n) /\ processed' = UpTo(c.fBufferStart)
    <3>1. Counted(h, n)
      BY <1>6, <2>1
    <3>2. UpTo(h.fBufferStart) \o HitsOnHost(c) = UpTo(n)
      BY <1>3, <1>5, <3>1, CopiedHits
    <3>3. c.fBufferStart = n /\ c.fNextFreeHit = n /\ c.fUsedSlots = 0
      BY <1>3, <1>5, <3>1 DEF Counted
    <3>4. Counted(c, n)
      BY <1>3, <3>3, HitRing DEF Counted
    <3> QED BY <1>6, <1>7, <2>1, <3>2, <3>3, <3>4
  <2>2. c.fStats.fNextFreeHit = c.fNextFreeHit /\ c.fBufferStart = c.fNextFreeHit
    BY <1>5
  <2> QED BY <1>1, <1>2, <1>3, <1>5, <1>7, <2>1, <2>2 DEF HitInv, LastStats, HitsAreProcessed
<1>8. CASE scoring' = r /\ processed' = processed /\ flushedLast' = FALSE
  <2>1. ASSUME trusted PROVE Counted(r, n) /\ processed' = UpTo(r.fBufferStart)
    <3>1. Counted(h, n) /\ processed' = UpTo(r.fBufferStart)
      BY <1>4, <1>6, <1>8, <2>1
    <3>2. Counted(r, n)
      BY <1>4, <3>1 DEF Counted
    <3> QED BY <3>1, <3>2
  <2>2. /\ r.fStats.fNextFreeHit = r.fNextFreeHit /\ r.fStats.fBufferStart = r.fBufferStart
        /\ r.fStats.fUsedSlots = r.fUsedSlots
    BY <1>4
  <2> QED BY <1>1, <1>2, <1>3, <1>4, <1>8, <2>1, <2>2 DEF HitInv, LastStats, HitsAreProcessed
<1> QED BY <1>1, <1>7, <1>8

LEMMA FirstHits ==
  ASSUME NEW n \in Nat, NEW s \in Seq(Nat)
  PROVE  SubSeq(UpTo(n) \o s, 1, n) = [i \in 1 .. n |-> i]
<1> DEFINE first == UpTo(n)
           all == first \o s
           part == SubSeq(all, 1, n)
           m == 1
<1>1. first \in Seq(Nat) /\ Len(first) = n /\ \A i \in 1 .. n : first[i] = i
  BY DEF UpTo
<1> HIDE DEF first
<1>2. all \in Seq(Nat) /\ Len(all) = n + Len(s) /\ \A i \in 1 .. n : all[i] = i
  <2>1. /\ all \in Seq(Nat) /\ Len(all) = n + Len(s)
        /\ \A i \in 1 .. n + Len(s) : all[i] = IF i <= n THEN first[i] ELSE s[i - n]
    BY <1>1, ConcatProperties
  <2> HIDE DEF all
  <2>2. \A i \in 1 .. n : i \in 1 .. n + Len(s) /\ i <= n
    OBVIOUS
  <2> QED BY <1>1, <2>1, <2>2
<1> HIDE DEF all
<1>3. part = [i \in 1 .. n |-> all[i]]
  BY <1>2
<1>4. [i \in 1 .. n |-> all[i]] = [i \in 1 .. n |-> i]
  BY <1>2
<1> QED BY <1>3, <1>4 DEF part, all, first

(* EndOfTransport copies the ring with the statistics of the last          *)
(* iteration: the rest, or once more what that iteration flushed.          *)
LEMMA HitInvEndShower ==
  ASSUME HitInv, EndShower
  PROVE  HitInv'
<1> DEFINE c == CopyHitsToHost(scoring)
           new == ResetBufferStats(c)
<1>1. /\ spc = "finish" /\ spc' = "answered"
      /\ recorded' = recorded /\ trusted' = trusted /\ flushedLast' = flushedLast
      /\ scoring' = new /\ processed' = processed \o HitsOnHost(c)
  BY DEF EndShower, EndOfTransport
<1>2. PICK h, n : h = scoring /\ n = recorded
  OBVIOUS
<1>3. h \in Scorings /\ n \in Nat /\ flushedLast \in BOOLEAN
  BY <1>2 DEF HitInv
<1>4. c \in Scorings /\ c.host = h.ring /\ c.fStats = h.fStats
  BY <1>2, <1>3, CopyHitFields
<1> HIDE DEF c
<1>5. new \in Scorings /\ Reset(new)
  BY <1>4, ResetHitFields
<1> HIDE DEF new
<1>6. ASSUME trusted
      PROVE  /\ SubSeq(processed', 1, n) = [i \in 1 .. n |-> i]
             /\ ~flushedLast => Len(processed') = n
  <2>1. Counted(h, n) /\ processed = UpTo(h.fBufferStart) /\ LastStats(h)
    BY <1>1, <1>2, <1>6 DEF HitInv
  <2>2. CASE flushedLast
    <3>1. h.fBufferStart = n
      BY <2>1, <2>2 DEF LastStats, Counted
    <3>2. HitsOnHost(c) \in Seq(Nat)
      BY <1>4, HitsOnHostFacts
    <3>3. processed' = UpTo(n) \o HitsOnHost(c)
      BY <1>1, <2>1, <3>1
    <3> QED BY <1>3, <2>2, <3>2, <3>3, FirstHits
  <2>3. CASE ~flushedLast
    <3>1. c.fStats.fBufferStart = h.fBufferStart /\ c.fStats.fUsedSlots = h.fUsedSlots
      BY <1>4, <2>1, <2>3 DEF LastStats
    <3>2. UpTo(h.fBufferStart) \o HitsOnHost(c) = UpTo(n)
      BY <1>3, <1>4, <2>1, <3>1, CopiedHits
    <3>3. processed' = UpTo(n)
      BY <1>1, <2>1, <3>2
    <3>4. UpTo(n) = UpTo(n) \o <<>> /\ <<>> \in Seq(Nat)
      BY <1>3 DEF UpTo
    <3>5. SubSeq(UpTo(n) \o <<>>, 1, n) = [i \in 1 .. n |-> i]
      BY <1>3, <3>4, FirstHits
    <3>6. Len(UpTo(n)) = n
      BY <1>3 DEF UpTo
    <3> QED BY <3>3, <3>4, <3>5, <3>6
  <2> QED BY <2>2, <2>3
<1> QED BY <1>1, <1>2, <1>3, <1>5, <1>6 DEF HitInv, HitsAreProcessed

LEMMA HitInvShowerReturns ==
  ASSUME HitInv, ShowerReturns
  PROVE  HitInv'
<1>1. /\ spc = "answered" /\ spc' = "idle" /\ trusted' = TRUE /\ recorded' = 0
      /\ processed' = <<>> /\ flushedLast' = FALSE /\ scoring' = scoring
  BY DEF ShowerReturns
<1>2. Reset(scoring)
  BY <1>1 DEF HitInv
<1> QED BY <1>1, <1>2 DEF HitInv, HitsAreProcessed

LEMMA HitInvNext == WorkerInv /\ HitInv /\ [Next]_vars => HitInv'
<1> SUFFICES ASSUME WorkerInv, HitInv, [Next]_vars PROVE HitInv'
  OBVIOUS
<1>1. CASE UNCHANGED vars \/ ProcessTrackOnCPU \/ EventFlushed \/ Over
  <2>1. UNCHANGED hitVars /\ spc' = spc
    BY <1>1 DEF vars, syncVars, ProcessTrackOnCPU, EventFlushed, Over
  <2> QED BY <2>1, HitsStay
<1>2. CASE NewEvent \/ HandOverOneTrack \/ DeleteTrack \/ EarlyExit \/ FinishTrack
  <2>1. UNCHANGED hitVars /\ spc' = spc
    BY <1>2 DEF NewEvent, HandOverOneTrack, DeleteTrack, EarlyExit, FinishTrack
  <2> QED BY <2>1, HitsStay
<1>3. CASE ProcessTrackOnGPU
  <2>1. UNCHANGED hitVars /\ spc' \in {"idle", "shower"} /\ tpc = "processing"
    BY <1>3 DEF ProcessTrackOnGPU, AddTrack
  <2>2. spc = "idle"
    BY <2>1 DEF WorkerInv, Control
  <2> QED BY <2>1, <2>2, HitsStay
<1>4. ASSUME NEW r, NEW name, NEW rest, HepEmStep(r, name, rest) PROVE HitInv'
  <2>1. UNCHANGED hitVars /\ spc' = spc
    BY <1>4 DEF HepEmStep
  <2> QED BY <2>1, HitsStay
<1>5. CASE FlushEvent
  <2>1. UNCHANGED hitVars /\ spc = "idle" /\ spc' = "shower"
    BY <1>5 DEF FlushEvent
  <2> QED BY <2>1, HitsStay
<1>6. CASE OnDevice
  <2>1. CASE Shower(event)
    BY <2>1, HitInvShower
  <2>2. CASE EmptyShower
    <3>1. UNCHANGED hitVars /\ spc = "shower" /\ spc' = "idle"
      BY <2>2 DEF EmptyShower
    <3> QED BY <3>1, HitsStay
  <2>3. ASSUME NEW k \in Kinds, NEW i \in DOMAIN todo[k], NEW effect \in StepEffects[k],
               Step(k, i, effect)
        PROVE  HitInv'
    <3>1. effect.hits \in 0 .. 2
      BY SyncTransportAssumption
    <3> QED BY <2>3, <3>1, HitInvStep
  <2>4. CASE FullRingStops
    <3>1. UNCHANGED hitVars /\ spc' = "failed"
      BY <2>4 DEF FullRingStops
    <3> QED BY <3>1, HitsStay
  <2> QED BY <1>6, <2>1, <2>2, <2>3, <2>4, HitInvFinishIteration, HitInvEndShower, HitInvShowerReturns
       DEF OnDevice, Transport
<1> QED BY <1>1, <1>2, <1>3, <1>4, <1>5, <1>6 DEF Next

LEMMA HitInvHolds == Spec => []HitInv
<1>1. Init => HitInv
  BY HitInvInit
<1>2. WorkerInv /\ HitInv /\ [Next]_vars => HitInv'
  BY HitInvNext
<1>3. Spec => []WorkerInv
  BY WorkerInvHolds
<1> QED BY <1>1, <1>2, <1>3, PTL DEF Spec

(* Every hit of a shower whose counters started from 0 is on the host when *)
(* the shower is answered, in the order in which the device recorded them; *)
(* for every capacity of the ring and every limit for its flush.           *)
THEOREM HitsAreProcessedHolds == Spec => []HitsAreProcessed
<1>1. HitInv => HitsAreProcessed
  BY DEF HitInv
<1> QED BY <1>1, HitInvHolds, PTL
=============================================================================
