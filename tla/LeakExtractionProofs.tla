------------------------- MODULE LeakExtractionProofs -------------------------
(* For any workers, tracks and sizes of the queues and of the staging      *)
(* buffer: every leaked track is in exactly one place on its way from the  *)
(* leak queues to the buffer of its worker, unless it was cleared late.    *)
EXTENDS LeakExtraction, SequenceTheorems, FiniteSetTheorems, TLAPS

Active == {"InjectionCompleted", "Transporting", "WaitingForTransportToFinish"}
Transferring == {"TracksNeedTransfer", "PreparingTracks", "TracksReadyToCopy", "CopyingTracks",
                 "TracksOnHost", "SavingTracks", "TracksSaved"}
ExtractStates == Transferring \cup {"Idle", "ExtractionRequested"}

TypeInv ==
  /\ eventState \in [Workers -> EventStates]
  /\ nextActive \subseteq Tracks /\ currentlyActive \subseteq Tracks /\ todo \subseteq currentlyActive
  /\ kernels \in Seq({0, 1}) /\ Len(kernels) <= 2
  /\ leakQueue \in [{0, 1} -> [Types -> Seq(Tracks)]]
  /\ extracted \in [{0, 1} -> [Types -> Nat]]
  /\ current \in {0, 1} /\ allLeaked \in {0, 1}
  /\ tpc \in {"launch", "request", "pass"}
  /\ extractState \in ExtractStates
  /\ transportEvents \in Nat /\ fNumLeaksTransferred \in Nat
  /\ fromDevice_dev \in Seq(Tracks) /\ fromDevice_host \in Seq(Tracks)
  /\ fromDeviceBuffers \in [Workers -> [Tracks -> Nat]]
  /\ leaked \subseteq Tracks /\ wiped \subseteq Tracks

(* Only the tracks of an event that is not flushed are with the kernels,   *)
(* and what survived an iteration was in its queues.                       *)
KernelInv ==
  /\ \A t \in nextActive \cup todo : eventState[t[1]] \in Active /\ t \notin leaked
  /\ nextActive \cap todo = {}
  /\ Len(kernels) <= 1 =>
       \A t \in nextActive : t \in currentlyActive \/ eventState[t[1]] = "InjectionCompleted"
  /\ kernels = <<>> => todo = {}
  /\ tpc = "launch" => Len(kernels) <= 1
  /\ \A w \in Workers : eventState[w] = "LeakedTracksRetrieved" => leaked \cap Of(w) = {}

(* Kernels that extractStream does not wait for use the current queues.    *)
QueuesInUse ==
  /\ \A i \in 1 .. Len(kernels) : i > transportEvents => kernels[i] = current
  /\ extractState # "ExtractionRequested" => transportEvents = 0
  /\ extractState # "Idle" => current = 1 - allLeaked
  /\ extractState = "ExtractionRequested" => fNumLeaksTransferred = 0

(* What extractStream has to do goes with extractState.                    *)
StreamInv ==
  CASE extractState = "Idle" -> extractStream \in {<<>>, << <<"clear", 1 - current>> >>}
    [] extractState = "ExtractionRequested" ->
         extractStream \in {<< <<"request">> >>, << <<"clear", current>>, <<"request">> >>}
    [] extractState = "PreparingTracks" -> extractStream = << <<"fill">> >>
    [] extractState = "CopyingTracks" -> extractStream = << <<"copy">> >>
    [] extractState = "SavingTracks" -> extractStream = << <<"save">> >>
    [] OTHER -> extractStream = <<>>

(* Entries count as extracted until their queue is cleared, and then no    *)
(* entry of it is left to extract.                                         *)
ExtractedInv ==
  /\ \A q \in {0, 1}, type \in Types : extracted[q][type] <= Len(leakQueue[q][type])
  /\ \A q \in {0, 1} : extracted[q] # Nothing =>
       extractStream # <<>> /\ extractStream[1] = <<"clear", q>>
  /\ extractState = "Idle" =>
       \A type \in Types : extracted[1 - current][type] = Len(leakQueue[1 - current][type])

(* The window of the leaks that is staged, and how far they are saved.     *)
WindowOf(leaks, staged, from) ==
  /\ from + Len(staged) <= Len(leaks)
  /\ \A i \in 1 .. Len(staged) : staged[i] = leaks[from + i]
StagingInv(leaks) ==
  /\ fNumLeaksTransferred <= Len(leaks)
  /\ extractState \in {"TracksReadyToCopy", "CopyingTracks"} =>
       /\ WindowOf(leaks, fromDevice_dev, fNumLeaksTransferred)
       /\ nRemainingLeaks = Len(leaks) - fNumLeaksTransferred - Len(fromDevice_dev)
  /\ extractState = "TracksOnHost" =>
       /\ WindowOf(leaks, fromDevice_host, fNumLeaksTransferred)
       /\ nRemainingLeaks = Len(leaks) - fNumLeaksTransferred - Len(fromDevice_host)
  /\ extractState = "SavingTracks" =>
       /\ Len(fromDevice_host) <= fNumLeaksTransferred
       /\ WindowOf(leaks, fromDevice_host, fNumLeaksTransferred - Len(fromDevice_host))
  /\ extractState \in {"SavingTracks", "TracksSaved"} =>
       nRemainingLeaks = Len(leaks) - fNumLeaksTransferred

(* Leaks in a queue that are not extracted, and those not saved yet.       *)
IsLive(q, type, i) == i \in 1 .. Len(leakQueue[q][type]) /\ i > extracted[q][type]
Live(q) ==
  {t \in Tracks : \E type \in Types : \E i \in 1 .. Len(leakQueue[q][type]) :
                    IsLive(q, type, i) /\ leakQueue[q][type][i] = t}
NumSaved ==
  fNumLeaksTransferred - IF extractState = "SavingTracks" THEN Len(fromDevice_host) ELSE 0
Unsaved(q) ==
  IF q = allLeaked /\ extractState \in Transferring
  THEN {t \in Tracks : \E i \in 1 .. Len(Leaks(q)) : i > NumSaved /\ Leaks(q)[i] = t}
  ELSE Live(q)

(* An entry is of its queue's type and no other has its track.             *)
EntriesAreDistinct ==
  \A q \in {0, 1}, type \in Types :
    /\ \A i \in 1 .. Len(leakQueue[q][type]) : leakQueue[q][type][i][2] = type
    /\ \A i, j \in 1 .. Len(leakQueue[q][type]) :
         (IsLive(q, type, i) /\ IsLive(q, type, j)
            /\ leakQueue[q][type][i] = leakQueue[q][type][j]) => i = j

AllReturned == {t \in Tracks : fromDeviceBuffers[t[1]][t] # 0}

(* Every leaked track is in one place: its buffer, a queue, or wiped.      *)
Accounting ==
  /\ leaked = AllReturned \cup wiped \cup Unsaved(0) \cup Unsaved(1)
  /\ AllReturned \cap wiped = {} /\ Unsaved(0) \cap Unsaved(1) = {}
  /\ (AllReturned \cup wiped) \cap (Unsaved(0) \cup Unsaved(1)) = {}
  /\ \A w \in Workers, t \in Tracks :
       fromDeviceBuffers[w][t] <= 1 /\ (fromDeviceBuffers[w][t] # 0 => t[1] = w)

(* An event whose tracks are flushed has leaks in no queue but the one     *)
(* that is being extracted, and in none at all once they are flushed.      *)
FlushInv ==
  \A w \in Workers :
    /\ eventState[w] = "FlushingTracks" => extractState # "Idle" /\ Live(current) \cap Of(w) = {}
    /\ eventState[w] = "DeviceFlushed" => (Unsaved(0) \cup Unsaved(1)) \cap Of(w) = {}

Inv ==
  /\ TypeInv /\ KernelInv /\ QueuesInUse /\ StreamInv /\ ExtractedInv
  /\ extractState \in Transferring => StagingInv(Leaks(allLeaked))
  /\ EntriesAreDistinct /\ Accounting /\ FlushInv

(* A trap ends the program where it is.                                    *)
IInv == FlushedEventsHaveTheirTracks /\ (~trapped => Inv)

-----------------------------------------------------------------------------
LEMMA AppendTwo ==
  ASSUME NEW c, NEW r
  PROVE  Append(<<>>, r) = <<r>> /\ Append(<<c>>, r) = <<c, r>>
<1> DEFINE s == Append(<<c>>, r)
           t == <<c, r>>
           S == {c, r}
<1>1. <<c>> \in Seq(S) /\ t \in Seq(S)
  OBVIOUS
<1>2. s \in Seq(S) /\ Len(s) = 2 /\ s[1] = c /\ s[2] = r
  BY <1>1
<1>3. Len(t) = 2 /\ t[1] = c /\ t[2] = r
  OBVIOUS
<1> HIDE DEF s, t, S
<1>4. \A i \in 1 .. Len(s) : s[i] = t[i]
  BY <1>2, <1>3
<1>5. s = t
  BY <1>1, <1>2, <1>3, <1>4, SeqEqual
<1> QED BY <1>5 DEF s, t

(* The leaks of a set of queues, and the entry an index leads to.          *)
LEMMA Concatenation ==
  ASSUME NEW S, NEW a \in Seq(S), NEW b \in Seq(S), NEW c \in Seq(S)
  PROVE  /\ a \o b \o c \in Seq(S)
         /\ Len(a \o b \o c) = Len(a) + Len(b) + Len(c)
         /\ \A i \in 1 .. Len(a) : (a \o b \o c)[i] = a[i]
         /\ \A i \in 1 .. Len(b) : (a \o b \o c)[Len(a) + i] = b[i]
         /\ \A i \in 1 .. Len(c) : (a \o b \o c)[Len(a) + Len(b) + i] = c[i]
OBVIOUS

LEMMA LeaksAreEntries ==
  ASSUME TypeInv, NEW q \in {0, 1}
  PROVE  /\ Leaks(q) \in Seq(Tracks)
         /\ \A i \in 1 .. Len(Leaks(q)) : \E type \in Types : \E j \in 1 .. Len(leakQueue[q][type]) :
              Leaks(q)[i] = leakQueue[q][type][j]
         /\ \A type \in Types : \A j \in 1 .. Len(leakQueue[q][type]) :
              \E i \in 1 .. Len(Leaks(q)) : Leaks(q)[i] = leakQueue[q][type][j]
         /\ EntriesAreDistinct /\ extracted[q] = Nothing =>
              \A i, j \in 1 .. Len(Leaks(q)) : Leaks(q)[i] = Leaks(q)[j] => i = j
<1> DEFINE a == leakQueue[q]["gamma"]
           b == leakQueue[q]["electron"]
           c == leakQueue[q]["positron"]
           L == Leaks(q)
<1>1. a \in Seq(Tracks) /\ b \in Seq(Tracks) /\ c \in Seq(Tracks)
  BY DEF TypeInv, Types
<1>2. L = a \o b \o c
  BY DEF Leaks
<1>3. \A type \in Types : \/ type = "gamma" /\ leakQueue[q][type] = a
                          \/ type = "electron" /\ leakQueue[q][type] = b
                          \/ type = "positron" /\ leakQueue[q][type] = c
  BY DEF Types
<1>4. /\ "gamma" \in Types /\ leakQueue[q]["gamma"] = a
      /\ "electron" \in Types /\ leakQueue[q]["electron"] = b
      /\ "positron" \in Types /\ leakQueue[q]["positron"] = c
  BY DEF Types
<1>5. EntriesAreDistinct /\ extracted[q] = Nothing =>
        /\ \A i, j \in 1 .. Len(a) : a[i][2] = "gamma" /\ (a[i] = a[j] => i = j)
        /\ \A i, j \in 1 .. Len(b) : b[i][2] = "electron" /\ (b[i] = b[j] => i = j)
        /\ \A i, j \in 1 .. Len(c) : c[i][2] = "positron" /\ (c[i] = c[j] => i = j)
  <2> SUFFICES ASSUME EntriesAreDistinct, extracted[q] = Nothing
               PROVE  \A type \in Types : \A i, j \in 1 .. Len(leakQueue[q][type]) :
                        /\ leakQueue[q][type][i][2] = type
                        /\ leakQueue[q][type][i] = leakQueue[q][type][j] => i = j
    BY <1>4
  <2>1. \A type \in Types : \A i \in 1 .. Len(leakQueue[q][type]) : IsLive(q, type, i)
    BY <1>1 DEF IsLive, Nothing, Types
  <2> QED BY <2>1 DEF EntriesAreDistinct
<1> HIDE DEF a, b, c, L
<1>6. /\ L \in Seq(Tracks) /\ Len(L) = Len(a) + Len(b) + Len(c)
      /\ \A i \in 1 .. Len(a) : L[i] = a[i]
      /\ \A i \in 1 .. Len(b) : L[Len(a) + i] = b[i]
      /\ \A i \in 1 .. Len(c) : L[Len(a) + Len(b) + i] = c[i]
  BY <1>1, <1>2, Concatenation
<1>7. Len(a) \in Nat /\ Len(b) \in Nat /\ Len(c) \in Nat
  BY <1>1
<1>8. \A i \in 1 .. Len(L) :
        \/ i \in 1 .. Len(a) /\ L[i] = a[i]
        \/ i - Len(a) \in 1 .. Len(b) /\ L[i] = b[i - Len(a)]
        \/ i - (Len(a) + Len(b)) \in 1 .. Len(c) /\ L[i] = c[i - (Len(a) + Len(b))]
  <2> SUFFICES ASSUME NEW i \in 1 .. Len(L)
               PROVE  \/ i \in 1 .. Len(a) /\ L[i] = a[i]
                      \/ i - Len(a) \in 1 .. Len(b) /\ L[i] = b[i - Len(a)]
                      \/ i - (Len(a) + Len(b)) \in 1 .. Len(c)
                           /\ L[i] = c[i - (Len(a) + Len(b))]
    OBVIOUS
  <2>1. CASE i <= Len(a)
    BY <2>1, <1>6, <1>7
  <2>2. CASE i > Len(a) /\ i <= Len(a) + Len(b)
    <3> DEFINE j == i - Len(a)
    <3>1. j \in 1 .. Len(b) /\ Len(a) + j = i
      BY <2>2, <1>6, <1>7
    <3> QED BY <3>1, <1>6
  <2>3. CASE i > Len(a) + Len(b)
    <3> DEFINE j == i - (Len(a) + Len(b))
    <3>1. j \in 1 .. Len(c) /\ Len(a) + Len(b) + j = i
      BY <2>3, <1>6, <1>7
    <3> QED BY <3>1, <1>6
  <2> QED BY <2>1, <2>2, <2>3, <1>7
<1>9. \A i \in 1 .. Len(L) : \E type \in Types : \E j \in 1 .. Len(leakQueue[q][type]) :
        L[i] = leakQueue[q][type][j]
  BY <1>8, <1>4
<1>10. ASSUME NEW type \in Types, NEW j \in 1 .. Len(leakQueue[q][type])
       PROVE  \E i \in 1 .. Len(L) : L[i] = leakQueue[q][type][j]
  <2>1. CASE leakQueue[q][type] = a
    <3>1. j \in 1 .. Len(L) /\ L[j] = a[j]
      BY <2>1, <1>6, <1>7
    <3> QED BY <3>1, <2>1
  <2>2. CASE leakQueue[q][type] = b
    <3>0. j \in 1 .. Len(b)
      BY <2>2
    <3>1. Len(a) + j \in 1 .. Len(L) /\ L[Len(a) + j] = b[j]
      BY <3>0, <1>6, <1>7
    <3> QED BY <3>1, <2>2
  <2>3. CASE leakQueue[q][type] = c
    <3>0. j \in 1 .. Len(c)
      BY <2>3
    <3>1. Len(a) + Len(b) + j \in 1 .. Len(L) /\ L[Len(a) + Len(b) + j] = c[j]
      BY <3>0, <1>6, <1>7
    <3> QED BY <3>1, <2>3
  <2> QED BY <2>1, <2>2, <2>3, <1>3
<1>11. ASSUME EntriesAreDistinct, extracted[q] = Nothing,
              NEW i \in 1 .. Len(L), NEW j \in 1 .. Len(L), L[i] = L[j]
       PROVE  i = j
  <2> DEFINE bi == i - Len(a)  bj == j - Len(a)
             ci == i - (Len(a) + Len(b))  cj == j - (Len(a) + Len(b))
  <2>1. \/ i \in 1 .. Len(a) /\ L[i] = a[i]
        \/ bi \in 1 .. Len(b) /\ L[i] = b[bi]
        \/ ci \in 1 .. Len(c) /\ L[i] = c[ci]
    BY <1>8
  <2>2. \/ j \in 1 .. Len(a) /\ L[j] = a[j]
        \/ bj \in 1 .. Len(b) /\ L[j] = b[bj]
        \/ cj \in 1 .. Len(c) /\ L[j] = c[cj]
    BY <1>8
  <2>3. (bi = bj \/ ci = cj) => i = j
    BY <1>7
  <2> HIDE DEF bi, bj, ci, cj
  <2>4. i = j \/ bi = bj \/ ci = cj
    BY <2>1, <2>2, <1>5, <1>11
  <2> QED BY <2>3, <2>4
<1> QED BY <1>6, <1>9, <1>10, <1>11 DEF L
(* Before an extraction transfers the first leak all of them are unsaved.  *)
LEMMA LeaksAreLive ==
  ASSUME TypeInv, NEW q \in {0, 1}, extracted[q] = Nothing
  PROVE  {t \in Tracks : \E i \in 1 .. Len(Leaks(q)) : i > 0 /\ Leaks(q)[i] = t} = Live(q)
<1>1. \A type \in Types : \A i \in 1 .. Len(leakQueue[q][type]) : IsLive(q, type, i)
  BY DEF IsLive, Nothing, Types, TypeInv
<1>2. ASSUME NEW t \in Tracks, NEW i \in 1 .. Len(Leaks(q)), Leaks(q)[i] = t
      PROVE  t \in Live(q)
  <2>1. PICK type \in Types : \E j \in 1 .. Len(leakQueue[q][type]) : t = leakQueue[q][type][j]
    <3>1. \A k \in 1 .. Len(Leaks(q)) : \E type \in Types : \E j \in 1 .. Len(leakQueue[q][type]) :
            Leaks(q)[k] = leakQueue[q][type][j]
      BY LeaksAreEntries
    <3> QED BY <3>1, <1>2
  <2>2. PICK j \in 1 .. Len(leakQueue[q][type]) : t = leakQueue[q][type][j]
    BY <2>1
  <2> QED BY <1>1, <2>2 DEF Live
<1>3. ASSUME NEW t \in Live(q)
      PROVE  \E i \in 1 .. Len(Leaks(q)) : i > 0 /\ Leaks(q)[i] = t
  <2>0. PICK type \in Types : \E j \in 1 .. Len(leakQueue[q][type]) : leakQueue[q][type][j] = t
    BY <1>3 DEF Live
  <2>1. PICK j \in 1 .. Len(leakQueue[q][type]) : leakQueue[q][type][j] = t
    BY <2>0
  <2>2. \A ty \in Types : \A k \in 1 .. Len(leakQueue[q][ty]) :
          \E i \in 1 .. Len(Leaks(q)) : Leaks(q)[i] = leakQueue[q][ty][k]
    BY LeaksAreEntries
  <2>3. PICK i \in 1 .. Len(Leaks(q)) : Leaks(q)[i] = t
    <3>1. \E i \in 1 .. Len(Leaks(q)) : Leaks(q)[i] = leakQueue[q][type][j]
      BY Zenon, <2>1, <2>2
    <3> QED BY Zenon, <3>1, <2>1
  <2>4. i > 0
    BY <2>3
  <2> QED BY Zenon, <2>3, <2>4
<1> QED BY <1>2, <1>3 DEF Live

(* What the unsaved leaks depend on.                                       *)
LEMMA UnsavedFrame ==
  ASSUME UNCHANGED <<leakQueue, extracted, allLeaked>>, NumSaved' = NumSaved,
         extractState' \in Transferring <=> extractState \in Transferring
  PROVE  \A q \in {0, 1} : Live(q)' = Live(q) /\ Leaks(q)' = Leaks(q) /\ Unsaved(q)' = Unsaved(q)
BY DEF Live, IsLive, Leaks, Unsaved

LEMMA AccountingFrame ==
  ASSUME Accounting, UNCHANGED <<leaked, wiped, fromDeviceBuffers>>,
         \A q \in {0, 1} : Unsaved(q)' = Unsaved(q)
  PROVE  Accounting'
BY DEF Accounting, AllReturned

LEMMA EntriesFrame ==
  ASSUME EntriesAreDistinct, UNCHANGED <<leakQueue, extracted>>
  PROVE  EntriesAreDistinct'
BY DEF EntriesAreDistinct, IsLive

(* From the parts of the invariant to the property.                        *)
LEMMA InvImpliesProperty == Inv => FlushedEventsHaveTheirTracks
<1> SUFFICES ASSUME Inv, NEW w \in Workers
             PROVE  /\ eventState[w] = "DeviceFlushed" =>
                         Returned(w) = (leaked \cap Of(w)) \ wiped
                    /\ Returned(w) \subseteq leaked \cap Of(w)
                    /\ \A t \in Tracks : fromDeviceBuffers[w][t] <= 1
  BY DEF FlushedEventsHaveTheirTracks
<1>1. Returned(w) = AllReturned \cap Of(w)
  BY DEF Inv, Accounting, Returned, AllReturned, Of
<1>2. AllReturned \subseteq leaked /\ AllReturned \cap wiped = {}
  BY DEF Inv, Accounting
<1>3. eventState[w] = "DeviceFlushed" => leaked \cap Of(w) \subseteq AllReturned \cup wiped
  BY DEF Inv, Accounting, FlushInv
<1> QED BY <1>1, <1>2, <1>3 DEF Inv, Accounting

LEMMA InitInv == Init => Inv
<1> SUFFICES ASSUME Init PROVE Inv
  OBVIOUS
<1> USE DEF Init
<1>1. TypeInv
  BY DEF TypeInv, EventStates, Empty, Nothing, NoTracks, ExtractStates
<1>2. KernelInv /\ QueuesInUse /\ StreamInv /\ ExtractedInv
  BY DEF KernelInv, QueuesInUse, StreamInv, ExtractedInv, Empty, Nothing, Of
<1>3. \A q \in {0, 1} : Live(q) = {} /\ Unsaved(q) = {}
  BY DEF Live, Unsaved, Transferring, Empty
<1>4. EntriesAreDistinct
  BY DEF EntriesAreDistinct, Empty
<1>5. Accounting
  BY <1>3, LeakExtractionAssumption DEF Accounting, AllReturned, NoTracks
<1>6. FlushInv
  BY <1>3 DEF FlushInv
<1> QED BY <1>1, <1>2, <1>4, <1>5, <1>6 DEF Inv, Transferring

-----------------------------------------------------------------------------
(* Workers and hit thread.                                                 *)
LEMMA InjectStep ==
  ASSUME Inv, NEW w \in Workers, InjectEvent(w) PROVE Inv'
<1> USE DEF Inv, InjectEvent, kernelVars, historyVars, threadVars, extractVars, stagingVars
<1>1. TypeInv'
  BY DEF TypeInv, Of, EventStates
<1>2. KernelInv'
  <2>1. \A v \in Workers : eventState'[v] = IF v = w THEN "InjectionCompleted" ELSE eventState[v]
    BY DEF TypeInv
  <2>2. leaked \cap Of(w) = {}
    BY DEF KernelInv
  <2>3. \A t \in nextActive \cup todo : t[1] # w /\ t[1] \in Workers
    BY LeakExtractionAssumption DEF KernelInv, TypeInv, Active
  <2>4. \A t \in Of(w) : t \in Tracks /\ t[1] = w /\ t \notin leaked /\ t \notin todo
    BY <2>2, <2>3 DEF Of
  <2>5. \A t \in nextActive' \cup todo' : eventState'[t[1]] \in Active /\ t \notin leaked'
    BY <2>1, <2>3, <2>4 DEF KernelInv, Active
  <2>6. nextActive' \cap todo' = {}
    BY <2>4 DEF KernelInv
  <2>7. Len(kernels) <= 1 => \A t \in nextActive' :
          t \in currentlyActive' \/ eventState'[t[1]] = "InjectionCompleted"
    BY <2>1, <2>3, <2>4 DEF KernelInv
  <2>8. \A v \in Workers : eventState'[v] = "LeakedTracksRetrieved" => leaked' \cap Of(v) = {}
    BY <2>1 DEF KernelInv
  <2> QED BY <2>5, <2>6, <2>7, <2>8 DEF KernelInv, Of
<1>3. QueuesInUse' /\ StreamInv' /\ ExtractedInv'
  BY DEF QueuesInUse, StreamInv, ExtractedInv
<1>4. NumSaved' = NumSaved
  BY DEF NumSaved
<1>5. \A q \in {0, 1} : Live(q)' = Live(q) /\ Leaks(q)' = Leaks(q) /\ Unsaved(q)' = Unsaved(q)
  BY <1>4, UnsavedFrame
<1>6. extractState' \in Transferring => StagingInv(Leaks(allLeaked))'
  BY <1>5 DEF StagingInv, WindowOf, TypeInv
<1>7. EntriesAreDistinct' /\ Accounting'
  BY <1>5, EntriesFrame, AccountingFrame
<1>8. FlushInv'
  BY <1>5 DEF FlushInv, TypeInv
<1> QED BY <1>1, <1>2, <1>3, <1>6, <1>7, <1>8

LEMMA FlushHitsStep ==
  ASSUME Inv, NEW w \in Workers, FlushHits(w) PROVE Inv'
<1> USE DEF Inv, FlushHits, kernelVars, historyVars, threadVars, extractVars, stagingVars
<1>1. TypeInv'
  BY DEF TypeInv, EventStates
<1>2. KernelInv'
  BY DEF KernelInv, TypeInv, Active
<1>3. QueuesInUse' /\ StreamInv' /\ ExtractedInv'
  BY DEF QueuesInUse, StreamInv, ExtractedInv
<1>4. NumSaved' = NumSaved
  BY DEF NumSaved
<1>5. \A q \in {0, 1} : Live(q)' = Live(q) /\ Leaks(q)' = Leaks(q) /\ Unsaved(q)' = Unsaved(q)
  BY <1>4, UnsavedFrame
<1>6. extractState' \in Transferring => StagingInv(Leaks(allLeaked))'
  BY <1>5 DEF StagingInv, WindowOf, TypeInv
<1>7. EntriesAreDistinct' /\ Accounting'
  BY <1>5, EntriesFrame, AccountingFrame
<1>8. FlushInv'
  BY <1>5 DEF FlushInv, TypeInv
<1> QED BY <1>1, <1>2, <1>3, <1>6, <1>7, <1>8

LEMMA RetrieveStep ==
  ASSUME Inv, NEW w \in Workers, RetrieveTracks(w) PROVE Inv'
<1> USE DEF Inv, RetrieveTracks, kernelVars, historyVars, threadVars, extractVars, stagingVars
<1>1. TypeInv'
  BY DEF TypeInv, EventStates, NoTracks
<1>2. KernelInv'
  BY DEF KernelInv, TypeInv, Active, Of
<1>3. QueuesInUse' /\ StreamInv' /\ ExtractedInv'
  BY DEF QueuesInUse, StreamInv, ExtractedInv
<1>4. NumSaved' = NumSaved
  BY DEF NumSaved
<1>5. \A q \in {0, 1} : Live(q)' = Live(q) /\ Leaks(q)' = Leaks(q) /\ Unsaved(q)' = Unsaved(q)
  BY <1>4, UnsavedFrame
<1>6. extractState' \in Transferring => StagingInv(Leaks(allLeaked))'
  BY <1>5 DEF StagingInv, WindowOf, TypeInv
<1>7. EntriesAreDistinct'
  BY EntriesFrame
<1>8. (Unsaved(0) \cup Unsaved(1)) \cap Of(w) = {}
  BY DEF FlushInv
<1>9. AllReturned' = AllReturned \ Of(w)
  BY LeakExtractionAssumption DEF AllReturned, Of, TypeInv, NoTracks
<1>10. \A v \in Workers, t \in Tracks :
         fromDeviceBuffers'[v][t] <= 1 /\ (fromDeviceBuffers'[v][t] # 0 => t[1] = v)
  BY DEF Accounting, NoTracks, TypeInv
<1>11. Accounting'
  BY <1>5, <1>8, <1>9, <1>10 DEF Accounting
<1>12. FlushInv'
  BY <1>5 DEF FlushInv, TypeInv
<1> QED BY <1>1, <1>2, <1>3, <1>6, <1>7, <1>11, <1>12
-----------------------------------------------------------------------------
(* Transport thread.                                                       *)
LEMMA WaitingStep ==
  ASSUME Inv, NoRequest \/ Blocked PROVE Inv'
<1> USE DEF Inv, NoRequest, Blocked, PassEnds, kernelVars, historyVars, threadVars, extractVars,
        stagingVars
<1>1. TypeInv' /\ KernelInv'
  BY DEF TypeInv, KernelInv
<1>2. QueuesInUse' /\ StreamInv' /\ ExtractedInv'
  BY DEF QueuesInUse, StreamInv, ExtractedInv
<1>3. NumSaved' = NumSaved
  BY DEF NumSaved
<1>4. \A q \in {0, 1} : Live(q)' = Live(q) /\ Leaks(q)' = Leaks(q) /\ Unsaved(q)' = Unsaved(q)
  BY <1>3, UnsavedFrame
<1>5. extractState' \in Transferring => StagingInv(Leaks(allLeaked))'
  BY <1>4 DEF StagingInv, WindowOf, TypeInv
<1>6. EntriesAreDistinct' /\ Accounting' /\ FlushInv'
  BY <1>4, EntriesFrame, AccountingFrame DEF FlushInv, TypeInv
<1> QED BY <1>1, <1>2, <1>5, <1>6

LEMMA LaunchStep ==
  ASSUME Inv, LaunchKernels PROVE Inv'
<1> USE DEF Inv, LaunchKernels, kernelVars, historyVars, threadVars, extractVars, stagingVars
<1>1. \A w \in Workers :
        /\ eventState'[w] \in EventStates
        /\ eventState[w] \in Active <=> eventState'[w] \in Active
        /\ eventState[w] \notin Active => eventState'[w] = eventState[w]
  BY DEF TypeInv, Active, EventStates
<1>0. eventState' \in [Workers -> EventStates]
  BY <1>1
<1>2. kernels \in Seq({0, 1}) /\ Len(kernels) <= 1 /\ <<current>> \in Seq({0, 1})
  BY DEF TypeInv, KernelInv
<1>3. ASSUME kernels = <<>> PROVE TypeInv' /\ KernelInv' /\ QueuesInUse'
  <2>1. /\ kernels' = IF nextActive = {} THEN <<>> ELSE <<current>>
        /\ nextActive' = {} /\ currentlyActive' = nextActive /\ todo' = nextActive
    BY <1>3 DEF StartKernels
  <2>a. kernels' \in Seq({0, 1}) /\ Len(kernels') <= 2
    <3>1. CASE nextActive = {}
      BY <1>2, <1>3, <2>1, <3>1
    <3>2. CASE nextActive # {}
      <4>1. kernels' = <<current>> /\ current \in {0, 1}
        BY <2>1, <3>2 DEF TypeInv
      <4> QED BY <4>1
    <3> QED BY <3>1, <3>2
  <2>2. TypeInv'
    BY <1>0, <2>1, <2>a DEF TypeInv
  <2>3. \A t \in todo' : eventState'[t[1]] \in Active /\ t \notin leaked
    BY <1>1, <2>1, LeakExtractionAssumption DEF KernelInv, TypeInv
  <2>4. KernelInv'
    BY <1>1, <2>1, <2>3 DEF KernelInv, Active
  <2>5. \A i \in 1 .. Len(kernels') : kernels'[i] = current
    BY <2>1
  <2>6. QueuesInUse'
    BY <2>5 DEF QueuesInUse, TypeInv
  <2> QED BY <2>2, <2>4, <2>6
<1>4. ASSUME kernels # <<>> PROVE TypeInv' /\ KernelInv' /\ QueuesInUse'
  <2>1. kernels' = Append(kernels, current) /\ UNCHANGED <<nextActive, currentlyActive, todo>>
    BY <1>4
  <2>2. /\ kernels' \in Seq({0, 1}) /\ Len(kernels') = Len(kernels) + 1 /\ Len(kernels') = 2
        /\ \A i \in 1 .. Len(kernels) : kernels'[i] = kernels[i]
        /\ kernels'[Len(kernels) + 1] = current
    BY <1>2, <1>4, <2>1 DEF TypeInv
  <2>3. TypeInv'
    BY <1>0, <2>1, <2>2 DEF TypeInv
  <2>4. \A t \in nextActive \cup todo : eventState'[t[1]] \in Active /\ t \notin leaked
    BY <1>1, LeakExtractionAssumption DEF KernelInv, TypeInv
  <2>5. KernelInv'
    BY <1>1, <1>4, <2>1, <2>2, <2>4 DEF KernelInv, Active
  <2>6. QueuesInUse'
    <3>1. \A i \in 1 .. Len(kernels') : i \in 1 .. Len(kernels) \/ i = Len(kernels) + 1
      BY <1>2, <2>2
    <3> QED BY <3>1, <2>2 DEF QueuesInUse
  <2> QED BY <2>3, <2>5, <2>6
<1>5. StreamInv' /\ ExtractedInv'
  BY DEF StreamInv, ExtractedInv
<1>6. NumSaved' = NumSaved
  BY DEF NumSaved
<1>7. \A q \in {0, 1} : Live(q)' = Live(q) /\ Leaks(q)' = Leaks(q) /\ Unsaved(q)' = Unsaved(q)
  BY <1>6, UnsavedFrame
<1>8. extractState' \in Transferring => StagingInv(Leaks(allLeaked))'
  BY <1>7 DEF StagingInv, WindowOf, TypeInv
<1>9. EntriesAreDistinct' /\ Accounting'
  BY <1>7, EntriesFrame, AccountingFrame
<1>10. FlushInv'
  BY <1>1, <1>7 DEF FlushInv, TypeInv, Active
<1> QED BY <1>3, <1>4, <1>5, <1>8, <1>9, <1>10

(* The set that now goes to the kernels has no leak to extract.            *)
LEMMA RequestStep ==
  ASSUME Inv, RequestExtraction PROVE Inv'
<1> USE DEF Inv, RequestExtraction, AdvanceExtractState, Launch, kernelVars, historyVars, threadVars,
        extractVars, stagingVars
<1>1. \A w \in Workers :
        eventState'[w] = IF eventState[w] = "HitsFlushed" THEN "FlushingTracks" ELSE eventState[w]
  BY DEF Advance
<1>2. TypeInv'
  <2>1. eventState' \in [Workers -> EventStates]
    BY DEF TypeInv, Advance, EventStates
  <2> QED BY <2>1 DEF TypeInv, ExtractStates
<1>3. KernelInv'
  <2>1. \A t \in nextActive \cup todo : eventState'[t[1]] \in Active
    BY <1>1, LeakExtractionAssumption DEF KernelInv, TypeInv, Active
  <2>2. \A t \in nextActive : t[1] \in Workers
    BY LeakExtractionAssumption DEF TypeInv
  <2> QED BY <1>1, <2>1, <2>2 DEF KernelInv, Of
<1>4. QueuesInUse'
  BY DEF QueuesInUse, TypeInv
<1>5. StreamInv'
  <2>1. extractStream = <<>> \/ extractStream = << <<"clear", 1 - current>> >>
    BY DEF StreamInv
  <2>2. extractStream' = << <<"request">> >>
          \/ extractStream' = << <<"clear", 1 - current>>, <<"request">> >>
    <3> DEFINE c == <<"clear", 1 - current>>  r == <<"request">>
    <3>1. extractStream = <<>> \/ extractStream = <<c>>
      BY <2>1
    <3>2. extractStream' = Append(extractStream, r)
      OBVIOUS
    <3> HIDE DEF c, r
    <3>3. Append(<<>>, r) = <<r>> /\ Append(<<c>>, r) = <<c, r>>
      BY ONLY AppendTwo
    <3>4. extractStream' = <<r>> \/ extractStream' = <<c, r>>
      BY ONLY <3>1, <3>2, <3>3
    <3> QED BY <3>4 DEF c, r
  <2> QED BY <2>2 DEF StreamInv
<1>6. ExtractedInv'
  <2>1. extractStream # <<>> => extractStream' # <<>> /\ extractStream'[1] = extractStream[1]
    BY DEF StreamInv
  <2> QED BY <2>1 DEF ExtractedInv
<1>7. \A q \in {0, 1} : Live(q)' = Live(q) /\ Unsaved(q)' = Live(q) /\ Unsaved(q) = Live(q)
  BY DEF Live, IsLive, Unsaved, Transferring
<1>8. Live(1 - current) = {}
  BY DEF Live, IsLive, ExtractedInv, TypeInv
<1>9. EntriesAreDistinct' /\ Accounting'
  BY <1>7, EntriesFrame, AccountingFrame
<1>10. FlushInv'
  <2>1. Live(current)' = {}
    BY <1>7, <1>8 DEF TypeInv
  <2>2. \A w \in Workers : eventState'[w] = "DeviceFlushed" => eventState[w] = "DeviceFlushed"
    BY <1>1
  <2>3. Unsaved(0)' = Unsaved(0) /\ Unsaved(1)' = Unsaved(1)
    BY <1>7
  <2> QED BY <2>1, <2>2, <2>3 DEF FlushInv
<1> QED BY <1>2, <1>3, <1>4, <1>5, <1>6, <1>9, <1>10 DEF Transferring
(* The next transfer is launched, or its end is taken note of: whatever is *)
(* saved stays saved.                                                      *)
LEMMA PassStepInv ==
  ASSUME Inv, PrepareTracks \/ CopyTracks \/ SaveTracks \/ ExtractMore PROVE Inv'
<1> USE DEF Inv, kernelVars, historyVars, threadVars, extractVars, stagingVars
<1> DEFINE L == Leaks(allLeaked)
<1>1. /\ UNCHANGED <<tpc, kernelVars, leakQueue, current, allLeaked, transportEvents, stagingVars,
                     fromDeviceBuffers, historyVars, eventState>>
      /\ \/ /\ extractState = "TracksNeedTransfer" /\ extractState' = "PreparingTracks"
            /\ extractStream' = Append(extractStream, <<"fill">>) /\ UNCHANGED fNumLeaksTransferred
         \/ /\ extractState = "TracksReadyToCopy" /\ extractState' = "CopyingTracks"
            /\ extractStream' = Append(extractStream, <<"copy">>) /\ UNCHANGED fNumLeaksTransferred
         \/ /\ extractState = "TracksOnHost" /\ extractState' = "SavingTracks"
            /\ extractStream' = Append(extractStream, <<"save">>)
            /\ fNumLeaksTransferred' = fNumLeaksTransferred + Len(fromDevice_host)
         \/ /\ extractState = "TracksSaved" /\ extractState' = "TracksNeedTransfer"
            /\ UNCHANGED <<extractStream, fNumLeaksTransferred>>
  BY DEF PrepareTracks, CopyTracks, SaveTracks, ExtractMore, PassStep, AdvanceExtractState, Awaited,
         Launch
<1>2. extractStream = <<>> /\ extractState \in Transferring /\ extractState' \in Transferring
  BY <1>1 DEF StreamInv, Transferring
<1>3. Len(fromDevice_host) \in Nat /\ fNumLeaksTransferred \in Nat /\ fNumLeaksTransferred' \in Nat
  BY <1>1 DEF TypeInv
<1>4. TypeInv' /\ KernelInv'
  BY <1>1, <1>2, <1>3 DEF TypeInv, KernelInv, ExtractStates
<1>5. QueuesInUse'
  BY <1>1, <1>2 DEF QueuesInUse, Transferring
<1>6. StreamInv'
  BY <1>1, <1>2, AppendTwo DEF StreamInv
<1>7. ExtractedInv'
  BY <1>1, <1>2 DEF ExtractedInv, Transferring
<1>8. NumSaved' = NumSaved
  BY <1>1, <1>3 DEF NumSaved
<1>9. \A q \in {0, 1} : Live(q)' = Live(q) /\ Leaks(q)' = Leaks(q) /\ Unsaved(q)' = Unsaved(q)
  BY <1>1, <1>2, <1>8, UnsavedFrame
<1>10. L' = L /\ Len(L) \in Nat
  BY <1>1, <1>9, LeaksAreEntries DEF TypeInv
<1>11. StagingInv(L)
  BY <1>2
<1> HIDE DEF L
<1>12. StagingInv(L)'
  <2>1. CASE extractState = "TracksOnHost"
    <3> DEFINE n == fNumLeaksTransferred  k == Len(fromDevice_host)
    <3>1. n + k <= Len(L) /\ nRemainingLeaks = Len(L) - n - k /\ WindowOf(L, fromDevice_host, n)
      BY <2>1, <1>11 DEF StagingInv, WindowOf
    <3>2. /\ fNumLeaksTransferred' = n + k /\ extractState' = "SavingTracks"
          /\ UNCHANGED <<fromDevice_host, nRemainingLeaks>>
      BY <1>1, <2>1
    <3>3. /\ n \in Nat /\ k \in Nat /\ (n + k) - k = n
          /\ nRemainingLeaks = Len(L) - (n + k) /\ k <= n + k
      BY <1>3, <1>10, <3>1
    <3>4. WindowOf(L, fromDevice_host, (n + k) - k)
      BY <3>1, <3>3
    <3> HIDE DEF n
    <3> QED BY <1>10, <3>1, <3>2, <3>3, <3>4 DEF StagingInv, WindowOf
  <2>2. CASE extractState # "TracksOnHost"
    BY <1>1, <1>10, <1>11, <2>2 DEF StagingInv, WindowOf
  <2> QED BY <2>1, <2>2
<1>13. EntriesAreDistinct' /\ Accounting'
  BY <1>1, <1>9, EntriesFrame, AccountingFrame
<1>14. FlushInv'
  BY <1>1, <1>2, <1>9 DEF FlushInv, TypeInv, Transferring
<1> QED BY <1>4, <1>5, <1>6, <1>7, <1>12, <1>13, <1>14 DEF L

(* The end of an extraction: nothing of the set is left to save, and what  *)
(* was flushed has no leak in the other one.                               *)
LEMMA EndExtractionStep ==
  ASSUME Inv, EndExtraction PROVE Inv'
<1> USE DEF Inv, kernelVars, historyVars, threadVars, extractVars, stagingVars
<1>1. /\ UNCHANGED <<tpc, kernelVars, leakQueue, current, allLeaked, transportEvents, stagingVars,
                     fromDeviceBuffers, wiped, fNumLeaksTransferred>>
      /\ extractState = "TracksSaved" /\ extractState' = "Idle" /\ nRemainingLeaks = 0
      /\ extractStream' = Append(extractStream, <<"clear", allLeaked>>)
      /\ eventState' = Advance("FlushingTracks", "DeviceFlushed")
      /\ extracted' = [extracted EXCEPT ![allLeaked] =
                         [type \in Types |-> Len(leakQueue[allLeaked][type])]]
  BY DEF EndExtraction, PassStep, AdvanceExtractState, Awaited, Launch
<1>2. /\ current \in {0, 1} /\ allLeaked \in {0, 1} /\ current = 1 - allLeaked
      /\ extractStream = <<>> /\ extractState \in Transferring
  BY <1>1 DEF TypeInv, QueuesInUse, StreamInv, Transferring
<1>3. \A w \in Workers :
        eventState'[w] = IF eventState[w] = "FlushingTracks" THEN "DeviceFlushed" ELSE eventState[w]
  BY <1>1 DEF Advance
<1>4. /\ extracted'[allLeaked] = [type \in Types |-> Len(leakQueue[allLeaked][type])]
      /\ extracted'[current] = extracted[current] /\ extracted[current] = Nothing
      /\ extracted[allLeaked] = Nothing
  BY <1>1, <1>2 DEF TypeInv, ExtractedInv
<1>5. TypeInv'
  <2>1. eventState' \in [Workers -> EventStates]
    BY <1>1 DEF TypeInv, Advance, EventStates
  <2>2. [type \in Types |-> Len(leakQueue[allLeaked][type])] \in [Types -> Nat]
    BY <1>2 DEF TypeInv
  <2>3. extracted' \in [{0, 1} -> [Types -> Nat]]
    BY <1>1, <1>2, <2>2 DEF TypeInv
  <2> QED BY <1>1, <2>1, <2>3 DEF TypeInv, ExtractStates
<1>6. KernelInv'
  <2>1. \A t \in nextActive \cup todo : t[1] \in Workers /\ eventState'[t[1]] = eventState[t[1]]
    BY <1>3, LeakExtractionAssumption DEF KernelInv, TypeInv, Active
  <2> QED BY <1>1, <1>3, <2>1 DEF KernelInv, Of
<1>7. QueuesInUse'
  BY <1>1 DEF QueuesInUse
<1>8. extractStream' = << <<"clear", 1 - current>> >>
  BY <1>1, <1>2, AppendTwo
<1>9. StreamInv'
  BY <1>1, <1>8 DEF StreamInv
<1>10. ExtractedInv'
  <2>1. \A q \in {0, 1}, type \in Types : extracted'[q][type] <= Len(leakQueue[q][type])
    BY <1>2, <1>4 DEF TypeInv, Nothing
  <2>2. \A q \in {0, 1} : extracted'[q] # Nothing => q = 1 - current
    BY <1>2, <1>4
  <2>3. extractStream' # <<>> /\ extractStream'[1] = <<"clear", 1 - current>>
    BY <1>8
  <2> QED BY <1>1, <1>2, <1>4, <2>1, <2>2, <2>3 DEF ExtractedInv
<1>11. \A q \in {0, 1} : q # allLeaked =>
         Unsaved(q)' = Live(q) /\ Unsaved(q) = Live(q)
  BY <1>1, <1>2, <1>4 DEF Live, IsLive, Unsaved, Transferring
<1>12. \A q \in {0, 1} : q = allLeaked => Unsaved(q)' = {}
  BY <1>1, <1>2, <1>4 DEF Live, IsLive, Unsaved, Transferring, TypeInv
<1>13. Unsaved(allLeaked) = {}
  <2> DEFINE L == Leaks(allLeaked)
  <2>1. StagingInv(L) /\ Len(L) \in Nat
    BY <1>2, LeaksAreEntries
  <2>2. fNumLeaksTransferred = Len(L) /\ NumSaved = Len(L)
    BY <1>1, <2>1 DEF StagingInv, NumSaved, TypeInv
  <2>3. Unsaved(allLeaked) =
          {t \in Tracks : \E i \in 1 .. Len(L) : i > NumSaved /\ L[i] = t}
    BY <1>2 DEF Unsaved
  <2> HIDE DEF L
  <2>4. \A i \in 1 .. Len(L) : ~(i > NumSaved)
    BY <2>1, <2>2
  <2> QED BY <2>3, <2>4
<1>14. \A q \in {0, 1} : Unsaved(q)' = Unsaved(q)
  BY <1>11, <1>12, <1>13
<1>15. Accounting'
  BY <1>1, <1>14, AccountingFrame
<1>16. EntriesAreDistinct'
  <2>1. \A q \in {0, 1}, type \in Types : \A i \in 1 .. Len(leakQueue[q][type]) :
          IsLive(q, type, i)' => IsLive(q, type, i)
    BY <1>1, <1>2, <1>4 DEF IsLive, TypeInv, Nothing
  <2> QED BY <1>1, <2>1 DEF EntriesAreDistinct
<1>17. FlushInv'
  <2>1. \A w \in Workers : eventState[w] = "FlushingTracks" =>
          (Unsaved(0) \cup Unsaved(1)) \cap Of(w) = {}
    BY <1>2, <1>11, <1>13 DEF FlushInv
  <2>2. \A w \in Workers : /\ eventState'[w] # "FlushingTracks"
                           /\ eventState'[w] = "DeviceFlushed" =>
                                eventState[w] \in {"FlushingTracks", "DeviceFlushed"}
    BY <1>3
  <2> QED BY <1>14, <2>1, <2>2 DEF FlushInv
<1> QED BY <1>1, <1>5, <1>6, <1>7, <1>9, <1>10, <1>15, <1>16, <1>17 DEF Transferring
(* An event has no track left when none was in the queues of the kernels.  *)
LEMMA DecideStep ==
  ASSUME Inv, Decide PROVE Inv'
<1> USE DEF Inv, Decide, PassEnds, kernelVars, historyVars, threadVars, extractVars, stagingVars
<1>1. \A w \in Workers :
        \/ eventState'[w] = eventState[w]
        \/ /\ eventState[w] = "WaitingForTransportToFinish" /\ eventState'[w] = "RequestHitFlush"
           /\ currentlyActive \cap Of(w) = {}
  <2> SUFFICES ASSUME NEW w \in Workers
               PROVE  CountCurrentPopulation(w) = 0 => currentlyActive \cap Of(w) = {}
    OBVIOUS
  <2>1. IsFiniteSet(currentlyActive \cap Of(w))
    BY LeakExtractionAssumption, FS_Subset DEF TypeInv
  <2> QED BY <2>1, FS_EmptySet DEF CountCurrentPopulation
<1>2. eventState' \in [Workers -> EventStates]
  BY DEF TypeInv, EventStates
<1>3. TypeInv'
  BY <1>2 DEF TypeInv
<1>4. \A t \in nextActive \cup todo : eventState'[t[1]] \in Active
  <2> SUFFICES ASSUME NEW t \in nextActive \cup todo PROVE eventState'[t[1]] \in Active
    OBVIOUS
  <2>1. /\ t \in Tracks /\ t[1] \in Workers /\ t \in Of(t[1]) /\ eventState[t[1]] \in Active
        /\ t \in currentlyActive \/ eventState[t[1]] = "InjectionCompleted"
    BY LeakExtractionAssumption DEF KernelInv, TypeInv, Of
  <2> QED BY <1>1, <2>1
<1>5. KernelInv'
  <2>1. \A t \in nextActive : t[1] \in Workers
    BY LeakExtractionAssumption DEF TypeInv
  <2> QED BY <1>1, <1>4, <2>1 DEF KernelInv, Of
<1>6. QueuesInUse' /\ StreamInv' /\ ExtractedInv'
  BY DEF QueuesInUse, StreamInv, ExtractedInv
<1>7. NumSaved' = NumSaved
  BY DEF NumSaved
<1>8. \A q \in {0, 1} : Live(q)' = Live(q) /\ Leaks(q)' = Leaks(q) /\ Unsaved(q)' = Unsaved(q)
  BY <1>7, UnsavedFrame
<1>9. extractState' \in Transferring => StagingInv(Leaks(allLeaked))'
  BY <1>8 DEF StagingInv, WindowOf, TypeInv
<1>10. EntriesAreDistinct' /\ Accounting'
  BY <1>8, EntriesFrame, AccountingFrame
<1>11. FlushInv'
  BY <1>1, <1>8 DEF FlushInv, TypeInv
<1> QED BY <1>3, <1>5, <1>6, <1>9, <1>10, <1>11

(* When no event is in flight there is no leak to lose.                    *)
LEMMA EndLoopStep ==
  ASSUME Inv, EndTransportLoop PROVE Inv'
<1> USE DEF Inv, EndTransportLoop, kernelVars, historyVars, threadVars, extractVars, stagingVars
<1>1. /\ extractState = "Idle" /\ \A w \in Workers : eventState[w] = "LeakedTracksRetrieved"
  BY DEF LoopContinues, NeedsTransport
<1>2. leaked = {}
  BY <1>1, LeakExtractionAssumption DEF KernelInv, TypeInv, Of
<1>3. TypeInv'
  BY DEF TypeInv, Empty, Nothing
<1>4. KernelInv' /\ QueuesInUse' /\ StreamInv'
  BY DEF KernelInv, QueuesInUse, StreamInv
<1>5. ExtractedInv'
  BY DEF ExtractedInv, Empty, Nothing, TypeInv
<1>6. \A q \in {0, 1} : Unsaved(q)' = {} /\ Unsaved(q) = Live(q)
  BY <1>1 DEF Unsaved, Live, Empty, Transferring
<1>7. Unsaved(0) = {} /\ Unsaved(1) = {}
  BY <1>2 DEF Accounting
<1>8. Accounting'
  BY <1>6, <1>7, AccountingFrame
<1>9. EntriesAreDistinct'
  BY DEF EntriesAreDistinct, Empty
<1>10. FlushInv'
  BY <1>1 DEF FlushInv
<1> QED BY <1>1, <1>3, <1>4, <1>5, <1>8, <1>9, <1>10 DEF Transferring
-----------------------------------------------------------------------------
(* extractStream.  The queues have been cleared when an extraction begins. *)
LEMMA FinishedStep ==
  ASSUME Inv, TransportHasFinished PROVE Inv'
<1> USE DEF Inv, kernelVars, historyVars, threadVars, extractVars, stagingVars
<1>1. /\ UNCHANGED <<eventState, kernelVars, current, counting, nLeakedCurrent, threadVars,
                     extractVars, leakQueue, stagingVars, fromDeviceBuffers, historyVars>>
      /\ extractState = "ExtractionRequested" /\ extractState' = "TracksNeedTransfer"
      /\ transportEvents = 0 /\ extractStream[1][1] = "request"
      /\ extractStream' = Tail(extractStream)
  BY DEF TransportHasFinished, StreamOp, AdvanceExtractState
<1>2. extractStream = << <<"request">> >>
  BY <1>1 DEF StreamInv
<1>3. extractStream' = <<>>
  BY <1>1, <1>2
<1>4. \A q \in {0, 1} : extracted[q] = Nothing
  BY <1>2 DEF ExtractedInv
<1>5. TypeInv' /\ KernelInv'
  BY <1>1 DEF TypeInv, KernelInv, ExtractStates, Transferring
<1>6. QueuesInUse' /\ StreamInv'
  BY <1>1, <1>3 DEF QueuesInUse, StreamInv
<1>7. ExtractedInv'
  BY <1>1, <1>4 DEF ExtractedInv
<1>8. \A q \in {0, 1} : Live(q)' = Live(q) /\ Leaks(q)' = Leaks(q)
  BY <1>1 DEF Live, IsLive, Leaks
<1>9. NumSaved' = 0 /\ fNumLeaksTransferred = 0
  BY <1>1 DEF NumSaved, QueuesInUse, TypeInv
<1>10. \A q \in {0, 1} : Unsaved(q)' = Live(q) /\ Unsaved(q) = Live(q)
  BY <1>1, <1>4, <1>8, <1>9, LeaksAreLive DEF Unsaved, Transferring
<1>11. StagingInv(Leaks(allLeaked))'
  <2>1. Len(Leaks(allLeaked)) \in Nat
    BY LeaksAreEntries DEF TypeInv
  <2> QED BY <1>1, <1>8, <1>9, <2>1 DEF StagingInv, TypeInv
<1>12. EntriesAreDistinct' /\ Accounting'
  BY <1>1, <1>10, EntriesFrame, AccountingFrame
<1>13. FlushInv'
  BY <1>1, <1>8, <1>10 DEF FlushInv, TypeInv
<1> QED BY <1>5, <1>6, <1>7, <1>11, <1>12, <1>13
LEMMA FillStep ==
  ASSUME Inv, FillFromDeviceBuffer PROVE Inv'
<1> USE DEF Inv, kernelVars, historyVars, threadVars, extractVars
<1> DEFINE L == Leaks(allLeaked)
           n == fNumLeaksTransferred
           m == NumToCopy(Len(L) - n)
<1>1. /\ UNCHANGED <<eventState, kernelVars, current, counting, nLeakedCurrent, threadVars,
                     extractVars, leakQueue, fromDevice_host, fromDeviceBuffers, historyVars>>
      /\ extractState = "PreparingTracks" /\ extractState' = "TracksReadyToCopy"
      /\ extractStream' = Tail(extractStream)
      /\ fromDevice_dev' = SubSeq(L, n + 1, n + m) /\ nRemainingLeaks' = Len(L) - n - m
  BY DEF FillFromDeviceBuffer, StreamOp, AdvanceExtractState, Staged, Remaining
<1>2. extractStream = << <<"fill">> >> /\ extractStream' = <<>>
  <2>1. extractStream = << <<"fill">> >>
    BY <1>1 DEF StreamInv
  <2> QED BY <1>1, <2>1
<1>3. L \in Seq(Tracks) /\ Len(L) \in Nat /\ n \in Nat /\ n <= Len(L)
  BY <1>1, LeaksAreEntries DEF TypeInv, StagingInv, Transferring
<1>4. NumSaved = n /\ NumSaved' = n /\ fNumLeaksTransferred' = n
  BY <1>1, <1>3 DEF NumSaved
<1>5. \A q \in {0, 1} : Live(q)' = Live(q) /\ Leaks(q)' = Leaks(q) /\ Unsaved(q)' = Unsaved(q)
  BY <1>1, <1>4, UnsavedFrame DEF Transferring
<1>6. L' = L
  BY <1>1, <1>5 DEF TypeInv
<1>7. m \in 0 .. Len(L) - n
  <2>1. \A total \in Nat : NumToCopy(total) \in 0 .. total
    BY LeakExtractionAssumption DEF NumToCopy
  <2>2. Len(L) - n \in Nat
    BY <1>3
  <2> QED BY <2>1, <2>2
<1> HIDE DEF L, m, n
<1>8. /\ fromDevice_dev' \in Seq(Tracks) /\ Len(fromDevice_dev') = m
      /\ \A i \in 1 .. m : fromDevice_dev'[i] = L[n + i]
  <2> DEFINE from == n + 1  to == n + m  staged == SubSeq(L, from, to)
  <2>1. /\ from \in Int /\ to \in Int /\ (to - from) + 1 = m /\ m \in Nat
        /\ from <= to \/ m = 0
        /\ \A i \in from .. to : i \in 1 .. Len(L)
        /\ \A i \in 1 .. m : n + i = (from + i) - 1
    BY <1>3, <1>7
  <2>2. \A i \in from .. to : L[i] \in Tracks
    BY <1>3, <2>1
  <2> HIDE DEF from, to
  <2>3. /\ staged \in Seq(Tracks)
        /\ Len(staged) = IF from <= to THEN (to - from) + 1 ELSE 0
        /\ \A i \in 1 .. (to - from) + 1 : staged[i] = L[(from + i) - 1]
    BY <2>1, <2>2, SubSeqProperties
  <2>4. fromDevice_dev' = staged
    BY <1>1 DEF from, to
  <2> QED BY <2>1, <2>3, <2>4
<1>9. TypeInv' /\ KernelInv'
  BY <1>1, <1>8 DEF TypeInv, KernelInv, ExtractStates, Transferring
<1>10. QueuesInUse' /\ StreamInv' /\ ExtractedInv'
  BY <1>1, <1>2 DEF QueuesInUse, StreamInv, ExtractedInv
<1>11. StagingInv(L)'
  <2>1. WindowOf(L, fromDevice_dev', n)
    BY <1>3, <1>7, <1>8 DEF WindowOf
  <2> QED BY <1>1, <1>3, <1>4, <1>6, <1>8, <2>1 DEF StagingInv, WindowOf
<1>12. EntriesAreDistinct' /\ Accounting'
  BY <1>1, <1>5, EntriesFrame, AccountingFrame
<1>13. FlushInv'
  BY <1>1, <1>5 DEF FlushInv, TypeInv
<1> QED BY <1>9, <1>10, <1>11, <1>12, <1>13 DEF L

LEMMA CopyStep ==
  ASSUME Inv, CopyToHost PROVE Inv'
<1> USE DEF Inv, kernelVars, historyVars, threadVars, extractVars
<1> DEFINE L == Leaks(allLeaked)
<1>1. /\ UNCHANGED <<eventState, kernelVars, current, counting, nLeakedCurrent, threadVars,
                     extractVars, leakQueue, nRemainingLeaks, fromDeviceBuffers, historyVars>>
      /\ extractState = "CopyingTracks" /\ extractState' = "TracksOnHost"
      /\ extractStream' = Tail(extractStream)
      /\ fromDevice_host' = fromDevice_dev /\ fromDevice_dev' = <<>>
  BY DEF CopyToHost, StreamOp, AdvanceExtractState
<1>2. extractStream = << <<"copy">> >> /\ extractStream' = <<>>
  <2>1. extractStream = << <<"copy">> >>
    BY <1>1 DEF StreamInv
  <2> QED BY <1>1, <2>1
<1>3. NumSaved' = NumSaved
  <2>1. NumSaved = fNumLeaksTransferred - 0 /\ NumSaved' = fNumLeaksTransferred' - 0
    BY <1>1 DEF NumSaved
  <2> QED BY <1>1, <2>1
<1>4. \A q \in {0, 1} : Live(q)' = Live(q) /\ Leaks(q)' = Leaks(q) /\ Unsaved(q)' = Unsaved(q)
  BY <1>1, <1>3, UnsavedFrame DEF Transferring
<1>5. L' = L /\ StagingInv(L)
  BY <1>1, <1>4 DEF TypeInv, Transferring
<1>6. TypeInv' /\ KernelInv'
  BY <1>1 DEF TypeInv, KernelInv, ExtractStates, Transferring
<1>7. QueuesInUse' /\ StreamInv' /\ ExtractedInv'
  BY <1>1, <1>2 DEF QueuesInUse, StreamInv, ExtractedInv
<1> HIDE DEF L
<1>8. StagingInv(L)'
  BY <1>1, <1>5 DEF StagingInv, WindowOf
<1>9. EntriesAreDistinct' /\ Accounting'
  BY <1>1, <1>4, EntriesFrame, AccountingFrame
<1>10. FlushInv'
  BY <1>1, <1>4 DEF FlushInv, TypeInv
<1> QED BY <1>6, <1>7, <1>8, <1>9, <1>10 DEF L

(* A track that the staging buffer holds once is returned once.            *)
LEMMA CopiesAreSingle ==
  ASSUME NEW s \in Seq(Tracks), NEW t, \A i, j \in 1 .. Len(s) : s[i] = s[j] => i = j
  PROVE  Copies(s, t) = IF \E i \in 1 .. Len(s) : s[i] = t THEN 1 ELSE 0
<1>1. DOMAIN s = 1 .. Len(s)
  OBVIOUS
<1>2. CASE \E i \in 1 .. Len(s) : s[i] = t
  <2>1. PICK i \in 1 .. Len(s) : s[i] = t
    BY <1>2
  <2>2. {j \in DOMAIN s : s[j] = t} = {i}
    BY <1>1, <2>1
  <2> QED BY <1>2, <2>2, FS_Singleton DEF Copies
<1>3. CASE ~\E i \in 1 .. Len(s) : s[i] = t
  <2>1. {j \in DOMAIN s : s[j] = t} = {}
    BY <1>1, <1>3
  <2> QED BY <1>3, <2>1, FS_EmptySet DEF Copies
<1> QED BY <1>2, <1>3
(* What is returned is what was unsaved, and nobody has it yet.            *)
LEMMA ReturnStep ==
  ASSUME Inv, ReturnTracksToG4 PROVE Inv'
<1> USE DEF Inv, kernelVars, historyVars, threadVars, extractVars
<1> DEFINE L == Leaks(allLeaked)
           n == fNumLeaksTransferred
           s == fromDevice_host
           k == Len(s)
           Saved == {t \in Tracks : \E i \in 1 .. k : s[i] = t}
<1>1. /\ UNCHANGED <<eventState, kernelVars, current, counting, nLeakedCurrent, threadVars,
                     extractVars, leakQueue, fromDevice_dev, nRemainingLeaks, historyVars>>
      /\ extractState = "SavingTracks" /\ extractState' = "TracksSaved"
      /\ extractStream' = Tail(extractStream) /\ fromDevice_host' = <<>>
      /\ fromDeviceBuffers' = [w \in Workers |-> [t \in Tracks |->
           fromDeviceBuffers[w][t] + IF t[1] = w THEN Copies(fromDevice_host, t) ELSE 0]]
  BY DEF ReturnTracksToG4, StreamOp, AdvanceExtractState
<1>2. extractStream = << <<"save">> >> /\ extractStream' = <<>>
  <2>1. extractStream = << <<"save">> >>
    BY <1>1 DEF StreamInv
  <2> QED BY <1>1, <2>1
<1>3. /\ L \in Seq(Tracks) /\ Len(L) \in Nat /\ n \in Nat /\ n <= Len(L)
      /\ s \in Seq(Tracks) /\ k \in 0 .. n
      /\ \A i \in 1 .. k : s[i] = L[(n - k) + i]
      /\ nRemainingLeaks = Len(L) - n
  BY <1>1, LeaksAreEntries DEF TypeInv, StagingInv, WindowOf, Transferring
<1>4. \A i, j \in 1 .. Len(L) : L[i] = L[j] => i = j
  <2>1. extracted[allLeaked] = Nothing /\ allLeaked \in {0, 1}
    BY <1>2 DEF ExtractedInv, TypeInv
  <2> QED BY <2>1, LeaksAreEntries
<1>5. NumSaved = n - k /\ NumSaved' = n
  <2>1. NumSaved = n - k /\ NumSaved' = n - 0
    BY <1>1 DEF NumSaved
  <2> QED BY <1>3, <2>1
<1>6. \A q \in {0, 1} : Live(q)' = Live(q) /\ Leaks(q)' = Leaks(q)
  BY <1>1 DEF Live, IsLive, Leaks
<1>7. L' = L /\ fNumLeaksTransferred' = n
  BY <1>1, <1>6 DEF TypeInv
<1>8. \A q \in {0, 1} :
        IF q = allLeaked
        THEN /\ Unsaved(q) = {t \in Tracks : \E i \in 1 .. Len(L) : i > n - k /\ L[i] = t}
             /\ Unsaved(q)' = {t \in Tracks : \E i \in 1 .. Len(L) : i > n /\ L[i] = t}
        ELSE Unsaved(q)' = Unsaved(q)
  BY <1>1, <1>5, <1>6 DEF Unsaved, Transferring
<1> HIDE DEF L, n, s, k
<1>9. \A i \in 1 .. k : (n - k) + i \in 1 .. Len(L) /\ (n - k) + i > n - k /\ (n - k) + i <= n
  BY <1>3
<1>10. \A i, j \in 1 .. k : s[i] = s[j] => i = j
  <2> SUFFICES ASSUME NEW i \in 1 .. k, NEW j \in 1 .. k, s[i] = s[j] PROVE i = j
    OBVIOUS
  <2>1. (n - k) + i = (n - k) + j
    BY <1>3, <1>4, <1>9
  <2> QED BY <1>3, <2>1
<1>11. \A q \in {0, 1} : q = allLeaked =>
         Unsaved(q) = Saved \cup Unsaved(q)' /\ Saved \cap Unsaved(q)' = {}
  <2> SUFFICES ASSUME NEW q \in {0, 1}, q = allLeaked
               PROVE  Unsaved(q) = Saved \cup Unsaved(q)' /\ Saved \cap Unsaved(q)' = {}
    OBVIOUS
  <2>1. Saved \subseteq Unsaved(q)
    BY <1>3, <1>8, <1>9
  <2>2. Unsaved(q)' \subseteq Unsaved(q)
    BY <1>3, <1>8
  <2>3. ASSUME NEW t \in Unsaved(q), t \notin Unsaved(q)' PROVE t \in Saved
    <3>1. PICK i \in 1 .. Len(L) : i > n - k /\ L[i] = t
      BY <1>8
    <3>2. i <= n /\ t \in Tracks
      BY <1>3, <1>8, <2>3, <3>1
    <3>3. i - (n - k) \in 1 .. k /\ (n - k) + (i - (n - k)) = i
      BY <1>3, <3>1, <3>2
    <3>4. s[i - (n - k)] = t
      BY <1>3, <3>1, <3>3
    <3> QED BY <3>2, <3>3, <3>4
  <2>4. ASSUME NEW t \in Saved PROVE t \notin Unsaved(q)'
    <3>1. PICK i \in 1 .. k : s[i] = t
      OBVIOUS
    <3>2. L[(n - k) + i] = t
      BY <1>3, <3>1
    <3>3. (n - k) + i \in 1 .. Len(L) /\ (n - k) + i <= n
      BY <1>9
    <3>4. \A j \in 1 .. Len(L) : L[j] = t => j = (n - k) + i
      BY <1>4, <3>2, <3>3
    <3>5. \A j \in 1 .. Len(L) : L[j] = t => ~(j > n)
      BY <1>3, <3>3, <3>4
    <3> QED BY <1>8, <3>5
  <2> QED BY <2>1, <2>2, <2>3, <2>4
<1>12. \A t \in Tracks : Copies(s, t) = IF t \in Saved THEN 1 ELSE 0
  BY <1>3, <1>10, CopiesAreSingle DEF k
<1> HIDE DEF Saved
<1>13. \A w \in Workers, t \in Tracks :
         fromDeviceBuffers'[w][t] =
           fromDeviceBuffers[w][t] + IF t[1] = w /\ t \in Saved THEN 1 ELSE 0
  BY <1>1, <1>12 DEF s
<1>14. fromDeviceBuffers' \in [Workers -> [Tracks -> Nat]]
  <2>1. \A w \in Workers, t \in Tracks :
          fromDeviceBuffers[w][t] + (IF t[1] = w THEN Copies(s, t) ELSE 0) \in Nat
    BY <1>12 DEF TypeInv
  <2> QED BY <1>1, <2>1 DEF s
<1>15. Saved \subseteq Unsaved(0) \cup Unsaved(1)
  BY <1>11 DEF TypeInv
<1>16. AllReturned' = AllReturned \cup Saved
  <2>1. \A t \in Tracks : t[1] \in Workers /\ fromDeviceBuffers[t[1]][t] \in Nat
    BY LeakExtractionAssumption DEF TypeInv
  <2>2. Saved \subseteq Tracks
    BY DEF Saved
  <2>3. \A t \in Tracks : fromDeviceBuffers'[t[1]][t] =
                            fromDeviceBuffers[t[1]][t] + IF t \in Saved THEN 1 ELSE 0
    BY <1>13, <2>1
  <2> QED BY <2>1, <2>2, <2>3 DEF AllReturned
<1>17. \A w \in Workers, t \in Tracks :
         fromDeviceBuffers'[w][t] <= 1 /\ (fromDeviceBuffers'[w][t] # 0 => t[1] = w)
  <2> SUFFICES ASSUME NEW w \in Workers, NEW t \in Tracks
               PROVE  fromDeviceBuffers'[w][t] <= 1 /\ (fromDeviceBuffers'[w][t] # 0 => t[1] = w)
    OBVIOUS
  <2>1. fromDeviceBuffers[w][t] \in {0, 1} /\ (fromDeviceBuffers[w][t] # 0 => t[1] = w)
    BY DEF TypeInv, Accounting
  <2>2. t[1] = w /\ t \in Saved => fromDeviceBuffers[w][t] = 0
    BY <1>15 DEF Accounting, AllReturned
  <2> QED BY <1>13, <2>1, <2>2
<1>18. Accounting'
  <2>1. leaked' = leaked /\ wiped' = wiped
    BY <1>1
  <2>2. /\ Unsaved(0) \cup Unsaved(1) = Saved \cup Unsaved(0)' \cup Unsaved(1)'
        /\ Saved \cap (Unsaved(0)' \cup Unsaved(1)') = {}
        /\ Unsaved(0)' \subseteq Unsaved(0) /\ Unsaved(1)' \subseteq Unsaved(1)
    <3>1. CASE allLeaked = 0
      <4>1. /\ Unsaved(0) = Saved \cup Unsaved(0)' /\ Saved \cap Unsaved(0)' = {}
            /\ Unsaved(1)' = Unsaved(1)
        BY <1>8, <1>11, <3>1
      <4>2. Unsaved(0) \cap Unsaved(1) = {}
        BY DEF Accounting
      <4> QED BY <4>1, <4>2
    <3>2. CASE allLeaked = 1
      <4>1. /\ Unsaved(1) = Saved \cup Unsaved(1)' /\ Saved \cap Unsaved(1)' = {}
            /\ Unsaved(0)' = Unsaved(0)
        BY <1>8, <1>11, <3>2
      <4>2. Unsaved(0) \cap Unsaved(1) = {}
        BY DEF Accounting
      <4> QED BY <4>1, <4>2
    <3> QED BY <3>1, <3>2 DEF TypeInv
  <2>3. /\ leaked = AllReturned \cup wiped \cup Unsaved(0) \cup Unsaved(1)
        /\ AllReturned \cap wiped = {} /\ Unsaved(0) \cap Unsaved(1) = {}
        /\ (AllReturned \cup wiped) \cap (Unsaved(0) \cup Unsaved(1)) = {}
    BY DEF Accounting
  <2>4. /\ leaked' = AllReturned' \cup wiped' \cup Unsaved(0)' \cup Unsaved(1)'
        /\ AllReturned' \cap wiped' = {} /\ Unsaved(0)' \cap Unsaved(1)' = {}
        /\ (AllReturned' \cup wiped') \cap (Unsaved(0)' \cup Unsaved(1)') = {}
    BY <1>16, <2>1, <2>2, <2>3
  <2> QED BY <1>17, <2>4 DEF Accounting
<1>19. TypeInv' /\ KernelInv'
  BY <1>1, <1>14 DEF TypeInv, KernelInv, ExtractStates, Transferring
<1>20. QueuesInUse' /\ StreamInv' /\ ExtractedInv'
  BY <1>1, <1>2 DEF QueuesInUse, StreamInv, ExtractedInv
<1>21. StagingInv(L)'
  BY <1>1, <1>3, <1>7 DEF StagingInv
<1>22. EntriesAreDistinct'
  BY <1>1, EntriesFrame
<1>23. FlushInv'
  <2>1. \A q \in {0, 1} : Unsaved(q)' \subseteq Unsaved(q)
    BY <1>8, <1>11
  <2> QED BY <1>1, <1>6, <2>1 DEF FlushInv, TypeInv
<1> QED BY <1>18, <1>19, <1>20, <1>21, <1>22, <1>23 DEF L
(* Only queues are cleared that no leak is to be extracted from: what they *)
(* still hold came late.                                                   *)
LEMMA ClearStep ==
  ASSUME Inv, ClearQueues PROVE Inv'
<1> USE DEF Inv, kernelVars, historyVars, threadVars, extractVars, stagingVars
<1> DEFINE q == extractStream[1][2]
           lost(type) ==
             SubSeq(leakQueue[q][type], extracted[q][type] + 1, Len(leakQueue[q][type]))
<1>1. /\ UNCHANGED <<eventState, kernelVars, current, counting, nLeakedCurrent, threadVars,
                     extractVars, stagingVars, fromDeviceBuffers, extractState>>
      /\ extractStream # <<>> /\ extractStream[1][1] = "clear"
      /\ extractStream' = Tail(extractStream)
      /\ wiped' = wiped \cup UNION {ToSet(lost(type)) : type \in Types}
      /\ leakQueue' = [leakQueue EXCEPT ![q] = Empty]
      /\ extracted' = [extracted EXCEPT ![q] = Nothing]
  BY DEF ClearQueues, StreamOp
<1>2. \/ /\ extractState = "Idle" /\ extractStream = << <<"clear", 1 - current>> >>
         /\ q = 1 - current /\ extractStream[1] = <<"clear", q>>
      \/ /\ extractState = "ExtractionRequested" /\ q = current
         /\ extractStream = << <<"clear", current>>, <<"request">> >>
         /\ extractStream[1] = <<"clear", q>>
  <2>1. /\ extractStream # <<>> /\ extractStream # << <<"fill">> >>
        /\ extractStream # << <<"copy">> >> /\ extractStream # << <<"save">> >>
        /\ extractStream # << <<"request">> >>
    BY <1>1
  <2>2. \/ extractState = "Idle" /\ extractStream = << <<"clear", 1 - current>> >>
        \/ /\ extractState = "ExtractionRequested"
           /\ extractStream = << <<"clear", current>>, <<"request">> >>
    BY <2>1 DEF StreamInv
  <2> QED BY <2>2
<1>3. q \in {0, 1} /\ extractStream[1] = <<"clear", q>> /\ extractState \notin Transferring
  BY <1>2 DEF TypeInv, Transferring
<1>4. StreamInv'
  <2>1. CASE extractState = "Idle"
    <3>0. extractStream = << <<"clear", 1 - current>> >>
      BY <1>2, <2>1
    <3>1. extractStream' = <<>>
      BY <1>1, <3>0
    <3> QED BY <1>1, <2>1, <3>1 DEF StreamInv
  <2>2. CASE extractState # "Idle"
    <3> DEFINE c == <<"clear", current>>  r == <<"request">>
    <3>1. extractStream = <<c, r>> /\ extractState = "ExtractionRequested"
      BY <1>2, <2>2
    <3> HIDE DEF c, r
    <3>2. extractStream' = <<r>>
      BY <1>1, <3>1
    <3>3. extractStream' = << <<"request">> >>
      BY <3>2 DEF r
    <3> QED BY <1>1, <3>1, <3>3 DEF StreamInv
  <2> QED BY <2>1, <2>2
<1>5. \A p \in {0, 1} : p # q =>
        leakQueue'[p] = leakQueue[p] /\ extracted'[p] = extracted[p] /\ extracted[p] = Nothing
  BY <1>1, <1>3 DEF TypeInv, ExtractedInv
<1>6. leakQueue'[q] = Empty /\ extracted'[q] = Nothing
  BY <1>1, <1>3 DEF TypeInv
<1>7. \A type \in Types : ToSet(lost(type)) =
        {t \in Tracks : \E i \in 1 .. Len(leakQueue[q][type]) :
                          IsLive(q, type, i) /\ leakQueue[q][type][i] = t}
  <2> SUFFICES ASSUME NEW type \in Types
               PROVE  ToSet(lost(type)) =
                 {t \in Tracks : \E i \in 1 .. Len(leakQueue[q][type]) :
                                   IsLive(q, type, i) /\ leakQueue[q][type][i] = t}
    OBVIOUS
  <2> DEFINE s == leakQueue[q][type]  e == extracted[q][type]  from == e + 1  to == Len(s)
             l == SubSeq(s, from, to)
  <2>1. s \in Seq(Tracks) /\ Len(s) \in Nat /\ e \in Nat /\ e <= Len(s)
    BY <1>3 DEF TypeInv, ExtractedInv
  <2>2. lost(type) = l
    OBVIOUS
  <2>3. \A i \in 1 .. Len(s) : IsLive(q, type, i) <=> i > e
    BY DEF IsLive
  <2> HIDE DEF s, e
  <2>4. /\ from \in Int /\ to \in Int /\ (to - from) + 1 = Len(s) - e
        /\ \A i \in from .. to : i \in 1 .. Len(s)
        /\ \A i \in 1 .. Len(s) - e : e + i = (from + i) - 1
        /\ from <= to \/ Len(s) - e = 0
        /\ Len(s) - e \in Nat
    BY <2>1
  <2> HIDE DEF from, to
  <2>5. \A i \in from .. to : s[i] \in Tracks
    <3>1. \A i \in 1 .. Len(s) : s[i] \in Tracks
      BY <2>1
    <3> QED BY <2>4, <3>1
  <2>6. /\ l \in Seq(Tracks) /\ Len(l) = IF from <= to THEN (to - from) + 1 ELSE 0
        /\ \A i \in 1 .. (to - from) + 1 : l[i] = s[(from + i) - 1]
    BY <2>4, <2>5, SubSeqProperties
  <2>7. DOMAIN l = 1 .. Len(s) - e /\ \A i \in 1 .. Len(s) - e : l[i] = s[e + i]
    BY <2>4, <2>6
  <2> HIDE DEF l
  <2>8. ASSUME NEW i \in 1 .. Len(s) - e
        PROVE  l[i] \in Tracks /\ \E j \in 1 .. Len(s) : j > e /\ s[j] = l[i]
    <3>1. e + i \in 1 .. Len(s) /\ e + i > e
      BY <2>1, <2>8
    <3> QED BY <2>1, <2>7, <3>1
  <2>9. ASSUME NEW j \in 1 .. Len(s), j > e PROVE \E i \in DOMAIN l : l[i] = s[j]
    <3>1. j - e \in 1 .. Len(s) - e /\ e + (j - e) = j
      BY <2>1, <2>9
    <3> QED BY <2>7, <3>1
  <2>10. ToSet(l) = {t \in Tracks : \E i \in 1 .. Len(s) : i > e /\ s[i] = t}
    BY <2>7, <2>8, <2>9 DEF ToSet
  <2> QED BY <2>2, <2>3, <2>10 DEF s
<1>8. wiped' = wiped \cup Live(q)
  <2>1. UNION {ToSet(lost(type)) : type \in Types} = Live(q)
    BY <1>7 DEF Live
  <2> QED BY <1>1, <2>1
<1> HIDE DEF q, lost
<1>9. \A p \in {0, 1} : Unsaved(p) = Live(p) /\ Unsaved(p)' = Live(p)'
  BY <1>1, <1>3 DEF Unsaved
<1>10. \A p \in {0, 1} : Live(p)' = IF p = q THEN {} ELSE Live(p)
  BY <1>5, <1>6 DEF Live, IsLive, Empty
<1>11. TypeInv'
  <2>1. leakQueue' \in [{0, 1} -> [Types -> Seq(Tracks)]]
    BY <1>1, <1>3 DEF TypeInv, Empty
  <2>2. extracted' \in [{0, 1} -> [Types -> Nat]]
    BY <1>1, <1>3 DEF TypeInv, Nothing
  <2>3. wiped' \subseteq Tracks
    BY <1>8 DEF TypeInv, Live
  <2> QED BY <1>1, <2>1, <2>2, <2>3 DEF TypeInv
<1>12. KernelInv' /\ QueuesInUse'
  BY <1>1 DEF KernelInv, QueuesInUse
<1>13. ExtractedInv'
  <2>1. \A p \in {0, 1} : extracted'[p] = Nothing
    BY <1>5, <1>6
  <2>2. \A p \in {0, 1}, type \in Types : Len(leakQueue'[p][type]) \in Nat
    BY <1>11 DEF TypeInv
  <2>3. extractState = "Idle" => \A type \in Types : leakQueue'[1 - current][type] = <<>>
    BY <1>2, <1>6 DEF Empty
  <2> QED BY <1>1, <2>1, <2>2, <2>3 DEF ExtractedInv, Nothing, TypeInv
<1>14. EntriesAreDistinct'
  <2>1. \A p \in {0, 1} : p # q =>
          \A type \in Types : \A i \in 1 .. Len(leakQueue[p][type]) :
            IsLive(p, type, i)' = IsLive(p, type, i)
    BY <1>5 DEF IsLive
  <2>2. \A type \in Types : leakQueue'[q][type] = <<>>
    BY <1>6 DEF Empty
  <2> QED BY <1>5, <2>1, <2>2 DEF EntriesAreDistinct
<1>15. Accounting'
  <2>1. UNCHANGED <<leaked, fromDeviceBuffers>> /\ AllReturned' = AllReturned
    BY <1>1 DEF AllReturned
  <2>2. /\ Unsaved(0) \cup Unsaved(1) = Live(q) \cup Unsaved(0)' \cup Unsaved(1)'
        /\ Live(q) \cap (Unsaved(0)' \cup Unsaved(1)') = {}
        /\ Unsaved(0)' \cap Unsaved(1)' = {}
    <3>1. CASE q = 0
      BY <1>9, <1>10, <3>1 DEF Accounting
    <3>2. CASE q = 1
      BY <1>9, <1>10, <3>2 DEF Accounting
    <3> QED BY <1>3, <3>1, <3>2
  <2>3. /\ leaked = AllReturned \cup wiped \cup Unsaved(0) \cup Unsaved(1)
        /\ AllReturned \cap wiped = {}
        /\ (AllReturned \cup wiped) \cap (Unsaved(0) \cup Unsaved(1)) = {}
    BY DEF Accounting
  <2>4. /\ leaked' = AllReturned' \cup wiped' \cup Unsaved(0)' \cup Unsaved(1)'
        /\ AllReturned' \cap wiped' = {}
        /\ (AllReturned' \cup wiped') \cap (Unsaved(0)' \cup Unsaved(1)') = {}
    BY <1>8, <2>1, <2>2, <2>3
  <2> QED BY <2>1, <2>2, <2>4 DEF Accounting
<1>16. FlushInv'
  <2>1. \A p \in {0, 1} : Live(p)' \subseteq Live(p) /\ Unsaved(p)' \subseteq Unsaved(p)
    BY <1>9, <1>10
  <2>2. Live(current)' \subseteq Live(current)
    BY <1>1, <1>10 DEF TypeInv
  <2> QED BY <1>1, <2>1, <2>2 DEF FlushInv
<1> QED BY <1>1, <1>3, <1>4, <1>11, <1>12, <1>13, <1>14, <1>15, <1>16
-----------------------------------------------------------------------------
(* Device.  The kernels that come first when others have ended use the     *)
(* current queues, once all that extractStream waits for have ended.       *)
LEMMA SteppedInv ==
  ASSUME Inv, NEW t \in todo, NEW survivors, Stepped(t, survivors),
         \/ survivors = nextActive \cup {t} /\ leaked' = leaked
         \/ survivors = nextActive /\ (leaked' = leaked \/ leaked' = leaked \cup {t}),
         UNCHANGED <<eventState, current, tpc, extractState, allLeaked, fNumLeaksTransferred>>
  PROVE  /\ kernels' \in Seq({0, 1}) /\ Len(kernels') <= 2 /\ transportEvents' \in Nat
         /\ nextActive' \subseteq Tracks /\ todo' \subseteq currentlyActive'
         /\ currentlyActive' \subseteq Tracks /\ KernelInv' /\ QueuesInUse'
<1> USE DEF Inv
<1>1. /\ t \in Tracks /\ t \in currentlyActive /\ t[1] \in Workers /\ t \notin nextActive
      /\ eventState[t[1]] \in Active
      /\ kernels \in Seq({0, 1}) /\ Len(kernels) <= 2 /\ kernels # <<>> /\ Len(kernels) \in Nat
      /\ transportEvents \in Nat
  BY LeakExtractionAssumption DEF TypeInv, KernelInv
<1>2. \A w \in Workers : eventState[w] = "LeakedTracksRetrieved" => leaked' \cap Of(w) = {}
  BY <1>1 DEF KernelInv, Of, Active
<1>3. \A x \in survivors : /\ x \in Tracks /\ eventState[x[1]] \in Active /\ x \notin leaked'
                           /\ x \notin todo \ {t}
  BY <1>1 DEF KernelInv, TypeInv
<1>4. \A x \in todo \ {t} : eventState[x[1]] \in Active /\ x \notin leaked'
  BY DEF KernelInv
<1>5. CASE /\ todo # {t} /\ nextActive' = survivors /\ todo' = todo \ {t}
           /\ UNCHANGED <<kernels, currentlyActive, transportEvents>>
  <2>1. KernelInv'
    <3>1. Len(kernels) <= 1 =>
            \A x \in survivors : x \in currentlyActive \/ eventState[x[1]] = "InjectionCompleted"
      BY <1>1 DEF KernelInv
    <3> QED BY <1>1, <1>2, <1>3, <1>4, <1>5, <3>1 DEF KernelInv
  <2>2. QueuesInUse'
    BY <1>5 DEF QueuesInUse
  <2> QED BY <1>1, <1>3, <1>5, <2>1, <2>2 DEF TypeInv
<1>6. CASE /\ todo = {t} /\ transportEvents' = 0
           /\ Len(kernels) = 1 /\ kernels' = <<>>
           /\ nextActive' = survivors /\ todo' = {} /\ UNCHANGED currentlyActive
  <2>1. KernelInv'
    <3>1. \A x \in survivors : x \in currentlyActive \/ eventState[x[1]] = "InjectionCompleted"
      BY <1>1, <1>6 DEF KernelInv
    <3> QED BY <1>2, <1>3, <1>6, <3>1 DEF KernelInv
  <2>2. QueuesInUse'
    BY <1>6 DEF QueuesInUse
  <2> QED BY <1>1, <1>3, <1>6, <2>1, <2>2 DEF TypeInv
<1>7. CASE /\ todo = {t} /\ Len(kernels) > 1 /\ StartKernels(Tail(kernels), survivors)
           /\ transportEvents' = IF kernels' = <<>> \/ transportEvents = 0 THEN 0
                                 ELSE transportEvents - 1
  <2>1. /\ kernels' = IF survivors = {} THEN <<>> ELSE Tail(kernels)
        /\ nextActive' = {} /\ currentlyActive' = survivors /\ todo' = survivors
    BY <1>7 DEF StartKernels
  <2>2. /\ Tail(kernels) \in Seq({0, 1}) /\ Len(Tail(kernels)) = 1 /\ Tail(kernels) # <<>>
        /\ Tail(kernels)[1] = kernels[2] /\ 2 \in 1 .. Len(kernels)
    <3> DEFINE Sets == {0, 1}
    <3>1. kernels \in Seq(Sets) /\ kernels # <<>>
      BY <1>1
    <3>2. Len(kernels) \in Nat /\ Len(kernels) <= 2 /\ Len(kernels) > 1
      BY <1>1, <1>7
    <3>3. Len(kernels) = 2
      <4>1. \A n \in Nat : n <= 2 /\ n > 1 => n = 2
        OBVIOUS
      <4> QED BY <3>2, <4>1
    <3> HIDE DEF Sets
    <3>4. /\ Tail(kernels) \in Seq(Sets) /\ Len(Tail(kernels)) = Len(kernels) - 1
          /\ \A i \in 1 .. Len(Tail(kernels)) : Tail(kernels)[i] = kernels[i + 1]
      BY <3>1, HeadTailProperties
    <3>5. /\ Tail(kernels) \in Seq(Sets) /\ Len(Tail(kernels)) = 1 /\ Tail(kernels)[1] = kernels[2]
          /\ 2 \in 1 .. Len(kernels)
      BY <3>3, <3>4
    <3>6. Tail(kernels) # <<>>
      BY ONLY <3>5
    <3> QED BY <3>5, <3>6 DEF Sets
  <2>3. kernels' \in Seq({0, 1}) /\ Len(kernels') <= 1
    <3>1. CASE survivors = {}
      BY <2>1, <3>1
    <3>2. CASE survivors # {}
      BY <2>1, <2>2, <3>2
    <3> QED BY <3>1, <3>2
  <2>4. transportEvents' \in Nat /\ (transportEvents = 0 => transportEvents' = 0)
    BY <1>1, <1>7
  <2>5. KernelInv'
    <3>1. kernels' = <<>> => survivors = {}
      BY <2>1, <2>2
    <3>2. \A x \in todo' : eventState'[x[1]] \in Active /\ x \notin leaked'
      BY <1>3, <2>1
    <3>3. tpc' = "launch" => Len(kernels') <= 1
      BY <2>3
    <3> QED BY <1>2, <2>1, <3>1, <3>2, <3>3 DEF KernelInv
  <2>6. \A i \in 1 .. Len(kernels') : i > transportEvents' => kernels'[i] = current'
    <3>1. CASE kernels' = <<>>
      BY <3>1
    <3>2. CASE kernels' # <<>>
      <4>1. kernels' = Tail(kernels)
        BY <2>1, <3>2
      <4>2. \A i \in 1 .. Len(kernels') : i = 1 /\ kernels'[i] = kernels[2]
        BY <2>2, <4>1
      <4>3. 1 > transportEvents' => 2 > transportEvents
        BY <1>1, <1>7, <3>2
      <4> QED BY <2>2, <4>2, <4>3 DEF QueuesInUse
    <3> QED BY <3>1, <3>2
  <2>7. QueuesInUse'
    BY <2>4, <2>6 DEF QueuesInUse
  <2> QED BY <1>3, <2>1, <2>3, <2>4, <2>5, <2>7
<1> QED BY <1>5, <1>6, <1>7 DEF Stepped

LEMMA TrackStaysInv ==
  ASSUME Inv, NEW t \in todo,
         Stepped(t, nextActive \cup {t}) \/ Stepped(t, nextActive),
         UNCHANGED <<leakQueue, trapped, leaked>>,
         UNCHANGED <<eventState, current, counting, nLeakedCurrent, threadVars, extractState,
                     allLeaked, fNumLeaksTransferred, extractStream, stagingVars,
                     fromDeviceBuffers, historyVars>>
  PROVE  Inv'
<1> USE DEF Inv, historyVars, threadVars, stagingVars
<1>1. /\ kernels' \in Seq({0, 1}) /\ Len(kernels') <= 2 /\ transportEvents' \in Nat
      /\ nextActive' \subseteq Tracks /\ todo' \subseteq currentlyActive'
      /\ currentlyActive' \subseteq Tracks /\ KernelInv' /\ QueuesInUse'
  <2>1. CASE Stepped(t, nextActive \cup {t})
    BY <2>1, SteppedInv
  <2>2. CASE Stepped(t, nextActive)
    BY <2>2, SteppedInv
  <2> QED BY <2>1, <2>2
<1>2. TypeInv'
  BY <1>1 DEF TypeInv
<1>3. StreamInv' /\ ExtractedInv'
  BY DEF StreamInv, ExtractedInv
<1>4. NumSaved' = NumSaved
  BY DEF NumSaved
<1>5. \A q \in {0, 1} : Live(q)' = Live(q) /\ Leaks(q)' = Leaks(q) /\ Unsaved(q)' = Unsaved(q)
  BY <1>4, UnsavedFrame
<1>6. extractState' \in Transferring => StagingInv(Leaks(allLeaked))'
  BY <1>5 DEF StagingInv, WindowOf, TypeInv
<1>7. EntriesAreDistinct' /\ Accounting' /\ FlushInv'
  BY <1>5, EntriesFrame, AccountingFrame DEF FlushInv, TypeInv
<1> QED BY <1>1, <1>2, <1>3, <1>6, <1>7

(* A leak never goes to the set that is being extracted.                   *)
LEMMA TrackLeaksInv ==
  ASSUME Inv, NEW t \in todo, NEW q \in {0, 1}, q = kernels[1],
         Stepped(t, nextActive), leaked' = leaked \cup {t}, ~trapped',
         leakQueue' = [leakQueue EXCEPT ![q][t[2]] = Append(@, t)],
         UNCHANGED <<eventState, current, counting, nLeakedCurrent, threadVars, extractState,
                     allLeaked, fNumLeaksTransferred, extractStream, stagingVars,
                     fromDeviceBuffers, historyVars>>
  PROVE  Inv'
<1> USE DEF Inv, historyVars, threadVars, stagingVars
<1> DEFINE s == leakQueue[q][t[2]]
<1>1. /\ kernels' \in Seq({0, 1}) /\ Len(kernels') <= 2 /\ transportEvents' \in Nat
      /\ nextActive' \subseteq Tracks /\ todo' \subseteq currentlyActive'
      /\ currentlyActive' \subseteq Tracks /\ KernelInv' /\ QueuesInUse'
  BY SteppedInv
<1>2. /\ t \in Tracks /\ t[1] \in Workers /\ t[2] \in Types /\ t \notin leaked
      /\ eventState[t[1]] \in Active
      /\ kernels \in Seq({0, 1}) /\ kernels # <<>> /\ 1 \in 1 .. Len(kernels)
  BY LeakExtractionAssumption DEF TypeInv, KernelInv
<1>3. extractState # "ExtractionRequested" => q = current
  BY <1>2 DEF QueuesInUse
<1>4. q = allLeaked => extractState \notin Transferring
  BY <1>2, <1>3 DEF QueuesInUse, TypeInv, Transferring
<1>5. s \in Seq(Tracks) /\ Len(s) \in Nat
  BY <1>2 DEF TypeInv
<1>6. /\ \A p \in {0, 1}, type \in Types : ~(p = q /\ type = t[2]) =>
           leakQueue'[p][type] = leakQueue[p][type]
      /\ leakQueue'[q][t[2]] = Append(s, t)
  BY <1>2 DEF TypeInv
<1>7. leakQueue' \in [{0, 1} -> [Types -> Seq(Tracks)]]
  <2>1. Append(s, t) \in Seq(Tracks)
    BY <1>2, <1>5
  <2>2. [leakQueue[q] EXCEPT ![t[2]] = Append(s, t)] \in [Types -> Seq(Tracks)]
    BY <1>2, <2>1 DEF TypeInv
  <2> QED BY <1>2, <2>2 DEF TypeInv
<1> HIDE DEF s
<1>8. /\ Len(leakQueue'[q][t[2]]) = Len(s) + 1
      /\ \A i \in 1 .. Len(s) : leakQueue'[q][t[2]][i] = s[i]
      /\ leakQueue'[q][t[2]][Len(s) + 1] = t
  BY <1>5, <1>6
<1>9. TypeInv'
  BY <1>1, <1>2, <1>7 DEF TypeInv
<1>10. StreamInv'
  BY DEF StreamInv
<1>11. ExtractedInv'
  <2>1. \A p \in {0, 1}, type \in Types : extracted[p][type] <= Len(leakQueue'[p][type])
    <3> SUFFICES ASSUME NEW p \in {0, 1}, NEW type \in Types
                 PROVE  extracted[p][type] <= Len(leakQueue'[p][type])
      OBVIOUS
    <3>1. extracted[p][type] \in Nat /\ extracted[p][type] <= Len(leakQueue[p][type])
      BY DEF TypeInv, ExtractedInv
    <3> QED BY <1>5, <1>6, <1>8, <3>1 DEF s
  <2>2. extractState = "Idle" => \A type \in Types :
          extracted[1 - current][type] = Len(leakQueue'[1 - current][type])
    BY <1>3, <1>6 DEF ExtractedInv, TypeInv
  <2> QED BY <2>1, <2>2 DEF ExtractedInv
<1>12. extracted[q][t[2]] \in Nat /\ extracted[q][t[2]] <= Len(s)
  BY <1>2 DEF TypeInv, ExtractedInv, s
<1>13. \A p \in {0, 1}, type \in Types : ~(p = q /\ type = t[2]) =>
         \A i : IsLive(p, type, i)' <=> IsLive(p, type, i)
  BY <1>6 DEF IsLive
<1>14. \A i : IsLive(q, t[2], i)' <=> IsLive(q, t[2], i) \/ i = Len(s) + 1
  <2>1. \A i : i \in 1 .. Len(s) + 1 <=> i \in 1 .. Len(s) \/ i = Len(s) + 1
    BY <1>5
  <2>2. Len(s) + 1 > extracted[q][t[2]]
    BY <1>5, <1>12
  <2> QED BY <1>8, <2>1, <2>2 DEF IsLive, s
<1>15. \A p \in {0, 1} : Live(p)' = IF p = q THEN Live(p) \cup {t} ELSE Live(p)
  <2>1. \A p \in {0, 1} : p # q => Live(p)' = Live(p)
    BY <1>6, <1>13 DEF Live
  <2>2. ASSUME NEW x \in Live(q)' PROVE x \in Live(q) \cup {t}
    <3>0. PICK type \in Types : \E i \in 1 .. Len(leakQueue'[q][type]) :
            IsLive(q, type, i)' /\ leakQueue'[q][type][i] = x
      BY DEF Live
    <3>1. PICK i \in 1 .. Len(leakQueue'[q][type]) :
            IsLive(q, type, i)' /\ leakQueue'[q][type][i] = x
      BY <3>0
    <3>2. x \in Tracks
      BY DEF Live
    <3>3. CASE type # t[2]
      BY <1>2, <1>6, <1>13, <3>1, <3>2, <3>3 DEF Live
    <3>4. CASE type = t[2] /\ i = Len(s) + 1
      BY <1>8, <3>1, <3>4
    <3>5. CASE type = t[2] /\ i # Len(s) + 1
      <4>1. IsLive(q, type, i)
        BY <1>14, <3>1, <3>5
      <4>2. i \in 1 .. Len(s) /\ s[i] = x
        BY <1>8, <3>1, <3>5, <4>1 DEF IsLive, s
      <4> QED BY <3>2, <3>5, <4>1, <4>2 DEF Live, s
    <3> QED BY <3>3, <3>4, <3>5
  <2>3. t \in Live(q)'
    <3>1. Len(s) + 1 \in 1 .. Len(leakQueue'[q][t[2]])
      BY <1>5, <1>8
    <3> QED BY <1>2, <1>8, <1>14, <3>1 DEF Live
  <2>4. ASSUME NEW x \in Live(q) PROVE x \in Live(q)'
    <3>0. PICK type \in Types : \E i \in 1 .. Len(leakQueue[q][type]) :
            IsLive(q, type, i) /\ leakQueue[q][type][i] = x
      BY DEF Live
    <3>1. PICK i \in 1 .. Len(leakQueue[q][type]) :
            IsLive(q, type, i) /\ leakQueue[q][type][i] = x
      BY <3>0
    <3>2. x \in Tracks
      BY DEF Live
    <3>3. CASE type # t[2]
      BY <1>2, <1>6, <1>13, <3>1, <3>2, <3>3 DEF Live
    <3>4. CASE type = t[2]
      <4>1. i \in 1 .. Len(s) /\ s[i] = x
        BY <3>1, <3>4 DEF s
      <4>2. i \in 1 .. Len(leakQueue'[q][type]) /\ leakQueue'[q][type][i] = x
        BY <1>5, <1>8, <3>4, <4>1
      <4> QED BY <1>14, <3>1, <3>2, <3>4, <4>2 DEF Live
    <3> QED BY <3>3, <3>4
  <2> QED BY <2>1, <2>2, <2>3, <2>4
<1>16. \A p \in {0, 1} : Unsaved(p)' = IF p = q THEN Unsaved(p) \cup {t} ELSE Unsaved(p)
  <2>1. NumSaved' = NumSaved
    BY DEF NumSaved
  <2>2. \A p \in {0, 1} : p # q => Leaks(p)' = Leaks(p)
    BY <1>6 DEF Leaks, Types
  <2> QED BY <1>4, <1>15, <2>1, <2>2 DEF Unsaved
<1>17. extractState' \in Transferring => StagingInv(Leaks(allLeaked))'
  <2> SUFFICES ASSUME extractState \in Transferring PROVE StagingInv(Leaks(allLeaked))'
    OBVIOUS
  <2>1. Leaks(allLeaked)' = Leaks(allLeaked)
    BY <1>4, <1>6 DEF Leaks, Types, TypeInv
  <2> QED BY <2>1 DEF StagingInv, WindowOf
<1>18. Accounting'
  <2>1. AllReturned' = AllReturned
    BY DEF AllReturned
  <2>2. /\ leaked = AllReturned \cup wiped \cup Unsaved(0) \cup Unsaved(1)
        /\ AllReturned \cap wiped = {} /\ Unsaved(0) \cap Unsaved(1) = {}
        /\ (AllReturned \cup wiped) \cap (Unsaved(0) \cup Unsaved(1)) = {}
    BY DEF Accounting
  <2>3. \/ Unsaved(0)' = Unsaved(0) \cup {t} /\ Unsaved(1)' = Unsaved(1)
        \/ Unsaved(1)' = Unsaved(1) \cup {t} /\ Unsaved(0)' = Unsaved(0)
    BY <1>2, <1>16
  <2>4. /\ leaked' = AllReturned' \cup wiped' \cup Unsaved(0)' \cup Unsaved(1)'
        /\ AllReturned' \cap wiped' = {} /\ Unsaved(0)' \cap Unsaved(1)' = {}
        /\ (AllReturned' \cup wiped') \cap (Unsaved(0)' \cup Unsaved(1)') = {}
    BY <1>2, <2>1, <2>2, <2>3
  <2> QED BY <2>4 DEF Accounting
<1>19. EntriesAreDistinct'
  <2>1. \A p \in {0, 1} : Live(p) \subseteq leaked \/ ~(p = q)
    BY <1>4 DEF Accounting, Unsaved
  <2>2. ASSUME NEW i \in 1 .. Len(s), IsLive(q, t[2], i) PROVE s[i] # t
    <3>1. s[i] \in Tracks
      BY <1>5
    <3>2. s[i] \in Live(q)
      BY <1>2, <2>2, <3>1 DEF Live, s
    <3> QED BY <1>2, <2>1, <3>2
  <2>3. /\ \A i \in 1 .. Len(s) : s[i][2] = t[2]
        /\ \A i, j \in 1 .. Len(s) :
             (IsLive(q, t[2], i) /\ IsLive(q, t[2], j) /\ s[i] = s[j]) => i = j
    BY <1>2 DEF EntriesAreDistinct, s
  <2>4. \A i \in 1 .. Len(s) + 1 : i \in 1 .. Len(s) \/ i = Len(s) + 1
    BY <1>5
  <2>5. \A i : IsLive(q, t[2], i) => i \in 1 .. Len(s)
    BY DEF IsLive, s
  <2>6. \A i \in 1 .. Len(leakQueue'[q][t[2]]) : leakQueue'[q][t[2]][i][2] = t[2]
    BY <1>8, <2>3, <2>4
  <2>7. \A i, j \in 1 .. Len(leakQueue'[q][t[2]]) :
          (IsLive(q, t[2], i)' /\ IsLive(q, t[2], j)'
             /\ leakQueue'[q][t[2]][i] = leakQueue'[q][t[2]][j]) => i = j
    BY <1>8, <1>14, <2>2, <2>3, <2>4, <2>5
  <2>8. \A p \in {0, 1}, type \in Types : ~(p = q /\ type = t[2]) =>
          /\ \A i \in 1 .. Len(leakQueue'[p][type]) : leakQueue'[p][type][i][2] = type
          /\ \A i, j \in 1 .. Len(leakQueue'[p][type]) :
               (IsLive(p, type, i)' /\ IsLive(p, type, j)'
                  /\ leakQueue'[p][type][i] = leakQueue'[p][type][j]) => i = j
    BY <1>6, <1>13 DEF EntriesAreDistinct
  <2>9. ASSUME NEW p \in {0, 1}, NEW type \in Types
        PROVE  /\ \A i \in 1 .. Len(leakQueue'[p][type]) : leakQueue'[p][type][i][2] = type
               /\ \A i, j \in 1 .. Len(leakQueue'[p][type]) :
                    (IsLive(p, type, i)' /\ IsLive(p, type, j)'
                       /\ leakQueue'[p][type][i] = leakQueue'[p][type][j]) => i = j
    <3>1. CASE p = q /\ type = t[2]
      BY <2>6, <2>7, <3>1
    <3>2. CASE ~(p = q /\ type = t[2])
      BY <2>8, <3>2
    <3> QED BY <3>1, <3>2
  <2> QED BY <2>9 DEF EntriesAreDistinct
<1>20. FlushInv'
  <2>1. \A w \in Workers : eventState[w] \in {"FlushingTracks", "DeviceFlushed"} => t \notin Of(w)
    BY <1>2 DEF Of, Active
  <2>2. /\ Live(current)' \subseteq Live(current) \cup {t}
        /\ Unsaved(0)' \cup Unsaved(1)' \subseteq Unsaved(0) \cup Unsaved(1) \cup {t}
    BY <1>15, <1>16 DEF TypeInv
  <2> QED BY <2>1, <2>2 DEF FlushInv
<1> QED BY <1>1, <1>9, <1>10, <1>11, <1>17, <1>18, <1>19, <1>20
LEMMA InvImpliesPropertyNext == Inv' => FlushedEventsHaveTheirTracks'
BY InvImpliesProperty, PTL

(* A track that leaks into a full queue ends the program, and its event is *)
(* still in flight.                                                        *)
LEMMA StepTrackStep ==
  ASSUME Inv, ~trapped, FlushedEventsHaveTheirTracks, NEW t \in Tracks, StepTrack(t)
  PROVE  FlushedEventsHaveTheirTracks' /\ (~trapped' => Inv')
<1> DEFINE q == kernels[1]
           full == Len(leakQueue[q][t[2]]) = LeakCapacity
<1>1. /\ t \in todo
      /\ UNCHANGED <<eventState, current, counting, nLeakedCurrent, threadVars, extractState,
                     allLeaked, fNumLeaksTransferred, extractStream, stagingVars,
                     fromDeviceBuffers, historyVars>>
      /\ \/ /\ Stepped(t, nextActive \cup {t}) \/ Stepped(t, nextActive)
            /\ UNCHANGED <<leakQueue, trapped, leaked>>
         \/ /\ Stepped(t, nextActive) /\ leaked' = leaked \cup {t} /\ trapped' = full
            /\ leakQueue' = IF full THEN leakQueue
                            ELSE [leakQueue EXCEPT ![q][t[2]] = Append(@, t)]
  BY DEF StepTrack
<1>2. q \in {0, 1}
  <2>1. kernels \in Seq({0, 1}) /\ kernels # <<>>
    BY <1>1 DEF Inv, TypeInv, KernelInv
  <2> QED BY <2>1
<1> HIDE DEF q
<1>3. CASE /\ Stepped(t, nextActive \cup {t}) \/ Stepped(t, nextActive)
           /\ UNCHANGED <<leakQueue, trapped, leaked>>
  BY <1>1, <1>3, TrackStaysInv, InvImpliesPropertyNext
<1>4. CASE /\ Stepped(t, nextActive) /\ leaked' = leaked \cup {t} /\ trapped' = full
           /\ leakQueue' = IF full THEN leakQueue
                           ELSE [leakQueue EXCEPT ![q][t[2]] = Append(@, t)]
  <2>1. CASE ~full
    <3>1. /\ ~trapped'
          /\ leakQueue' = [leakQueue EXCEPT ![q][t[2]] = Append(@, t)]
      BY <1>4, <2>1
    <3>2. ASSUME NEW p \in {0, 1}, p = q PROVE Inv'
      <4>1. leakQueue' = [leakQueue EXCEPT ![p][t[2]] = Append(@, t)] /\ p = kernels[1]
        BY <3>1, <3>2 DEF q
      <4>2. Stepped(t, nextActive) /\ leaked' = leaked \cup {t}
        BY <1>4
      <4> QED BY <1>1, <3>1, <4>1, <4>2, TrackLeaksInv
    <3>3. Inv'
      BY <1>2, <3>2
    <3> QED BY <3>3, InvImpliesPropertyNext
  <2>2. CASE full
    <3>1. trapped'
      BY <1>4, <2>2
    <3>2. /\ eventState[t[1]] \in Active /\ leaked' = leaked \cup {t}
          /\ UNCHANGED <<eventState, fromDeviceBuffers, wiped>>
      BY <1>1, <1>4 DEF Inv, KernelInv, historyVars
    <3>3. \A w \in Workers : eventState[w] = "DeviceFlushed" => t \notin Of(w)
      BY <3>2 DEF Of, Active
    <3>4. FlushedEventsHaveTheirTracks'
      BY <3>2, <3>3 DEF FlushedEventsHaveTheirTracks, Returned
    <3> QED BY <3>1, <3>4
  <2> QED BY <2>1, <2>2
<1> QED BY <1>1, <1>3, <1>4

LEMMA NextIInv == IInv /\ [Next]_vars => IInv'
<1> SUFFICES ASSUME IInv, [Next]_vars PROVE IInv'
  OBVIOUS
<1>1. CASE Next
  <2>1. /\ ~trapped /\ Inv /\ FlushedEventsHaveTheirTracks
    BY <1>1 DEF Next, IInv
  <2>2. ASSUME NEW w \in Workers, InjectEvent(w) \/ FlushHits(w) \/ RetrieveTracks(w) PROVE Inv'
    BY <2>1, <2>2, InjectStep, FlushHitsStep, RetrieveStep
  <2>3. ASSUME TransportThread PROVE Inv'
    BY <2>1, <2>3, LaunchStep, RequestStep, WaitingStep, PassStepInv, EndExtractionStep, DecideStep,
       EndLoopStep DEF TransportThread
  <2>4. ASSUME Stream PROVE Inv'
    BY <2>1, <2>4, FinishedStep, FillStep, CopyStep, ReturnStep, ClearStep DEF Stream
  <2>5. ASSUME Kernels PROVE IInv'
    <3>1. PICK t \in Tracks : StepTrack(t)
      BY <2>5 DEF Kernels
    <3>2. FlushedEventsHaveTheirTracks' /\ (~trapped' => Inv')
      BY <2>1, <3>1, StepTrackStep
    <3> QED BY <3>2 DEF IInv
  <2>6. Inv' => IInv'
    BY InvImpliesPropertyNext DEF IInv
  <2> QED BY <1>1, <2>2, <2>3, <2>4, <2>5, <2>6 DEF Next
<1>2. CASE UNCHANGED vars
  <2>1. UNCHANGED <<eventState, nextActive, currentlyActive, kernels, todo, trapped, leaked,
                    leakQueue, current, tpc, extractState, allLeaked, fNumLeaksTransferred,
                    transportEvents, extractStream, fromDevice_dev, fromDevice_host,
                    nRemainingLeaks, fromDeviceBuffers, extracted, wiped>>
    BY <1>2 DEF vars, kernelVars, threadVars, extractVars, stagingVars, historyVars
  <2>2. ASSUME Inv PROVE Inv'
    <3>1. NumSaved' = NumSaved
      BY <2>1 DEF NumSaved
    <3>2. \A q \in {0, 1} : Live(q)' = Live(q) /\ Leaks(q)' = Leaks(q) /\ Unsaved(q)' = Unsaved(q)
      BY <2>1, <3>1, UnsavedFrame
    <3>3. TypeInv' /\ KernelInv' /\ QueuesInUse' /\ StreamInv' /\ ExtractedInv'
      BY <2>1, <2>2 DEF Inv, TypeInv, KernelInv, QueuesInUse, StreamInv, ExtractedInv
    <3>4. extractState' \in Transferring => StagingInv(Leaks(allLeaked))'
      BY <2>1, <2>2, <3>2 DEF Inv, StagingInv, WindowOf, TypeInv
    <3>5. EntriesAreDistinct' /\ Accounting' /\ FlushInv'
      BY <2>1, <2>2, <3>2, EntriesFrame, AccountingFrame DEF Inv, FlushInv, TypeInv
    <3> QED BY <3>3, <3>4, <3>5 DEF Inv
  <2>3. FlushedEventsHaveTheirTracks'
    BY <2>1 DEF IInv, FlushedEventsHaveTheirTracks, Returned
  <2> QED BY <2>1, <2>2, <2>3 DEF IInv
<1> QED BY <1>1, <1>2

(* The leaks of an event that the kernels of any iteration pushed, in any  *)
(* number of transfers, are each once with its worker when the event is    *)
(* flushed, and none of another event's is, but for those that were pushed *)
(* after their queues had been extracted and before they were cleared      *)
(* (ReturnTracksToG4 and the chain of extractState in TransportLoop).      *)
THEOREM FlushedEventsHaveTheirTracksHolds == Spec => []FlushedEventsHaveTheirTracks
<1>1. Init => IInv
  BY InitInv, InvImpliesProperty DEF IInv
<1>2. IInv => FlushedEventsHaveTheirTracks
  BY DEF IInv
<1> QED BY <1>1, <1>2, NextIInv, PTL DEF Spec
=============================================================================
