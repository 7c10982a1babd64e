# A TLA+ model of AdePT

AdePT transports the electrons, positrons and gammas of Geant4 events on a GPU.
This directory holds TLA+ specifications of the parts of it that are protocols,
the TLC configurations that model-check them on small instances, and TLAPS proofs of
the properties that matter most for every size of the system. Paths below are
relative to `include/AdePT/` or, for Geant4's side, `src/` of the source tree.

## The system

Two ways to transport exist. In **asynchronous** mode
(`core/AsyncAdePTTransport.*`) all Geant4 workers share one GPU: a *transport
thread* runs the iterations, a *hit processing thread* brings hits back, and
the *workers* hand over tracks and flush events. In **synchronous** mode
(`core/AdePTTransport.*`) every worker owns its buffers and calls `ShowerGPU`
itself. The kernels (`kernels/*.cuh`) exist in several builds.

| Component | State | Operations | Talks to | Hard behaviour | Correct when |
|---|---|---|---|---|---|
| Slot manager (`base/SlotManager.cuh`) | slot list, `toFreeList`, two counters | `NextSlot`, `MarkSlotForFreeing`, two-stage freeing, `Clear` | injection, transport, extraction kernels on several streams | an atomic index and a plain access are two steps; freeing overlaps kernels | a slot has one owner, none is lost, counters stay in range |
| To-device buffers (`core/CommonStruct.h`) | two arrays, `nTrack`, a mutex each, `toDeviceIndex` | `createToDeviceSlot`, swap, copy | workers, transport thread | index read outside the lock | a track arrives in its event |
| Event life cycle (`AsyncAdePTTransportStruct.hh`, `.icc`, `.cuh`) | `eventStates[worker]` | `AddTrack`, `Flush`; `AdvanceEventStates` by both threads | everybody | written by four parties without a lock | a flush returns when transport, hits and leaks of the event are done |
| Transport loop (`TransportLoop`) | queues, leak queues, `injectState`, `extractState`, statistics on device and host | inject, enqueue, transport, extract, free slots, decide | CUDA streams and their host functions, hit thread | asynchronous copies, stale statistics, host functions in between | no track is dropped, every decision rests on enough information |
| Leak extraction (`ReturnTracksToG4`, `FillFromDeviceBuffer`, `AdvanceExtractState`) | two leak queues per particle, staging buffer, `fromDeviceBuffers` | freeze, fill in batches, copy, save, clear | transport loop, workers | the host goes ahead of the device; swapped queues are cleared asynchronously | every leak reaches its worker once, in its event |
| Hit scoring (`core/PerEventScoringImpl.cuh`) | two device buffers with states, host state, counters, one queue per worker | record, swap, transfer, `ProcessBuffer`, `GetNextHitsHandle`, `CloseHitsHandle` | kernels, both threads, host functions, workers | states published in several stores; copy-out against workers | hits arrive once, in order, in their event |
| Host hit buffer (`CircularBufferManager`) | sorted segments, write pointer, free space | `getFreeContiguousMemory`, `addSegment`, `removeSegment` | hit thread, workers | wrap-around, fragmentation, `size_t` arithmetic | memory in use is never granted |
| Track life cycle in the kernels (`kernels/electrons.cuh`, `gammas.cuh`) | a track, its slot, queues | survive, leak, die, create secondaries, record hits | slot manager, queues, hit buffer | many early exits | every track ends in one place, its slot is released, energy is accounted for |
| Split and superseded kernels (`kernels/*_split.cuh`, `*_async.cuh`) | the same, kept in the slot between kernels | the same, one kernel per stage | track manager | a flag written by one kernel and read by the next | as above |
| Synchronous transport (`core/AdePTTransport.*`) | track managers, leak arrays, host buffers | `AddTrack`, `Shower`, `ShowerGPU` | integration, kernels | looping tracks, full containers | all tracks are transported or returned |
| Track manager (`base/TrackManager.cuh`) | ring of slots, active and next queues | `NextTrack`, `SwapAndCompact`, defragmentation | synchronous kernels | ring wrap-around, move of live tracks | live tracks survive defragmentation |
| Synchronous host scoring (`core/HostScoring*.cuh`) | ring of hits on device, host copy | `GetNextFreeHitIndex`, `CheckAndFlush`, `EndOfIteration`, `EndOfTransport` | integration | ring wrap-around, flush threshold | every hit is processed once |
| Tracking managers (`AdePTTrackingManager.cc`, `G4HepEmTrackingManagerSpecialized.cc`) | per-thread flags, current event id | `InitializeAdePT`, `ProcessTrack`, `HandOverOneTrack`, `FlushEvent` | Geant4, transport | the first worker against the others; GPU regions; finish-on-CPU marks | a particle is tracked in the right place |
| Geant4 integration (`AdePTGeant4Integration.cpp`, `AdePTPhysics.cc`) | auxiliary data of volumes, a worker's step, points and touchables | `InitVolAuxData`, `ProcessGPUStep`, `ReturnTrack` | Geant4, transport | objects kept from one hit to the next | a detector sees this step's volumes |
| Configuration (`AdePTConfigurationMessenger.cc`) | settings | commands | tracking managers | two parts of it say which regions are on the GPU | settings agree |
| Containers (`base/MParrayT.h`, `mpmc_bounded_queue.h`, `BlockData.h`) | arrays with atomic counters | push, pop, take and release an element | kernels | full and empty limits | no element is lost or handed out twice |
| Geometry, field, physics tables, random numbers | data | | | numerical | not a matter of states and steps |

How they interact: a worker's `ProcessTrack` calls `AddTrack`, which fills the
active to-device buffer and publishes `NewTracksFromG4`; the transport thread
swaps the buffers, copies, and creates slots and tracks; kernels move tracks
between queues, mark slots, record hits; the transport thread reads back
statistics, advances the event states, swaps hit buffers and wakes the hit
thread; the hit thread transfers hits, queues them and wakes the workers; a
worker in `Flush` processes hits until its event is `DeviceFlushed`, takes its
leaked tracks and goes on. CUDA host functions run in between on threads of
their own and write `injectState`, `extractState`, device and host hit states. In
the synchronous build the worker does all of that in one call: it copies its tracks,
launches the kernels iteration by iteration, compacts the ring, flushes the ring of
hits when it fills, and stacks the leaks as Geant4 tracks.

## Modules

| Module | Models | Abstract spec it implements | Run with | Proofs |
|---|---|---|---|---|
| `SlotManager` | slot manager under the launch and fencing discipline of the transport loop | | `MCSlotManager` | `SlotManagerProofs` |
| `AsyncTransport` | event life cycle: workers, transport thread, host functions, hit thread, shutdown | `FlushService` | `MCAsyncTransport` | `AsyncTransportProofs` |
| `LeakExtraction` | the extraction of leaked tracks, which `AsyncTransport` takes as one batch | | `MCLeakExtraction` | `LeakExtractionProofs` |
| `CircularBuffer` | host hit buffer | | `MCFlushWaiting` | `HitScoringProofs` |
| `HitScoring` | hit buffers, their swap and transfer, queues, handles; extends `CircularBuffer` | `HitDelivery`, `CircularBuffer` | `MCFlushWaiting`, itself | `HitScoringProofs` |
| `FlushWaiting` | `HitScoring` composed with the waits of workers in `Flush` | `HitDelivery` | `MCFlushWaiting` | |
| `KernelSteps` | one step of a track in `TransportElectrons` and `TransportGammas`, as the set of its outcomes | | `MCTrackLife` | `TrackLifeProofs` |
| `TrackLife` | the tracks of a shower on slots, queues and lists, iteration by iteration; extends `KernelSteps` | | `MCTrackLife` | `TrackLifeProofs` |
| `KernelBuilds` | one step of a track in the split and in the superseded kernels | | `MCTrackLife`, `MCSyncWorker` | `TrackLifeProofs` |
| `TrackBuilds` | `TrackLife` in every build of the kernels | | `MCTrackLife` | `TrackLifeProofs` |
| `TrackManager`, `HostScoring` | ring of slots, ring of hits, as operators on their records | | `MCSyncWorker` | `TrackManagerProofs` |
| `SyncTransport` | `AddTrack`, `Shower` and `ShowerGPU` on both; extends them | | `MCSyncWorker` | `TrackManagerProofs` |
| `Configuration` | what the commands of a macro leave | | `MCSyncWorker` | `TrackManagerProofs` |
| `TrackingManager` | a worker of the synchronous build over several events; extends `SyncTransport` and `Configuration` | | `MCSyncWorker` | `TrackManagerProofs` |
| `WorkerLife` | start and end of the workers in both builds, and who frees what | | `MCWorkerLife` | `WorkerLifeProofs` |
| `ScoringObjects` | the touchables a worker keeps between hits; extends `WorkerLife` | | `MCWorkerLife` | `WorkerLifeProofs` |

`Counting` holds the lemmas that several proof modules need, on least elements and on sums.

### SlotManager

A slot is in `fSlotList` beyond the counter (fresh), in the hands of a device
thread between its `atomicAdd` and the access after it, owned by a track, or in
`fToFreeList`. Every device thread is an actor; `NextSlotFetch`/`NextSlotRead` and
`MarkFetch`/`MarkWrite` are the two halves of the kernel operations, the freeing
stages are kernels of the host's making, and `LaunchKernel`, `CompleteKernel`,
`FinishIteration`, `RequestFreeing` are what `TransportLoop` does to order them.
`Leak` is a track that the kernels send to the leak queue and `EndTrack` its
extraction; `Kill` is the exits of the kernels that end a track without marking
its slot. Their slots are never freed before the end of the transport loop: "out of
slots" does not mean that all are needed, and a history variable counts them.

### AsyncTransport and FlushService

One action per step between two points at which another thread could see a difference. Worker:
`ProcessTrack`, `StoreTrack`, `PublishTrack` are `AddTrack` cut at the unlocked read of
`toDeviceIndex` and at the store of the event state; `Flush`, `FlushTest`, `Wait`, `Return` are
`Flush` cut at its loop test and its wait. Transport thread: `OuterLoop` ... `Decide` in the order
of the loop body (`tpc`). The hit thread is cut at `hpc`, also between its test of `keepRunning` and
its wait (`toWait`), where a notification is lost; the batch of hits in `batchHits`/`batch` stands
for the device and host buffers that `HitScoring` refines. `InjectCallback` and `ReturnTracksToG4`
are the host functions. `eventState`, `injectState`, `extractState` have the code's values,
`extractState` folded to three of its states because the leaks of an extraction travel in one batch
here. `ClearQueues` is the kernel that the end of an extraction launches without waiting for it
(`clearPending`); run before the next extraction begins it finds nothing to clear but what was
extracted, so it is an action only after that, when it wipes the leaks that have reached the same
queues again. They are `gone` from the device, and `LeakExtraction` says of which events they are.
`place` says in which queue or buffer a track is; `counted` and `inFlight` are the statistics as the
host last saw them, and the host may see the value of the iteration before, because the copy is not
ordered after the kernel that computes it.

Two races of the code break the natural properties, and both have a run of their
own that ends in the broken state. For the other runs they are recorded in
history variables and excluded by name: `strayed` tracks (stored in a buffer after
its turn) and `overtaken` workers (their hit flush began between a batch's release
of the host buffer and its `AdvanceEventStates`).

`FlushService` is what a worker relies on: the tracks it owes to the device are
gone or in its hands when its flush request is served. `ImplementsFlushService`
maps event states to its phases and device places to `owed`.

### LeakExtraction

The host launches kernels, copies and host functions and goes on; here they run when
their streams get to them. `kernels` and `extractStream` are what has been launched
and is not done, in order. There are two sets of leak queues, and what the host calls
the current one (`current`) may not be the one the kernels fill: those keep the set
they were launched with. `LaunchKernels`, `RequestExtraction`/`NoRequest`,
`PrepareTracks`, `CopyTracks`, `SaveTracks`, `EndExtraction`, `ExtractMore`, `Blocked` and
`Decide` are the parts of an iteration of `TransportLoop` in the order of the code,
`TransportHasFinished`, `FillFromDeviceBuffer`, `CopyToHost`, `ReturnTracksToG4` and
`ClearQueues` are what `extractStream` executes. A full leak queue is a trap of the device, which
ends the program. Injection and the flush of hits, which `AsyncTransport` and `HitScoring`
have in detail, are one step each. The launch of the slots' freeing, and its wait for
`extractStream`, are not in this module.

The clearing of the extracted queues is launched on `extractStream` while
`extractState` becomes `Idle` at once (AsyncAdePTTransport.cuh:1189). The next
extraction may swap the sets before it has run: leaks pushed to the set in between
are cleared with it, and are never returned. `wiped` records them, and
`FlushedEventsHaveTheirTracks` says that these are the only ones an event can miss.
`fromDeviceBuffers` counts how often a worker's buffer holds each track, so that one that
is returned twice can be seen.

### CircularBuffer

`fSegments`, `fWritePtr` and `fFreeContiguousSpace` as in the code, addresses as
offsets. `reserved` is the part of the granted room that is not registered yet: it
lives in `TransferHitsToHost`'s and `ProcessBuffer`'s local variables. The operators
of `getFreeContiguousMemory` follow its branches; the test `<=` of its caller is
`Admits`. The arithmetic of the free space is modulo `Word`, as `size_t` is.

### HitScoring, HitDelivery and FlushWaiting

The states of both device buffers, the host state, the counters on both sides
and the queue items are the code's. A hit is its number among those of its worker, so
that the contents of memory can be followed: memory that is free, and a device
buffer after its transfer, hold 0, and a worker that reads memory it no longer
has a right to delivers a 0. The three stores of a swap, the copy of the counters,
the copy of the hits and the two host functions are steps, and so are each
turn of the loops of `ProcessBuffer` and the three parts of a worker's
`ProcessGPUSteps`. `HitDelivery` is a FIFO per worker; `UsesBufferCorrectly` is the
refinement of `CircularBuffer` with batch sizes up to the device buffer's.

Kernels know the new active buffer when the copies of a swap are done (`deviceBuffer`), and go on
recording into the old one until then. `hostBufferCount` is not initialised, so `Init` leaves it
open. Nothing keeps the hit thread from looking for a batch during a swap: `NeedTransferToHost` is
visible before the host state and before the counters of the batch (PerEventScoringImpl.cuh:471). A
transfer that begins there is *hasty*: it goes by the counts of an earlier batch (`copySizes` is
what its copies were enqueued with), or its host state is overwritten by the swap's.
`SwapsWaitForTheQueue` is what a comment of the code promises (PerEventScoringImpl.cuh:475-476),
that the next swap comes only when the hits of the last one are on their queues; the run
`hasty_transfer` shows that a hasty transfer breaks it, and that a hit is lost. In the program a few
CUDA calls of the transport thread lie between the two, which makes this unlikely; nothing rules it
out. A history variable, `hasty`, says that it has happened. `SwapNeverThrows` holds all the same;
what is said of queues, segments and the delivery of hits is said until then.

`getFreeContiguousMemory` refuses a batch when no gap is long enough, although the
free space may be (fragmentation), and its caller refuses one that fits exactly; the
transfer then waits for a worker to give memory back, although
PerEventScoringImpl.cuh:229-231 says that this should never be the case.
Workers that track look for hits again and again, so that this wait ends.

`FlushWaiting` does not assume that of workers in `Flush`. `wpc` is where such a worker is:
`looking` for hits, on its way into the wait (`toWait`) and `waiting`; only a notification of the
hit thread (`Notifies`: a batch queued, or the end of a turn of its loop) wakes it, and one that
comes while the worker is on its way is lost. Its property, `SwappedHitsArrive`, says that hits that
were swapped out get to their worker, tracking or in `Flush`, unless the state `AllWait` is reached:
the hit thread spins for room in `TransferHitsToHost`, where it notifies nobody, and every worker
that holds memory waits for a notification. `AllWait` is reachable. With a capacity of five and
batches of (1, 1), (0, 1) and (1, 1) hits, of which the second worker misses the notifications, two
segments stay in its queue and the third batch is an exact fit; nobody goes on. A worker that still
tracks would resolve it, so it takes all workers with hits to be in `Flush`.

### KernelSteps and TrackLife

A kernel is a straight-line function of a track, the material, the flags of the
launch and what physics and geometry answer. `KernelSteps` makes it a set: an
element is one way through the kernel, and says what the step did. The record
`Begin` creates holds the kernel's local variables (`eKin`, `energyDeposit`,
`stopped`, `cross_boundary`, `returnLastStep`) and counts the step's effects (`next`,
`leaks`, `marks`: pushes to the next active queue and to the leak queue, calls of
`MarkSlotForFreeing`), so that a way that does one of them twice or not at all
can be seen. Each process is an operator from such records to sets of them
(`Ionisations`, `Bremsstrahlungs`, `AnnihilationsInFlight`, `Conversions`, `Comptons`,
`Photoelectrics`, ...), and `TransportElectrons`, `TransportGammas` and `Outcomes` chain
them in the order of the kernels, early exits included. What G4HepEm, VecGeom and
the field decide is an external choice: any continuous loss, any boundary, any
process, any split of the energy that conserves it.

Two fields are ghosts. `escaped` is energy that left the world; `dropped` is energy
that no track, hit or deposit has any more: that of killed tracks (step limit,
looper guard), and the rest of a positron that falls below the tracking cut, which
`electrons.cuh` adds to the deposit for electrons only. The kernels of the other builds drop
more: see below.

`TrackLife` runs these steps on slots. `where` counts how often a slot is in each
queue or list, `tracks` is what it holds. `NextIteration` is the swap of the queues
and the freeing, `Extract` the copy of a leaked track to the host. A thread's copy
of `returnLastStep` lives as long as the thread, not the track: `cleared` remembers
which kernels have a thread that cleared it, and `Flags` gives a later track either
value. A track that follows a survivor in its thread therefore has no last step
recorded, although AdePTConfigurationMessenger.cc:39 says that last steps are.
Secondaries may go to any free slots (`SlotsFor`), in any order.

### KernelBuilds and TrackBuilds

The kernels of the other two builds in the same form: `AsyncOutcomes` of
`electrons_async.cuh` and `gammas_async.cuh`, which nothing includes any more, and
`SplitOutcomes` of the split kernels (`USE_SPLIT_KERNELS`), each kernel of which is an
operator on the local variables that the one before left in the slot. They share the
processes and differ in the order of hit and interaction, in limits and in cuts.
`TrackBuilds` runs a shower of `TrackLife` in one of the three, chosen at the start.

The split kernels lose gammas: `gammas_split.cuh` chooses a process before the gamma
moves and turns gamma-nuclear into none, and a gamma that reaches the end of such a
step is in no queue. In both builds a part of a Compton scattering below the threshold is
neither a track nor a deposit, although comments call it deposited (gammas_split.cuh:313,
gammas_async.cuh:275); it is in `dropped`. `SplitLosses` says that the split kernels lose energy in
these two ways only: all of a gamma, or parts of at most `LowEnergyThreshold`.

### SyncTransport, TrackManager, HostScoring

`TrackManager` and `HostScoring` are operators on records with the members of the
classes. A manager's `fNextFree` grows and is taken modulo the capacity;
`SwapAndCompact` moves the surviving tracks behind the used part when the ring
fills (`CompactTenths`), into slots that must be free. `HostScoring` has the
device's counters and the host's copy of the statistics apart: which one a step reads
is what its properties are about.

In `SyncTransport`, `spc` is where `Shower` is. `AddTrack` appends to the buffer and starts a shower
when it is full; `Shower` copies and initialises tracks, `Step` is a step of a track in the kernel
of its kind with any effect that kernel has (`StepEffects`: where the track goes, what is born, and
up to two hits, as of a Compton scattering that leaves neither part), `FinishIteration` collects
statistics, swaps, compacts and flushes hits, and gives up when nothing changed for `LoopLimit`
iterations; `EndShower` copies leaks and processes the last hits, `ShowerReturns` goes back to the
caller. A full manager or ring ends the program (`failed`), and so does one whose slots are all used
when an iteration ends (`FullRingStops`, an assertion of `SwapAndCompact`). The counters of the ring
of hits are not initialised by `InitializeOnGPU`: the first shower finds any values (`Garbage`), and
`trusted` says whether the counting started from 0. The random seeds of a batch are `startTrack` +
i; `startTrack` advances by the size of the new batch instead of the one before, so batches of
different sizes may overlap (`batches`, `seeds`).

### TrackingManager and Configuration

`Configuration` is the settings and what a command does to them. `TrackingManager` is one Geant4
worker. `InitializeAdePT` and `InitVolAuxData` compute the GPU regions, each from its own part of
the configuration, and `Accepted` is when the first ends the program: `removeGPURegion` changes what
it computes only. `AddedTracksAreInGPURegions` says that a track waits for the device in a region
whose volumes are marked for it, and where GPU regions are listed in none that was removed. Where
everything is tracked on the device (`trackInAllRegions`), `ProcessTrack` does not look at the
regions at all (AdePTTrackingManager.cc:277): tracks of a removed region are handed over, against
the guidance of the command and a comment of `InitializeAdePT`. `RemovedRegionsStayOnCPU` says what
these promise, and the run `removed_region` shows how it fails. `ProcessTrack` has the loop of the
code: a track in a GPU region goes to `AddTrack`, any other one to the specialised G4HepEm manager,
whose steps (`HepEmStep`) end early in a GPU region. `HandOverOneTrack` deletes every track in
speed-of-light mode (`DeleteTrack`), and has the marks of events to be finished on the CPU, with the
test `> 0` that never holds for event 0. `FlushEvent` and `ReturnTrack` bring leaked tracks back to
the stack. Geant4's event loop is external: events with primaries, a stack that is empty at the end.

### WorkerLife and ScoringObjects

`WorkerLife` follows each worker from `ConstructProcess` to the deletion of its tracking
manager, in both builds. `call_once`, the condition variable and `commonInitDone` are as in
`InitializeAdePT`; `initStep` is how far the common initialisation has come, with the
field that may not be there and the surface model that may fail (its conversion
returns 1, which the caller takes for success). `data` are the geometry, HepEm data, field
and volume data on the device; `engine` the transport of each worker, or the one all
share with its thread. `FreeGPU` and `Cleanup` are steps of the worker in the
synchronous build, and of the static destructors (`exitpc`) in the asynchronous one. With
two synchronous workers the second one frees again what the first one has freed, and the
program ends (`failure = "free"`).

`ScoringObjects` has the navigation histories that `ProcessGPUStep` keeps per worker and
adapts level by level to the volumes of the next hit. A step that leaves the world
does not touch the post-step one (AdePTGeant4Integration.cpp:363 tests for it, line 577 uses
it), which stays as the last hit left it; levels are compared by physical volume, not
by copy number, so replicas are outside of `TouchablesAreOfTheStep`. `FillG4Step` puts the
histories into the step, which keeps the touchable of an earlier hit where there is no volume to
show.

The MC modules choose constants and, where it only renames things, an order: `MCTrackLife` steps the
smallest active slot first, gives secondaries the smallest free slots and extracts leaks after the
launch; `MCSyncWorker` steps the kernels' tracks in order (threads of a launch share nothing but
what atomics hand out), and has the step effects written out as sets, which an assumption compares
with `SplitOutcomes`; `MCFlushWaiting` has three scenarios: in `free` everything interleaves, for
two hits of one worker and one of the other; in `batches` the device fills given batches one after
the other, with the second worker in `Flush` or not; in `buffer` only the operations of
`CircularBuffer` take place, with parts of batches of any size. It follows a hasty transfer no
further than to its beginning. The theorems hold for the modules themselves, with every order.

## Runs

Every run that passes explores its state space completely.

| Run | Question | Bounds | Shows |
|---|---|---|---|
| `slot_manager` | can interleaved kernels and freeing break the slot lists? | 3 slots, 3 list entries, 2 symmetric device threads | every order of claims, marks, freeings and resets, the lists full and empty |
| `async_two_workers` | do the flushes of two events disturb each other? | 2 symmetric workers, 1 event and 1 track each, buffer of 1, threshold 1 | one worker's hits, leaks and buffer swaps in every phase of the other's flush; no deadlock but a shutdown notification that the hit thread misses |
| `async_two_tracks` | is one event with everything that can happen to its tracks flushed right, and does the worker get out of `Flush`? | 1 worker, 2 tracks (or a track and its secondary), 2 steps, threshold 0, spurious wake-ups | full to-device buffer, transport blocked on leaks, late clearing of leak queues, event reopened by returned tracks, shutdown; no deadlock; `FlushService` implemented; lost notifications are made up for |
| `stray_track` (violation) | are returned tracks of the event being flushed? | 1 worker, 2 events, 2 tracks | the unlocked read of `toDeviceIndex` (finding) |
| `late_hits` (violation) | does a worker see only hits of its event? | 1 worker, 2 events | `Flush` leaves hits in the queue (finding) |
| `leak_extraction` | does every leak arrive once, in its event, and does every flush end? | 2 workers, as often as they like, one track each, leak queues and staging buffer of 1 | the host one iteration ahead of the device, several batches per extraction, transport blocked on leaks, traps, late clearing |
| `hits` | do hits of two workers arrive once and in order, also if a worker waits in `Flush` and the host buffer is tight? | 2 workers, 1 slot each, host buffer 5; 2 hits and 1 in any order, or up to 4 batches of which 6 hits come; the buffer alone with batches up to 5 | the steps of swap, transfer, queueing, copy-out and handles in every order; wrap-around, refused exact fits, missed notifications, a full host buffer; all splits of granted room and orders of removal |
| `hasty_transfer` (violation) | does a swap wait until the last batch is queued? | 1 worker, 3 hits, 2 slots | the transfer by stale counts during a swap (finding) |
| `track_life` | does every way through the kernels of every build keep slots, energy and hits consistent, and does a shower end? | 6 slots, showers of 3 units of energy (an annihilation adds 2), `maxSteps` 3, `maxLoops` 1, a looper counter of 4 values, two materials (with cuts and sensitive, and neither) | every exit and process of the kernels, in whole showers |
| `sync_worker` | does a synchronous worker lose or double tracks or hits, does every shower return? | 2 events, 3 tracks, 2 primaries and 2 hand-overs per event, rings of 3 slots and 2 hits, two regions, 6 macros | compaction under live tracks, both rings wrapping around, flushes in the loop and at its end, looping given up, early exits and returned tracks, regions from either part of the configuration, speed-of-light mode |
| `removed_region` (violation) | do tracks of a removed region stay on the CPU? | as `sync_worker` | tracked everywhere, they are handed to the device (finding) |
| `worker_life` | does every worker start, is nothing used before it is there or after it is gone, and is it freed once? | up to 3 workers, both builds, with and without field and surface model; hits of one of them over 3 levels of volumes | every order of the workers at the once flag and the condition variable, failures of the initialisation, the double free; touchables after any sequence of hits |

Why the bounds are enough. The slot lists have no structure beyond position, so
three entries give a full, an empty and a mixed list together with two concurrent
claims. The event life cycle treats workers alike and looks at one event of each,
so two workers show every pairwise interference, and two events in a row every
effect of one on the next. An extraction of one track of a staging buffer of one is
followed by another one when the other worker or another type leaks, and the
workers repeat their events, so extractions overlap in every way the two sets of
queues allow. The host buffer has at most two segments between any two
states of the write pointer that matter, and 5 cells hold two segments with gaps
on each side, or five without. In a shower, three units of energy give every process room to create
its secondaries on either side of the cuts, which are at two and one units; three
steps let a track be injected, go on, and be killed by the step limit; a looper limit of
one is reached in two steps, and a counter of four values wraps around on the way.
A ring of three slots is compacted with one or two live tracks at either side of its
end; one of two hits wraps around with every second hit. Three workers are the first, one
that waits at the once flag and one that comes later. Three levels are the world, a
volume to enter and leave, and one that is in two mothers. What the small bounds
cannot show is proved where a proof exists.

Every property of a passing run has a mutant: an operator before the definition it
alters, named after it (with the suffix `Mutant`, or for what is wrong, as
`OutcomesUnlimited`), that does what a plausible bug in that code would. They are not used
by the specifications.

`CHECK_DEADLOCK FALSE` stands in the runs in which the system may stop: all workers are done, all
hits are delivered, a trap or a failure has ended the program, or the violation is what the run is
for. `FlushWaiting` also stops in `AllWait` and when a hasty transfer begins. The two runs of
`AsyncTransport` that pass check for deadlock; `Finished` names the two states in which it may stop:
at the end, and with the transport thread in `join` and a hit thread that waits for a notification
it has missed.

### Fairness

All fairness is weak.

- `AsyncTransport`: each worker, the transport thread, the hit thread, the two host
  functions and `ClearQueues`. Threads are scheduled, and a CUDA stream executes what is enqueued on it. A
  worker that could go on tracking for ever is bounded by its tracks.
- `HitScoring`, `FlushWaiting`: workers, hit thread and host functions, and that the hit thread is
  woken again: `TransportLoop` notifies it at every iteration until the batch is queued
  (AsyncAdePTTransport.cuh:1295), and when events are done. A worker that tracks looks for hits again and
  again, as `ProcessTrack` does for every track; one in `Flush` does so only
  when it was notified, and what may never come is the notification.
- `LeakExtraction`: the kernels, the transport thread and `extractStream`, but not the workers: a flush
  ends without their help.
- `TrackLife` and `TrackBuilds`: `Next`. Kernels run to their end, and the transport loop goes on.
- `TrackingManager`: `Next`, as it is one thread.
- `WorkerLife`: the steps of each worker, the end of the transport thread, the exit of the
  program. That Geant4 ends a worker's run is one of these steps, which no property needs.

## Proofs

The proofs are for every value of the constants that the modules' named assumptions
allow. These are types of the constants; in `SlotManager` and `WorkerLife` that the set of
device threads or workers is finite, in `LeakExtraction` that of the tracks (in `AsyncTransport`
neither need be); in `HitScoring` that the host buffer holds more than two batches, as the code's
factor makes it; and in `SyncTransport` that a step leaves its track in one place at most, which
`TrackLifeProofs` proves of the kernels.

*Slot manager* (for every list size and finite set of device threads).
The invariant adds to the checked ones a counting argument: `IndInv` relates the
counters, the fresh, owned, marked and claimed slots, the phases in which kernels
run and the stages of freeing. Two facts carry it. First, the slots form a
partition, so a claim beyond the counter is nobody's. Second, freeing runs only
when no kernel does, so the entries of the free list below `fFreeCounter` are
written and are as many as the allocated slots nobody owns; hence the copy of
stage 1 overwrites exactly the entries of `fSlotList` that the counter steps back
over. `FreeingStaysInBounds` is a consequence of the cardinalities.

*Asynchronous transport* (for every set of workers, number of events and tracks, buffer size,
thresholds). None of the checked invariants is inductive: they speak of an event that is
flushed, and what makes them true happens long before. `IInv` follows a track from the
worker's buffer to its end. `InQueue` ties each queue to the states of injection and
extraction and to the place of the transport thread in its loop: a track is in the
injection buffer only between the copy and the enqueueing, in the inactive to-device
buffer only until the copy, frozen only while an extraction is requested. `Stage` says for
every place how far the event of the track's worker can be: from `Inject` on not in
the buffer that is active, from `InjectionCompleted` on not in any of them, when
statistics have declared transport over only leaked, while tracks are flushed only
frozen. `WorkerStates` ties the worker to what only it does to its event's
state, and `HitsOf` follows the hits likewise. Each step of each thread preserves this; then
`TransportIsOver`, `LeaksAreOnHost` and `HitsAreQueued` are instances of it, and the action
properties `HitsAreNotLost` and `NothingIsDropped` follow from `IInv` and the step.
`FlushServiceIsImplemented` shows step by step (`ServiceStep`) that every step of the life cycle
is a step of `FlushService` or changes nothing it sees. Strays are excluded from all of
this by name, overtaken workers from what is said about their hits.

*Circular buffer* (for every capacity, every word size and every sequence of batch
sizes). The invariant, `BufferInv`, is the conjunction of the four checked invariants.
`FirstIsLeast` and `LastIsGreatest` show what the library searches over the sorted
vector find (`std::lower_bound`, `front`, `std::prev`), `AdjustedPtrFits` that the
retreat of the write pointer never passes a segment, `RoomIsFree` that the space
found ahead of it or at the start overlaps none. With that, granting, adding and
removing each preserve the invariant.

*Hit scoring* (for every number of workers and all sizes). That the next device buffer is free
when a swap begins rests on where the batch in the previous buffer is: `BatchStates` ties the
state of that buffer to what the transfer stream has yet to do, and `IInv` adds that
`ReadyToSwapBuffers` was true at the beginning of a swap, and stays so until the buffer
flips. It holds whatever the hit thread does: one that finds the batch early does damage
to the hits, but not to this.

The rest is said until a transfer is hasty, and its invariants have that as an alternative: `hasty`
is never reset, so a step from a state without it is all that is to be shown, and a step that sets
it needs nothing. `SegmentsAreQueued` is not inductive: a segment is removed through an item, or
through the copy of it in a handle that was taken earlier. `AInv` adds the phases of a batch (which
states the two threads and the stream can see together), that the room granted is for the part of
the batch that is not queued yet (`Granted`), that items and segments are one to one
(`SegmentsHaveItems`, `ItemsHaveSegments`, `ItemsAreApart`), and that a handle agrees with the first
item of its queue, on which somebody has started (`Held`); so nobody moves the hits of an item under
its worker. `BufferInv` holds along with it, as every use of the manager is a step of
`CircularBuffer` with a batch that fits, which is `UsesBufferCorrectly`. `DInv` adds what the memory
holds: hits delivered, then those that the queue's items point to, those of the batch on its way (on
the device or in the host buffer, as `hostState` and the stream say), and those in the active device
buffer, are the numbers from 1 on, in order (`OrderOf`, `FlightOf`). Every step is then a step of
`HitDelivery` or a stutter (`HitsAreDeliveredHolds`).

*Leak extraction* (for any workers, tracks, sizes of the leak queues and of the staging buffer).
`Inv` follows the leaks of both sets of queues: `QueuesInUse` says that the kernels for which
`extractStream` does not wait fill the current set, `StreamInv` what the stream still has to do
in each state of the extraction, `StagingInv` which window of the frozen queues is staged and how
far they are saved. With the entries of a queue distinct, `Accounting` says that a leaked track is
in exactly one place: returned, once, to its own worker; in a queue and not saved yet; or
cleared late. `FlushInv` is what the order of flags guarantees: while tracks are flushed the leaks of
the event are in the set that is extracted, and when they are flushed there are none.

*One step of a track* (for every energy, cut, material, flag and limit).
`StepEnds` says of every outcome that the slot ends in exactly one place or the track
is killed, that the energy it came with is in the track, its secondaries, the
deposit, or accounted for as escaped or dropped, that a killed track leaves no
deposit behind, and that the deposit in a sensitive volume is in the hit. The
kernel is cut into stages, and each operator is shown to lead from a stage to a
stage: a step is `Fresh` until it is put somewhere, `Ended` once it is, `Crossing` when it
is to enter the next volume, `Stopping` when the particle is out of energy but still
has to annihilate or be freed. `StepsAreLimited`: a track at `maxSteps` is killed.

*Tracks* (for every number of slots and every set of primaries). `OneDestination` is
not inductive without the types of `tracks`, `where` and `cleared`, which `IInv` adds: they
make the track of an active slot one that `StepEnds` speaks of. Its secondaries go to
free slots, which are in no queue. `DepositsAreScored` is about the next steps of
every reachable state, and follows from the same invariant and `StepEnds`. `TypesHold`
adds the ledger and the sizes of the queues. `EnergyIsAccountedForHolds` needs a sum over the
slots that live. A sum over a set has no theorem that the provers can use; here it is the
cardinality of a set of pairs, as many for each slot as it has energy (`Counting`), and the
cardinality of disjoint unions does the rest: each step replaces the share of one slot by
those of its survivor and secondaries.

*The other builds* (as general). `SupersededStepEnds` and `SplitStepEnds` are the counterparts of
`StepEnds`, stage by stage through the kernels of each build; `EveryBuildHasOneDestination`,
`OtherBuildsScoreDepositsHolds` and `SplitLossesHolds` follow as above.

*Start and end of the workers* (for every finite set of workers, both builds). For
`DataOutlivesItsUsers`, `IInv` says how far the common initialisation is when somebody is past the
once flag (`Started`), that a running worker of the synchronous build has an engine of its own
(`OwnEngine`), that nobody frees while a run goes on and that the asynchronous engine's thread
has ended before anything it uses goes (`Exits`), and that the data are there as long as
anybody uses them. `CleanUpFreesOnce` needs in addition what each step of the clean-up has freed: of
the program's statics, of every synchronous worker as long as nothing fails, and of one that is
alone (`SharedCleanUp`, `WorkerCleanUp`, `AloneCleanUp`).

*Touchables* (for any volumes, however deep, and any sequence of hits). The loop of
`FillG4NavigationHistory` is followed turn by turn: after n turns the history is the first n volumes
of the path, unless it began with them, in which case it is untouched so far (`Filled`). Either way
the cut at the end leaves the path. That gives `TouchablesAreOfTheStep` for whatever the worker kept
from the hits before.

*Ring of the track manager* (for every capacity and threshold). `Ring` says that the used part, from
`fStart` to `fNextFree`, is no longer than the ring, and that the tracks are in it. Everything rests
on `SameRemainder`: numbers less than a turn apart are in the same slot only if they are equal. With
it `NextTrackIsFresh` shows that a new track never gets a slot in use. `CompactionRoomIsFree` shows
that the guard of `SwapAndCompact` is enough for a copy in place and in parallel: no target is the
slot of a track of the iteration, and no two targets are the same. `CompactedRing` and
`IterationKeepsRing` show that `Ring` holds again after that, and after an iteration that moves
nothing. `CopiesAreComplete` adds what the copies leave in the buffer, by induction over their
number: the tracks that were there, in their new slots.

*A synchronous worker* (for every set of regions, macro, capacity, threshold, looping limit, and any
effects of a step that leave a track in one place at most). None of the checked invariants is
inductive. `WorkerInv` gives every living track a home: the stack, the secondaries or the hands of
the worker, the buffer for the device, the active or next slots of its kind, its leak queue.
`Holds(s, S)` says that a sequence is an enumeration of a set, and `HostHomes` and `DeviceHomes`
that each sequence of the program holds the tracks whose home it is; for the slots of a ring this is
`Carries`, which `CarriesNew`, `CarriesSurvivor`, `CarriesLess` and `CarriesOn` take through a new
track, a survivor, a track that ends, and an iteration with or without compaction. `Control` ties
the place of the worker to that of its shower, and `Quiet` says that managers and queues are empty
between showers, also after looping detection has given up. From it `EveryTrackIsInOnePlace`,
`EventsEndClean` and `AddedTracksAreInGPURegions` are read off. `SeedInv` says that the seeds given
so far are below `startTrack` plus the last batch, as long as batches are of one size. `HitInv` is
about the ring of hits: while the counters started from 0 it holds the hits from `fBufferStart` on,
fewer than a turn (`Counted`), and the host has processed those before; at the end of the loop the
host's statistics are the device's, or the iteration flushed. So `EndOfTransport` brings exactly the
rest, or repeats what is already there.

Induction over data is out of the prover's reach as a rule of the library. Where a recursive function
over numbers has a closed form, the proofs take the least counterexample instead (`Induction`,
`LeastNatural`).

Only model-checked: liveness under fairness, and `ENABLED`, which the prover does not do. These are
`EveryFlushIsServed`, `EveryFlushIsExtracted`, `SwappedHitsArrive`, `EveryShowerEnds`,
`EveryShowerIsAnswered` and `EveryWorkerStarts`. `HitsAreDelivered` is proved of `HitScoring`, and
checked of `FlushWaiting`, whose steps are steps of `HitScoring`. That the step effects in
`MCSyncWorker` are those of the kernels is an assumption that TLC evaluates.

## Not modelled

- *Numerical parts*: physics models and tables, geometry and navigation, magnetic field, random
  number engines, units. They are choices of the kernels' steps.
- *Contents*: what a hit says, the conversion of a step into Geant4's, the tables of
  volumes, the account of scoring per volume, verbosity and timing.
- *Containers*: `BlockData` and the bounded queue have no user but their unit tests; `MParray` is a
  sequence with an atomic push in the modules that use it.
- *Sizes*: device memory set-up and block sizes have no states.
- *The counters a slot keeps in the synchronous build*: `InitTracks` resets neither the step nor the
  looper counter of a slot, so a track can be killed for the steps of the one before it. The tracks
  of `SyncTransport` have no counters, and those of `TrackLife` start at zero, as in the
  asynchronous injection.
- *The termination of the shutdown*: the hit thread can miss its last notification
  (AsyncAdePTTransport.cuh:1392), and the destructor then waits for ever. `AsyncTransport` reaches that
  state, which `Finished` names; nothing in the repository says that the destructor
  returns, so no property does.
- *One state space for everything asynchronous*: `AsyncTransport`, `HitScoring` and `LeakExtraction`
  each take the parts of the others that they do not detail as few steps, in any order
  that the others allow. Their product is out of TLC's reach.
- Benchmarking, examples and tests are not part of the running system.

## What could come next

What remains true of hits after a hasty transfer; the step
counters of slots in `SyncTransport`; a link between `AsyncTransport`'s single batch of leaks and
`LeakExtraction`.
