------------------------------ MODULE WorkerLife ------------------------------
(* The start and the end of the Geant4 workers: ConstructProcess, the once *)
(* flag and the condition variable of InitializeAdePT, the data all share  *)
(* (geometry, G4HepEm, magnetic field, volumes) and the engines on top of  *)
(* it, one per worker or, in the asynchronous build, one with a thread of  *)
(* its own, then Cleanup and FreeGPU.  Geant4 starts the workers and       *)
(* deletes their tracking managers when the run is over.                   *)
EXTENDS FiniteSets, Integers

CONSTANT Workers

ASSUME WorkersAssumption == IsFiniteSet(Workers) /\ "shared" \notin Workers

Data == {"geometry", "hepem", "field", "volAux"}
Engines == Workers \cup {"shared"}

VARIABLES
  ASYNC_MODE, ADEPT_USE_SURF, sequential, magneticField, workers,   (* of the program *)
  wpc,                (* worker -> where it is                             *)
  onceFlag, commonInitDone,            (* statics of InitializeAdePT       *)
  initStep,           (* of the common initialisation: how far it is       *)
  data,               (* Data -> "none", "live" or "freed"                 *)
  fg4hepem_state,     (* the static pointer is set                         *)
  argument,           (* worker -> the pointer it passed to FreeGPU is set *)
  engine,             (* Engines -> "none", "buffers", "live" or "freed"   *)
  runTransport, gpuThread,             (* of the asynchronous engine       *)
  exitpc,             (* where the asynchronous engine's destructor is     *)
  failure             (* "none", "exception" or "free"                     *)

program == <<ASYNC_MODE, ADEPT_USE_SURF, sequential, magneticField, workers>>
startVars == <<onceFlag, commonInitDone, initStep>>
threadVars == <<runTransport, gpuThread, exitpc>>
vars == <<program, wpc, startVars, data, fg4hepem_state, argument, engine, threadVars, failure>>

Init ==
  /\ ASYNC_MODE \in BOOLEAN /\ ADEPT_USE_SURF \in BOOLEAN /\ magneticField \in BOOLEAN
  /\ workers \in (SUBSET Workers) \ {{}}
  /\ sequential \in BOOLEAN /\ (sequential => Cardinality(workers) = 1)
  /\ wpc = [w \in Workers |-> "start"]
  /\ onceFlag = "none" /\ commonInitDone = FALSE /\ initStep = 0
  /\ data = [d \in Data |-> "none"]
  /\ fg4hepem_state = FALSE /\ argument = [w \in Workers |-> FALSE]
  /\ engine = [e \in Engines |-> "none"]
  /\ runTransport = TRUE /\ gpuThread = "none" /\ exitpc = "none"
  /\ failure = "none"

Go(w, from, to) ==
  /\ w \in workers /\ failure = "none"
  /\ wpc[w] = from /\ wpc' = [wpc EXCEPT ![w] = to]

(* The workers do this one after the other, under Geant4's mutex.          *)
ConstructProcess(w) ==
  /\ Go(w, "start", "InitializeAdePT")
  /\ UNCHANGED <<program, startVars, data, fg4hepem_state, argument, engine, threadVars, failure>>

(* call_once: the first worker runs the common initialisation, those that  *)
(* come meanwhile are blocked until it has returned.                       *)
CallOnce(w) ==
  /\ \/ onceFlag = "none" /\ onceFlag' = "running" /\ Go(w, "InitializeAdePT", "common")
     \/ onceFlag = "done" /\ UNCHANGED onceFlag /\ Go(w, "InitializeAdePT", "wait")
  /\ UNCHANGED <<program, commonInitDone, initStep, data, fg4hepem_state, argument, engine,
                 threadVars, failure>>

(* Initialize of the engine that the first worker makes, in this order.    *)
CommonStep(w, i) ==
  /\ Go(w, "common", "common")
  /\ initStep = i /\ initStep' = i + 1
  /\ UNCHANGED <<program, onceFlag, commonInitDone, argument, engine, threadVars, failure>>

Upload(d) == data' = [data EXCEPT ![d] = "live"]

(* A surface model that cannot be made returns 1, which is success here.   *)
LoadGeometry == Upload("geometry") \/ (ADEPT_USE_SURF /\ UNCHANGED data)

InitializeGeometry(w) ==
  /\ CommonStep(w, 0) /\ LoadGeometry /\ UNCHANGED fg4hepem_state

InitializePhysics(w) ==
  /\ CommonStep(w, 1) /\ Upload("hepem") /\ fg4hepem_state' = TRUE

(* Nothing is uploaded for a field of zero, or without a file.             *)
UploadBField == IF magneticField THEN Upload("field") ELSE UNCHANGED data

InitializeBField(w) ==
  /\ CommonStep(w, 2) /\ UploadBField /\ UNCHANGED fg4hepem_state

InitializeVolAuxArray(w) ==
  /\ CommonStep(w, 3) /\ Upload("volAux") /\ UNCHANGED fg4hepem_state

(* The asynchronous engine then allocates its buffers and its memory on    *)
(* the device, and starts its thread.                                      *)
EngineStep(w, i) ==
  /\ ASYNC_MODE
  /\ Go(w, "common", "common")
  /\ initStep = i /\ initStep' = i + 1
  /\ UNCHANGED <<program, onceFlag, commonInitDone, data, fg4hepem_state, argument, runTransport,
                 exitpc, failure>>

AllocateTrackBuffer(w) ==
  /\ EngineStep(w, 4)
  /\ engine' = [engine EXCEPT !["shared"] = "buffers"] /\ UNCHANGED gpuThread

InitializeGPU(w) ==
  /\ EngineStep(w, 5)
  /\ engine' = [engine EXCEPT !["shared"] = "live"] /\ UNCHANGED gpuThread

LaunchGPUWorker(w) ==
  /\ EngineStep(w, 6)
  /\ gpuThread' = "running" /\ UNCHANGED engine

AllSteps == IF ASYNC_MODE THEN 7 ELSE 4

(* An exception of Initialize leaves call_once and ends the program.       *)
InitializeFails(w) ==
  /\ Go(w, "common", "common")
  /\ failure' = "exception"
  /\ UNCHANGED <<program, startVars, data, fg4hepem_state, argument, engine, threadVars>>

CommonInitDoneMutant == commonInitDone
CommonInitDone == TRUE

EndCommonInit(w) ==
  /\ initStep = AllSteps /\ Go(w, "common", "wait")
  /\ commonInitDone' = CommonInitDone /\ onceFlag' = "done"
  /\ UNCHANGED <<program, initStep, data, fg4hepem_state, argument, engine, threadVars, failure>>

WaitForCommonInit(w) ==
  /\ commonInitDone
  /\ Go(w, "wait", "engine")
  /\ UNCHANGED <<program, startVars, data, fg4hepem_state, argument, engine, threadVars, failure>>

(* A new instance replaces the one of the common initialisation; the state *)
(* of G4HepEm is a static member, and stays.                               *)
NewInstanceMutant == sequential /\ fg4hepem_state
NewInstance == fg4hepem_state

InitializeEngine(w) ==
  /\ Go(w, "engine", "running")
  /\ IF ASYNC_MODE THEN UNCHANGED <<engine, fg4hepem_state>>
     ELSE engine' = [engine EXCEPT ![w] = "live"] /\ fg4hepem_state' = NewInstance
  /\ UNCHANGED <<program, startVars, data, argument, threadVars, failure>>

RunEnds(w) ==
  /\ Go(w, "running", "done")
  /\ UNCHANGED <<program, startVars, data, fg4hepem_state, argument, engine, threadVars, failure>>

-----------------------------------------------------------------------------
(* The run is over for all workers: Geant4 deletes the tracking managers.  *)
(* Cleanup of the asynchronous build does nothing.                         *)
RunIsOver == \A w \in workers : wpc[w] \notin {"start", "InitializeAdePT", "common", "wait", "engine", "running"}

Cleanup(w) ==
  /\ RunIsOver
  /\ IF ASYNC_MODE THEN Go(w, "done", "ended") /\ UNCHANGED argument
     ELSE Go(w, "done", "FreeGPU") /\ argument' = [argument EXCEPT ![w] = fg4hepem_state]
  /\ UNCHANGED <<program, startVars, data, fg4hepem_state, engine, threadVars, failure>>

FreeGPU(w) ==
  /\ Go(w, "FreeGPU", "FreeG4HepEm")
  /\ engine' = [engine EXCEPT ![w] = "buffers"]
  /\ UNCHANGED <<program, startVars, data, fg4hepem_state, argument, threadVars, failure>>

(* What is not there, or not there any more, cannot be freed.              *)
Free(d) ==
  /\ data' = [data EXCEPT ![d] = "freed"]
  /\ failure' = IF data[d] = "live" THEN "none" ELSE "free"

FreeG4HepEm(w) ==
  /\ Go(w, "FreeG4HepEm", "FreeBField")
  /\ IF argument[w] THEN Free("hepem")
     ELSE failure' = "free" /\ UNCHANGED data        (* a null pointer     *)
  /\ UNCHANGED <<program, startVars, fg4hepem_state, argument, engine, threadVars>>

FreeBField(w) ==
  /\ Go(w, "FreeBField", "reset")
  /\ data' = [data EXCEPT !["field"] = IF @ = "live" THEN "freed" ELSE @]
  /\ UNCHANGED <<program, startVars, fg4hepem_state, argument, engine, threadVars, failure>>

ResetState(w) ==
  /\ Go(w, "reset", "FreeVolAuxArray")
  /\ fg4hepem_state' = FALSE
  /\ UNCHANGED <<program, startVars, data, argument, engine, threadVars, failure>>

FreeVolAuxArray(w) ==
  /\ Go(w, "FreeVolAuxArray", "FreeScoring") /\ Free("volAux")
  /\ UNCHANGED <<program, startVars, fg4hepem_state, argument, engine, threadVars>>

(* The hits and the buffer for the leaks are the worker's own.             *)
FreeScoring(w) ==
  /\ Go(w, "FreeScoring", "ended")
  /\ engine' = [engine EXCEPT ![w] = "freed"]
  /\ UNCHANGED <<program, startVars, data, fg4hepem_state, argument, threadVars, failure>>

-----------------------------------------------------------------------------
(* The last reference to the asynchronous engine goes, with the program's  *)
(* statics: its thread is stopped, and what it used is freed.              *)
Exit(from, to) ==
  /\ failure = "none" /\ exitpc = from /\ exitpc' = to
  /\ UNCHANGED <<program, wpc, startVars, argument, fg4hepem_state>>

StopTransport ==
  /\ engine["shared"] = "live" /\ \A w \in workers : wpc[w] = "ended"
  /\ Exit("none", "join") /\ runTransport' = FALSE
  /\ UNCHANGED <<data, engine, gpuThread, failure>>

TransportEnds ==
  /\ gpuThread = "running" /\ ~runTransport /\ gpuThread' = "ended"
  /\ UNCHANGED <<program, wpc, startVars, data, fg4hepem_state, argument, engine, runTransport,
                 exitpc, failure>>

JoinMutant == TRUE
Join == gpuThread = "ended"

FreeVolAux ==
  /\ Join /\ Exit("join", "engine") /\ Free("volAux")
  /\ UNCHANGED <<engine, runTransport, gpuThread>>

ResetEngine ==
  /\ Exit("engine", "hepem") /\ engine' = [engine EXCEPT !["shared"] = "freed"]
  /\ UNCHANGED <<data, runTransport, gpuThread, failure>>

FreeSharedG4HepEm ==
  /\ Exit("hepem", "field") /\ Free("hepem")
  /\ UNCHANGED <<engine, runTransport, gpuThread>>

FreeSharedBField ==
  /\ Exit("field", "over")
  /\ data' = [data EXCEPT !["field"] = IF @ = "live" THEN "freed" ELSE @]
  /\ UNCHANGED <<engine, runTransport, gpuThread, failure>>

Step(w) ==
  \/ ConstructProcess(w) \/ CallOnce(w)
  \/ InitializeGeometry(w) \/ InitializePhysics(w) \/ InitializeBField(w)
  \/ InitializeVolAuxArray(w) \/ AllocateTrackBuffer(w) \/ InitializeGPU(w) \/ LaunchGPUWorker(w)
  \/ InitializeFails(w) \/ EndCommonInit(w) \/ WaitForCommonInit(w) \/ InitializeEngine(w)
  \/ RunEnds(w) \/ Cleanup(w) \/ FreeGPU(w) \/ FreeG4HepEm(w) \/ FreeBField(w)
  \/ ResetState(w) \/ FreeVolAuxArray(w) \/ FreeScoring(w)

Exiting ==
  StopTransport \/ FreeVolAux \/ ResetEngine \/ FreeSharedG4HepEm \/ FreeSharedBField

Next == (\E w \in Workers : Step(w)) \/ TransportEnds \/ Exiting

(* Every thread goes on as long as it can.                                 *)
Spec ==
  /\ Init /\ [][Next]_vars
  /\ (\A w \in Workers : WF_vars(Step(w))) /\ WF_vars(TransportEnds) /\ WF_vars(Exiting)

-----------------------------------------------------------------------------
(* The variables hold what they are declared for.                          *)
TypeOK ==
  /\ ASYNC_MODE \in BOOLEAN /\ ADEPT_USE_SURF \in BOOLEAN /\ sequential \in BOOLEAN /\ magneticField \in BOOLEAN
  /\ workers \subseteq Workers
  /\ wpc \in [Workers -> {"start", "InitializeAdePT", "common", "wait", "engine", "running",
                          "done", "FreeGPU", "FreeG4HepEm", "FreeBField", "reset",
                          "FreeVolAuxArray", "FreeScoring", "ended"}]
  /\ onceFlag \in {"none", "running", "done"} /\ commonInitDone \in BOOLEAN
  /\ initStep \in 0 .. 7
  /\ data \in [Data -> {"none", "live", "freed"}]
  /\ fg4hepem_state \in BOOLEAN /\ argument \in [Workers -> BOOLEAN]
  /\ engine \in [Engines -> {"none", "buffers", "live", "freed"}]
  /\ runTransport \in BOOLEAN /\ gpuThread \in {"none", "running", "ended"}
  /\ exitpc \in {"none", "join", "engine", "hepem", "field", "over"}
  /\ failure \in {"none", "exception", "free"}

(* Whoever transports has what it transports with: no worker runs before   *)
(* the data of all are on the device, whichever worker initialises them,   *)
(* and nothing of it goes while a worker or the thread of the asynchronous *)
(* engine may still use it.  Only a surface model may be missing.          *)
AllDataLive ==
  \A d \in Data : data[d] = "live" \/ (d = "field" /\ ~magneticField)
                                  \/ (d = "geometry" /\ ADEPT_USE_SURF /\ data[d] = "none")
DataOutlivesItsUsers ==
  /\ gpuThread = "running" => AllDataLive /\ engine["shared"] = "live"
  /\ \A w \in workers : wpc[w] = "running" =>
       AllDataLive /\ engine[IF ASYNC_MODE THEN "shared" ELSE w] = "live"

(* The clean-up frees everything but the geometry.  What is shared it      *)
(* frees once per worker of the synchronous build, which ends the program  *)
(* if there is a second one; with one worker, and in the asynchronous      *)
(* build with any number, it frees it once.                                *)
CleanUpFreesOnce ==
  /\ failure = "free" => ~ASYNC_MODE /\ Cardinality(workers) > 1
  /\ (/\ failure = "none" /\ (exitpc = "over" \/ ~ASYNC_MODE)
      /\ \A w \in workers : wpc[w] = "ended") =>
       /\ \A d \in Data \ {"geometry"} : data[d] # "live"
       /\ \A e \in Engines : engine[e] \in {"none", "freed"}

(* No worker is left behind the once flag or the condition variable.       *)
EveryWorkerStarts ==
  \A w \in Workers : wpc[w] = "InitializeAdePT" ~> (wpc[w] = "running" \/ failure # "none")
=============================================================================
